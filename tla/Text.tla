-------------------------------- MODULE Text --------------------------------
(***************************************************************************)
(* Text values as the connector sees them.  A value is opaque except for   *)
(* what str::trim does to it: Padded maps every spelling that carries      *)
(* surrounding white space to the spelling without it, and "" is the blank *)
(* value.  Optional values are sets with at most one element.              *)
(***************************************************************************)
EXTENDS Integers, Sequences

CONSTANT Padded  \* function: padded spelling -> trimmed spelling

ASSUME PaddedAssumption ==
    /\ "" \notin DOMAIN Padded
    /\ \A v \in DOMAIN Padded : Padded[v] \notin DOMAIN Padded

None == {}
Some(v) == {v}
The(option) == CHOOSE v \in option : TRUE

\* Iterator::find: the element of s at the first of the passing positions.
Find(s, passing) == {s[i] : i \in {j \in passing : \A k \in passing : j <= k}}

Trim(v) == IF v \in DOMAIN Padded THEN Padded[v] ELSE v
IsBlank(v) == Trim(v) = ""
=============================================================================
