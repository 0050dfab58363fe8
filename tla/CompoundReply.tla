--------------------------- MODULE CompoundReply ---------------------------
(***************************************************************************)
(* What a COMPOUND promises its client ("Ops execute in order and stop at  *)
(* the first failure; the reply carries every result produced up to and    *)
(* including that one", compound.ts:522-525): results are added one at a   *)
(* time and never altered, all but the last succeeded, a failed one        *)
(* carries nothing but its status, and the status of the whole is that of  *)
(* the last.                                                               *)
(***************************************************************************)
EXTENDS Sequences, SequencesExt

VARIABLES
  results, \* a sequence of [op, status, body]
  status   \* "none" while the COMPOUND runs, then the status of the whole

vars == <<results, status>>

OneMore == Len(results') = Len(results) + 1 /\ Front(results') = results

Succeed ==
  /\ status = "none" /\ OneMore
  /\ Last(results').status = "OK"
  /\ status' \in {"none", "OK"}

Fail ==
  /\ status = "none" /\ OneMore
  /\ Last(results').status # "OK" /\ Last(results').body = <<>>
  /\ status' = Last(results').status

\* A COMPOUND without operations, or of another minor version.
Nothing ==
  /\ status = "none" /\ results = <<>> /\ results' = <<>>
  /\ status' \in {"OK", "MINOR_VERS_MISMATCH"}

\* Arguments that cannot be read end the call without results.
Garbage ==
  /\ status = "none" /\ status' = "GARBAGE_ARGS" /\ results' = <<>>

Init == results = <<>> /\ status = "none"
Next == Succeed \/ Fail \/ Nothing \/ Garbage
Spec == Init /\ [][Next]_vars
=============================================================================
