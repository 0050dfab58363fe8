----------------------------- MODULE DurableMap -----------------------------
(***************************************************************************)
(* What a handle store promises whoever restarts the server: what is saved *)
(* is always a value the store once had, as a whole, and never an older    *)
(* one than was saved before; a process that starts has what was saved.    *)
(* A value is the sequence of its keys, the oldest first.                  *)
(***************************************************************************)
LOCAL INSTANCE Sequences

CONSTANT Keyset

VARIABLES
  value,    \* what the process has
  snapshot, \* <<v>> while the value v it had is being saved, else <<>>
  saved,    \* what a process that starts now would have
  process   \* "up" or "down"

vars == <<value, snapshot, saved, process>>

\* A key is added, or takes the place of the oldest.
Put(k) ==
  /\ process = "up"
  /\ \/ value' = Append(value, k)
     \/ value # <<>> /\ value' = Append(Tail(value), k)
  /\ UNCHANGED <<snapshot, saved, process>>

Begin ==
  /\ process = "up" /\ snapshot = <<>> /\ snapshot' = <<value>>
  /\ UNCHANGED <<value, saved, process>>

Save ==
  /\ process = "up" /\ snapshot # <<>> /\ saved' = snapshot[1] /\ snapshot' = <<>>
  /\ UNCHANGED <<value, process>>

GiveUp ==
  /\ snapshot # <<>> /\ snapshot' = <<>>
  /\ UNCHANGED <<value, saved, process>>

Stop ==
  /\ process = "up" /\ process' = "down"
  /\ value' = <<>> /\ snapshot' = <<>>
  /\ UNCHANGED saved

Start ==
  /\ process = "down" /\ process' = "up" /\ value' = saved
  /\ UNCHANGED <<snapshot, saved>>

Init == value = <<>> /\ snapshot = <<>> /\ saved = <<>> /\ process = "up"

Next == (\E k \in Keyset : Put(k)) \/ Begin \/ Save \/ GiveUp \/ Stop \/ Start

Spec == Init /\ [][Next]_vars
=============================================================================
