----------------------------- MODULE BlockStore -----------------------------
(***************************************************************************)
(* What a block device promises its file system: a call changes no blocks  *)
(* but its own; one that writes a block and succeeds has stored its data;  *)
(* one that is cut may leave anything in its blocks; and a read returns    *)
(* what is stored.  Storage implements it.                                 *)
(***************************************************************************)
CONSTANTS
  Anything  \* no promise about what a call stores

VARIABLES
  disk,     \* the content of every block of the device
  change,   \* the blocks the running call may change, and what it is to
            \* leave in them
  answer    \* how the latest call ended; <<"none">> while one runs, after a
            \* reset and when the caller has taken it

Blocks == DOMAIN disk
NoChange == [blocks |-> {}, data |-> Anything]

Init ==
  /\ change = NoChange
  /\ answer = <<"none">>

Begin ==
  /\ change = NoChange
  /\ change'.blocks \subseteq Blocks
  /\ answer' = <<"none">>
  /\ UNCHANGED disk

OthersKept ==
  /\ DOMAIN disk' = Blocks
  /\ \A b \in Blocks \ change.blocks : disk'[b] = disk[b]

Disturb ==
  /\ OthersKept
  /\ \/ UNCHANGED change /\ answer' = <<"none">>
     \/ change' = NoChange /\ answer' \in {<<"none">>, <<"raised">>}

Succeed ==
  /\ OthersKept
  /\ change.data # Anything => \A b \in change.blocks : disk'[b] = change.data
  /\ change' = NoChange
  /\ answer' = <<"done">>

Read ==
  /\ change = NoChange
  /\ \E b \in Blocks : answer' = <<"read", b, disk[b]>>
  /\ UNCHANGED <<disk, change>>

Next == Begin \/ Disturb \/ Succeed \/ Read

Spec == Init /\ [][Next]_<<disk, change, answer>>
=============================================================================
