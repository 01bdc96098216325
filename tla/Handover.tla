------------------------------ MODULE Handover ------------------------------
(***************************************************************************)
(* What the upload of a recording promises: the recording is on the card   *)
(* until the server has a file with all of it, the file never changes      *)
(* after that, and only then may the card forget its own.  Upload shows    *)
(* that the protocol of net_uploader.c, upload_store.c and                 *)
(* device_api_v1.py keeps this promise.                                    *)
(***************************************************************************)
EXTENDS Naturals

VARIABLES
    length,   \* how much is recorded
    here,     \* the card has the recording
    taken,    \* the server has the file
    file      \* what is in it

vars == <<length, here, taken, file>>

Init == length = 0 /\ here = TRUE /\ taken = FALSE /\ file = {}

Record ==
    /\ here /\ ~taken
    /\ length' \in Nat /\ length' >= length
    /\ UNCHANGED <<here, taken, file>>
Take ==
    /\ here /\ ~taken
    /\ taken' = TRUE /\ file' = 0 .. length - 1
    /\ UNCHANGED <<length, here>>
Forget ==
    /\ here /\ taken
    /\ here' = FALSE
    /\ UNCHANGED <<length, taken, file>>

Next == Record \/ Take \/ Forget
Spec == Init /\ [][Next]_vars
=============================================================================
