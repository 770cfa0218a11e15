----------------------------- MODULE MCStorage ------------------------------
(* What is written to disk, and what of it is read again: every stream of a  *)
(* few bytes, cut into chunks in every way, that a capture is made of; three *)
(* captures of different sizes over three starts of the gateway; and two     *)
(* writers of a JSON file that may hold an older entry.  They share no       *)
(* state: a behaviour is one of the three.                                   *)
EXTENDS SseDecoder, CaptureStore, AtomicIO, TLC

CONSTANTS a, b, c
CellsDef == a :> 1 @@ b :> 2 @@ c :> 3

Undecoded == sent = <<>>
Unstarted == starts = 0 /\ keyFile = Absent
Unwritten == file = NoInode /\ synced = {Seed} /\ \A w \in Writers : pc[w] = "idle"

mcvars == <<decoderVars, storeVars, vars>>
MCInit == DecoderInit /\ StoreInit /\ Init
MCNext == \/ Unstarted /\ Unwritten /\ DecoderNext /\ UNCHANGED <<storeVars, vars>>
          \/ Undecoded /\ Unwritten /\ StoreNext /\ UNCHANGED <<decoderVars, vars>>
          \/ Undecoded /\ Unstarted /\ Next /\ UNCHANGED <<decoderVars, storeVars>>
UpdateStep(w) == Undecoded /\ Unstarted /\ Step(w) /\ UNCHANGED <<decoderVars, storeVars>>
MCSpec == MCInit /\ [][MCNext]_mcvars /\ \A w \in Writers : WF_mcvars(UpdateStep(w))
=============================================================================
