----------------------------- MODULE CapturePromise -----------------------------
(***************************************************************************)
(* What automatic capture promises, without saying how.  The store follows *)
(* the transcripts, and what a memory says never gets shorter: its file    *)
(* holds the longest text it ever held, or, in the middle of a rewrite or  *)
(* after one that broke off, nothing.  The staging index follows the       *)
(* store.  `disturbed' says that the exclusion of the runs was broken      *)
(* once; from then on it is only promised that neither runs ahead.         *)
(***************************************************************************)
EXTENDS Integers, Sequences

CONSTANTS Transcripts, Exchanges,
          Empty     \* a file whose rewrite is not finished

VARIABLES transcript, store,
          held,     \* what each memory says, its file whole or not
          index, disturbed

(* What the transcript says of an exchange. *)
Said(t, k) == IF k \in DOMAIN transcript[t] THEN transcript[t][k] ELSE 0

PromiseInit == /\ \A t \in Transcripts, k \in Exchanges :
                    store[t][k] = 0 /\ held[t][k] = 0
               /\ index = store
               /\ disturbed = FALSE

(* A conversation only grows. *)
Talk == /\ \E t \in Transcripts :
             /\ Len(transcript'[t]) >= Len(transcript[t])
             /\ \A k \in DOMAIN transcript[t] : transcript'[t][k] >= transcript[t][k]
             /\ \A u \in Transcripts \ {t} : transcript'[u] = transcript[u]
        /\ UNCHANGED <<store, held, index, disturbed>>

Save == /\ \A t \in Transcripts, k \in Exchanges :
             /\ store'[t][k] \in {held'[t][k], Empty}
             /\ held'[t][k] <= Said(t, k)
             /\ disturbed \/ held'[t][k] >= held[t][k]
        /\ UNCHANGED <<transcript, index, disturbed>>

Publish == /\ \A t \in Transcripts, k \in Exchanges : index'[t][k] <= Said(t, k)
           /\ disturbed \/ index' = store
           /\ UNCHANGED <<transcript, store, held, disturbed>>

Disturb == disturbed' = TRUE /\ UNCHANGED <<transcript, store, held, index>>

PromiseNext == Talk \/ Save \/ Publish \/ Disturb

Promise == PromiseInit /\ [][PromiseNext]_<<transcript, store, held, index, disturbed>>
=============================================================================
