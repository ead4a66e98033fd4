--------------------------------- MODULE Dream ---------------------------------
(***************************************************************************)
(* The curation pass, scripts/dream.js.  A run reads a state file that     *)
(* says what has been seen and which secrets a person accepted, looks at   *)
(* what is new and at some of what was seen long ago, reports what needs a *)
(* person, and, when told to apply, writes the state file whole.           *)
(*                                                                         *)
(* A run takes minutes.  The Stop hook starts one a day, dry, unless       *)
(* somebody has added --apply to its line; people start others, beside it  *)
(* or not.  A day passes only between runs.                                *)
(*                                                                         *)
(* A time is a number of days ago, and goes no further than the oldest age *)
(* the code tells apart.                                                   *)
(***************************************************************************)
EXTENDS Integers, FiniteSets, Sequences, SequencesExt

CONSTANTS
  Listing,      \* the documents of the work roots, in the order they load
  Layouts,      \* how they are named and filed: [name, file : function on documents]
  Drafts,       \* exchanges, and documents whose description is synthesised
  Staged,       \* exchanges, and documents of a labelled root
  Contents,     \* versions of a document
  First,        \* the versions to begin with
  Secrets,      \* the versions in which redact() finds a credential
  Limit,        \* --limit
  RescoreDays,  \* DREAM_RESCORE_DAYS
  MinNewDocs,   \* DREAM_MIN_NEW_DOCS
  Hook,         \* the daily run: --if-due, dry or with --apply
  People,       \* runs that people start
  MaxEdits,     \* bound: edits and retrievals
  MaxManual,    \* bound: runs people start
  MaxFaults,    \* bound: kills
  None

Docs == Range(Listing)
Files == UNION {{l.file[d] : d \in Docs} : l \in Layouts}
Names == UNION {{l.name[d] : d \in Docs} : l \in Layouts}
Runs == People \cup {Hook}

ASSUME DreamAssumption ==
  /\ IsInjective(Listing)
  /\ \A l \in Layouts : DOMAIN l.name = Docs /\ DOMAIN l.file = Docs
  /\ Drafts \subseteq Docs /\ Staged \subseteq Docs
  /\ Secrets \subseteq Contents /\ First \subseteq Contents
  /\ Limit \in Nat \ {0} /\ RescoreDays \in Nat \ {0} /\ MinNewDocs \in Nat
  /\ MaxEdits \in Nat /\ MaxManual \in Nat /\ MaxFaults \in Nat
  /\ Hook \notin People
  /\ None \notin Docs \X Contents

VARIABLES
  layout,   \* how the documents are named and filed
  applies,  \* the hook's line has --apply
  content,  \* what they say now
  asked,    \* the drafts the query log has returned to somebody
  saved,    \* .dream-state.json; None while it is truncated
  queue,    \* .dream-queue.json: the secrets waiting for a person
  run,      \* what each run holds
  edits,    \* edits and retrievals so far
  manual,   \* runs people started so far
  faults,   \* kills so far
  decided,  \* history: the decisions people made, by name and hash
  kept,     \* history: the last state that was written
  stale,    \* history: runs that hold what the state file no longer says
  closed    \* history: a run has finished today

vars == <<layout, applies, content, asked, saved, queue, run, edits, manual, faults,
          decided, kept, stale, closed>>

-----------------------------------------------------------------------------
(* The state file: due (no run for minHours), the stamp of each file with   *)
(* its age, and the accepted hash of each name.                             *)

Fresh == [due |-> TRUE, curated |-> [f \in Files |-> None], accepted |-> [n \in Names |-> None]]

(* readState: what cannot be parsed is a new state. *)
ReadState == IF saved = None THEN Fresh ELSE saved

Older(stamp) == IF stamp = None THEN None
                ELSE [stamp EXCEPT !.age = IF @ < RescoreDays THEN @ + 1 ELSE @]
DayLater(state) ==
  [state EXCEPT !.due = TRUE, !.curated = [f \in Files |-> Older(state.curated[f])]]

Idle == [pc |-> "idle", apply |-> FALSE, accept |-> {}, docs |-> None, held |-> None,
         scored |-> {}]

-----------------------------------------------------------------------------
(* What a run makes of the documents it loaded. *)

File(d) == layout.file[d]
Name(d) == layout.name[d]
Before(d, e) == \E i, j \in DOMAIN Listing : i < j /\ Listing[i] = d /\ Listing[j] = e
Hash(d, docs) == <<d, docs[d]>>

Seen(d, docs, state) == /\ state.curated[File(d)] # None
                        /\ state.curated[File(d)].hash = Hash(d, docs)
Uncurated(docs, state) == {d \in Docs : ~Seen(d, docs, state)}
RescoreWindow(docs, state) ==
  {d \in Docs : Seen(d, docs, state) /\ state.curated[File(d)].age >= RescoreDays}

(* The documents whose correction the run looks for: new ones first. *)
Pool(docs, state) ==
  SelectSeq(Listing, LAMBDA d : d \in Staged \cap Uncurated(docs, state))
    \o SelectSeq(Listing, LAMBDA d : d \in Staged \cap RescoreWindow(docs, state))

Rescored(docs, state) == LET pool == Pool(docs, state) IN
  {pool[i] : i \in {j \in DOMAIN pool : j <= Limit}}

(* Mutant: an accepted name is accepted for good. *)
SecretReviewOnce(docs, state) ==
  {d \in Uncurated(docs, state) : docs[d] \in Secrets /\ state.accepted[Name(d)] = None}

SecretReview(docs, state) ==
  {d \in Uncurated(docs, state) :
     docs[d] \in Secrets /\ state.accepted[Name(d)] # Hash(d, docs)}

(* A name belongs to the first document that has it. *)
Shadowed(d) == \E e \in Docs : Before(e, d) /\ Name(e) = Name(d)
Owner(n) == CHOOSE d \in Docs : Name(d) = n /\ ~Shadowed(d)

(* The new documents that people retrieve and nobody described, the most    *)
(* retrieved first: which those are is left open.                           *)
Targets(docs, state) ==
  LET wanted == Uncurated(docs, state) \cap asked
  IN {t \in SUBSET wanted : IF Cardinality(wanted) <= Limit THEN t = wanted
                            ELSE Cardinality(t) = Limit}

(* The files with something queued. *)
NeedsHuman(docs, state, targets) ==
  {File(d) : d \in SecretReview(docs, state) \cup {e \in Docs : Shadowed(e)} \cup targets}

(* Mutant: what was rescored keeps its date. *)
RestampedNew(f, docs, state) ==
  LET new == {d \in Uncurated(docs, state) : File(d) = f}
      last == {d \in new : \A e \in new : ~Before(d, e)}
  IN IF last # {} THEN [hash |-> Hash(CHOOSE d \in last : TRUE, docs), age |-> 0]
     ELSE state.curated[f]

(* Every new document is stamped and what was rescored gets a new date,     *)
(* unless its file needs a person.  The last of a file's documents wins.    *)
Restamped(f, docs, state) ==
  LET new == {d \in Uncurated(docs, state) : File(d) = f}
      last == {d \in new : \A e \in new : ~Before(d, e)}
      rolled == {d \in Rescored(docs, state) : File(d) = f /\ Seen(d, docs, state)}
  IN IF last # {} THEN [hash |-> Hash(CHOOSE d \in last : TRUE, docs), age |-> 0]
     ELSE IF rolled # {} THEN [state.curated[f] EXCEPT !.age = 0]
     ELSE state.curated[f]

Applied(docs, state, targets, accept) ==
  [due |-> FALSE,
   curated |-> [f \in Files |-> IF f \in NeedsHuman(docs, state, targets)
                                THEN state.curated[f] ELSE Restamped(f, docs, state)],
   accepted |-> [n \in Names |-> IF n \in accept THEN Hash(Owner(n), docs)
                                 ELSE state.accepted[n]]]

-----------------------------------------------------------------------------
DreamInit ==
  /\ layout \in Layouts
  /\ applies \in BOOLEAN
  /\ content \in [Docs -> First]
  /\ asked = {}
  /\ saved = Fresh
  /\ queue = {}
  /\ run = [r \in Runs |-> Idle]
  /\ edits = 0 /\ manual = 0 /\ faults = 0
  /\ decided = {} /\ kept = Fresh /\ stale = {} /\ closed = FALSE

(* People change a document, or a query returns one nobody described. *)
Edit(d) ==
  /\ edits < MaxEdits
  /\ edits' = edits + 1
  /\ \/ content' \in {[content EXCEPT ![d] = c] : c \in Contents \ {content[d]}} /\ UNCHANGED asked
     \/ d \in Drafts \ asked /\ asked' = asked \cup {d} /\ UNCHANGED content
  /\ UNCHANGED <<layout, applies, saved, queue, run, manual, faults, decided, kept, stale, closed>>

(* Somebody works every day, so that the hook has its run. *)
Day ==
  /\ closed
  /\ \A r \in Runs : run[r].pc = "idle"
  /\ closed' = FALSE
  /\ saved' = IF saved = None THEN None ELSE DayLater(saved)
  /\ kept' = DayLater(kept)
  /\ UNCHANGED <<layout, applies, content, asked, queue, run, edits, manual, faults, decided, stale>>

(* The run reads the state, then the documents, and looks at its gate.      *)
Begin(r, apply, accept, gate) ==
  /\ run[r].pc = "idle"
  /\ gate
  /\ run' = [run EXCEPT ![r] = [Idle EXCEPT !.pc = "work", !.apply = apply, !.accept = accept,
                                            !.docs = content, !.held = ReadState]]
  /\ stale' = IF saved = None THEN stale \cup {r} ELSE stale \ {r}
  /\ UNCHANGED <<layout, applies, content, asked, saved, queue, edits, faults, decided, kept, closed>>

BeginDaily == Begin(Hook, applies, {}, ReadState.due) /\ UNCHANGED manual

BeginByHand(r) ==
  /\ manual < MaxManual
  /\ manual' = manual + 1
  /\ \/ Begin(r, FALSE, {}, ReadState.due)                       \* --if-due
     \/ \E accept \in SUBSET queue, force \in BOOLEAN :           \* --apply
          Begin(r, TRUE, accept,
                \/ force
                \/ ReadState.due /\ Cardinality(Uncurated(content, ReadState)) >= MinNewDocs)

(* After its searches the run writes the queue, and knows what it will save *)
(* if it is to apply.                                                       *)
Report(r) ==
  /\ run[r].pc = "work"
  /\ LET docs == run[r].docs
         state == run[r].held
     IN /\ queue' = {Name(d) : d \in SecretReview(docs, state)}
        /\ \E targets \in Targets(docs, state) :
             run' = [run EXCEPT ![r] =
               IF ~run[r].apply THEN [@ EXCEPT !.pc = "reread"]
               ELSE [@ EXCEPT !.pc = "save", !.docs = None, !.scored = Rescored(docs, state),
                              !.held = Applied(docs, state, targets, run[r].accept)]]
        /\ decided' = decided \cup (IF run[r].apply
                                    THEN {<<n, Hash(Owner(n), docs)>> : n \in run[r].accept} ELSE {})
  /\ UNCHANGED <<layout, applies, content, asked, saved, edits, manual, faults, kept, stale, closed>>

(* Mutant: the state read at the start will do. *)
RereadNot(r) ==
  /\ run[r].pc = "reread"
  /\ run' = [run EXCEPT ![r] = [@ EXCEPT !.pc = "save", !.held = [@ EXCEPT !.due = FALSE]]]
  /\ stale' = IF saved = None THEN stale \cup {r} ELSE stale \ {r}
  /\ UNCHANGED <<layout, applies, content, asked, saved, queue, edits, manual, faults, decided, kept, closed>>

(* A dry daily run reads the state again, to say that it ran. *)
Reread(r) ==
  /\ run[r].pc = "reread"
  /\ run' = [run EXCEPT ![r] = [@ EXCEPT !.pc = "save", !.held = [ReadState EXCEPT !.due = FALSE]]]
  /\ stale' = IF saved = None THEN stale \cup {r} ELSE stale \ {r}
  /\ UNCHANGED <<layout, applies, content, asked, saved, queue, edits, manual, faults, decided, kept, closed>>

(* writeState, first the truncation and then the text. *)
Truncate(r) ==
  /\ run[r].pc = "save"
  /\ saved' = None
  /\ run' = [run EXCEPT ![r] = [@ EXCEPT !.pc = "write"]]
  /\ UNCHANGED <<layout, applies, content, asked, queue, edits, manual, faults, decided, kept, stale, closed>>

(* Mutant: the run is not recorded. *)
WriteStillDue(r) ==
  /\ run[r].pc = "write"
  /\ saved' = [run[r].held EXCEPT !.due = TRUE]
  /\ kept' = saved'
  /\ run' = [run EXCEPT ![r] = Idle]
  /\ stale' = {q \in Runs \ {r} : run[q].pc # "idle"}
  /\ closed' = TRUE
  /\ UNCHANGED <<layout, applies, content, asked, queue, edits, manual, faults, decided>>

Write(r) ==
  /\ run[r].pc = "write"
  /\ saved' = run[r].held
  /\ kept' = saved'
  /\ run' = [run EXCEPT ![r] = Idle]
  /\ stale' = {q \in Runs \ {r} : run[q].pc # "idle"}
  /\ closed' = TRUE
  /\ UNCHANGED <<layout, applies, content, asked, queue, edits, manual, faults, decided>>

Kill(r) ==
  /\ run[r].pc # "idle"
  /\ faults < MaxFaults
  /\ faults' = faults + 1
  /\ run' = [run EXCEPT ![r] = Idle]
  /\ UNCHANGED <<layout, applies, content, asked, saved, queue, edits, manual, decided, kept, stale, closed>>

Proceed(r) == Report(r) \/ Reread(r) \/ Truncate(r) \/ Write(r)

DreamNext == \/ \E d \in Docs : Edit(d)
             \/ Day
             \/ BeginDaily
             \/ \E r \in People : BeginByHand(r)
             \/ \E r \in Runs : Proceed(r) \/ Kill(r)

DreamSpec == DreamInit /\ [][DreamNext]_vars

(* A run that is not killed goes on, days pass, and the hook is called.     *)
FairDreamSpec == /\ DreamSpec
                 /\ WF_vars(Day) /\ WF_vars(BeginDaily)
                 /\ \A r \in Runs : WF_vars(Proceed(r))
-----------------------------------------------------------------------------
(* Properties. *)

(* A document in which there is a credential is not stamped as seen before  *)
(* a person has decided on what it says, whatever runs overlap or are       *)
(* killed: an unanswered finding always comes back (dream.js 209-236, 618). *)
SecretsAreHeld ==
  saved # None =>
    \A d \in Docs : Seen(d, content, saved) /\ content[d] \in Secrets =>
                      <<Name(d), Hash(d, content)>> \in decided

(* A run that saves keeps every decision on record, but those it is told to *)
(* replace, and a dry daily run keeps all that was saved while it searched. *)
(* Exceptions are runs that had read the state before another saved it, or  *)
(* while that was going on, or after a kill had cut it short (87-88, 598).  *)
DecisionsStand ==
  [][\A r \in Runs \ stale :
       run[r].pc = "write" /\ run'[r].pc = "idle" /\ saved' # None =>
         /\ \A n \in Names \ run[r].accept :
              kept.accepted[n] # None => saved'.accepted[n] = kept.accepted[n]
         /\ ~run[r].apply => saved'.curated = kept.curated]_vars

(* The daily run works once a day, however often the hook calls it, unless  *)
(* it finds the state file in the middle of a write (99-105, 597-604).      *)
DueOncePerDay == [][BeginDaily /\ closed => saved = None]_vars

(* A document that waits for a person, shares its file or its name, is not  *)
(* stamped by every run.                                                    *)
Crowd == {d \in Docs : \E e \in Docs :
            /\ File(e) = File(d)
            /\ e # d \/ content[e] \in Secrets \/ Shadowed(e) \/ e \in asked}
Scored(d) == \E r \in Runs : d \in run[r].scored

(* With --apply in the hook's line, and as long as the others can be looked *)
(* at within the window, each is looked at again and again: the window      *)
(* rolls (125-133, 625-631).  A dry daily run gives nothing a new date.     *)
Room == /\ Cardinality(Crowd) < Limit
        /\ Cardinality(Docs \ Crowd) <= (Limit - Cardinality(Crowd)) * RescoreDays
WindowRolls == \A d \in Staged : <>[](applies /\ Room /\ d \notin Crowd) => []<>Scored(d)

=============================================================================
