------------------------------ MODULE DreamProofs ------------------------------
(***************************************************************************)
(* A document with a credential is not stamped before a person has decided *)
(* on it (SecretsAreHeld), decisions stand (DecisionsStand) and the daily   *)
(* run is daily (DueOncePerDay), for any documents, layouts and runs.      *)
(*                                                                         *)
(* A state of the pass is honest when each stamp on a version with a       *)
(* credential, and each acceptance, goes back to a decision.  Whatever a   *)
(* run reads, computes or saves is honest, torn files and overlapping runs *)
(* included: an old state is honest too, since decisions only accumulate.  *)
(***************************************************************************)
EXTENDS Dream, TLAPS

(* A stamp is nothing, or says which hash was seen. *)
StampShape(stamp) == stamp # None => DOMAIN stamp = {"hash", "age"}

(* Each stamp on a secret, and each acceptance, is a decision of dec. *)
Honest(state, lay, dec) ==
  /\ DOMAIN state = {"due", "curated", "accepted"}
  /\ \A f \in Files : StampShape(state.curated[f])
  /\ \A d \in Docs, c \in Secrets :
       LET stamp == state.curated[lay.file[d]] IN
         stamp # None /\ stamp.hash = <<d, c>> => <<lay.name[d], <<d, c>>>> \in dec
  /\ \A n \in Names, d \in Docs, c \in Secrets :
       state.accepted[n] = <<d, c>> => <<n, <<d, c>>>> \in dec

RunFields == {"pc", "apply", "accept", "docs", "held", "scored"}

HonestInv ==
  /\ layout \in Layouts
  /\ DOMAIN run = Runs
  /\ \A r \in Runs : DOMAIN run[r] = RunFields
  /\ saved # None => Honest(saved, layout, decided)
  /\ \A r \in Runs : run[r].pc # "idle" => Honest(run[r].held, layout, decided)

-----------------------------------------------------------------------------
(* Facts about honest states. *)

LEMMA FilesAndNames ==
  ASSUME NEW lay \in Layouts, NEW d \in Docs
  PROVE  lay.file[d] \in Files /\ lay.name[d] \in Names
BY DEF Files, Names

LEMMA FreshIsHonest ==
  ASSUME NEW lay \in Layouts, NEW dec
  PROVE  Honest(Fresh, lay, dec)
<1>1. \A d \in Docs : lay.file[d] \in Files
  BY FilesAndNames
<1>2. \A d \in Docs, c \in Secrets : <<d, c>> # None
  BY DreamAssumption DEF DreamAssumption
<1> QED
  BY <1>1, <1>2 DEF Honest, Fresh, StampShape

(* More decisions never make a state dishonest. *)
LEMMA HonestyGrows ==
  ASSUME NEW state, NEW lay, NEW dec, NEW more, dec \subseteq more, Honest(state, lay, dec)
  PROVE  Honest(state, lay, more)
BY DEF Honest

LEMMA RecordedRunIsHonest ==
  ASSUME NEW state, NEW lay, NEW dec, NEW due, Honest(state, lay, dec)
  PROVE  Honest([state EXCEPT !.due = due], lay, dec)
<1> DEFINE next == [state EXCEPT !.due = due]
<1>1. /\ DOMAIN next = {"due", "curated", "accepted"}
      /\ next.curated = state.curated
      /\ next.accepted = state.accepted
  BY DEF Honest
<1> QED
  BY <1>1 DEF Honest

(* A day changes ages only. *)
LEMMA DayLaterIsHonest ==
  ASSUME NEW state, NEW lay \in Layouts, NEW dec, Honest(state, lay, dec)
  PROVE  Honest(DayLater(state), lay, dec)
<1> DEFINE next == DayLater(state)
<1>1. /\ DOMAIN next = {"due", "curated", "accepted"}
      /\ next.curated = [f \in Files |-> Older(state.curated[f])]
      /\ next.accepted = state.accepted
  BY DEF Honest, DayLater
<1>2. ASSUME NEW stamp, StampShape(stamp)
      PROVE  /\ StampShape(Older(stamp))
             /\ Older(stamp) # None => stamp # None /\ Older(stamp).hash = stamp.hash
  BY <1>2 DEF StampShape, Older
<1>3. \A f \in Files : StampShape(state.curated[f])
  BY DEF Honest
<1>4. \A f \in Files : StampShape(next.curated[f])
  BY <1>1, <1>2, <1>3
<1>5. ASSUME NEW d \in Docs, NEW c \in Secrets,
             next.curated[lay.file[d]] # None, next.curated[lay.file[d]].hash = <<d, c>>
      PROVE  <<lay.name[d], <<d, c>>>> \in dec
  <2>1. lay.file[d] \in Files
    BY FilesAndNames
  <2>2. /\ state.curated[lay.file[d]] # None
        /\ state.curated[lay.file[d]].hash = <<d, c>>
    BY <1>1, <1>2, <1>3, <1>5, <2>1
  <2> QED
    BY <2>2 DEF Honest
<1>6. \A n \in Names, d \in Docs, c \in Secrets :
        next.accepted[n] = <<d, c>> => <<n, <<d, c>>>> \in dec
  BY <1>1 DEF Honest
<1> HIDE DEF next
<1>7. Honest(next, lay, dec)
  BY <1>1, <1>4, <1>5, <1>6 DEF Honest
<1> QED
  BY <1>7 DEF next

-----------------------------------------------------------------------------
(* What a run stamps. *)

(* A new stamp is on a document without a credential, or on one whose       *)
(* acceptance the run has read.                                             *)
LEMMA NewStampIsHonest ==
  ASSUME NEW docs, NEW state, NEW targets, NEW f \in Files, layout \in Layouts,
         Honest(state, layout, decided), f \notin NeedsHuman(docs, state, targets),
         NEW d \in Docs, NEW c \in Secrets, File(d) = f,
         Restamped(f, docs, state) # None, Restamped(f, docs, state).hash = <<d, c>>
  PROVE  <<Name(d), <<d, c>>>> \in decided
<1> DEFINE new == {e \in Uncurated(docs, state) : File(e) = f}
           last == {e \in new : \A g \in new : ~Before(e, g)}
           rolled == {e \in Rescored(docs, state) : File(e) = f /\ Seen(e, docs, state)}
<1>0. Name(d) \in Names
  BY FilesAndNames DEF Name
<1>1. CASE last # {}
  <2> DEFINE e == CHOOSE x \in last : TRUE
  <2>1. e \in last
    BY <1>1
  <2>2. Restamped(f, docs, state) = [hash |-> Hash(e, docs), age |-> 0]
    BY <1>1 DEF Restamped
  <2>3. e \in Uncurated(docs, state)
    BY <2>1
  <2> HIDE DEF e
  <2>4. <<e, docs[e]>> = <<d, c>>
    BY <2>2 DEF Hash
  <2>5. e = d /\ e \notin SecretReview(docs, state)
    BY <2>4 DEF NeedsHuman
  <2>6. state.accepted[Name(d)] = <<d, c>>
    BY <2>3, <2>4, <2>5 DEF SecretReview, Hash
  <2> QED
    BY <1>0, <2>6 DEF Honest
<1>2. CASE last = {} /\ rolled # {}
  <2>1. PICK e \in rolled : TRUE
    BY <1>2
  <2>2. state.curated[f] # None
    BY <2>1 DEF Seen
  <2>3. Restamped(f, docs, state) = [state.curated[f] EXCEPT !.age = 0]
    BY <1>2 DEF Restamped
  <2>4. DOMAIN state.curated[f] = {"hash", "age"}
    BY <2>2 DEF Honest, StampShape
  <2>5. state.curated[f].hash = <<d, c>>
    BY <2>3, <2>4
  <2> QED
    BY <2>2, <2>5 DEF Honest, File, Name
<1>3. CASE last = {} /\ rolled = {}
  <2>1. Restamped(f, docs, state) = state.curated[f]
    BY <1>3 DEF Restamped
  <2> QED
    BY <2>1 DEF Honest, File, Name
<1> QED
  BY <1>1, <1>2, <1>3

LEMMA RestampedShape ==
  ASSUME NEW docs, NEW state, NEW f \in Files, Honest(state, layout, decided)
  PROVE  StampShape(Restamped(f, docs, state))
<1>1. StampShape(state.curated[f])
  BY DEF Honest
<1>2. ASSUME NEW h PROVE StampShape([hash |-> h, age |-> 0])
  BY DEF StampShape
<1>3. ASSUME state.curated[f] # None
      PROVE  StampShape([state.curated[f] EXCEPT !.age = 0])
  BY <1>1, <1>3 DEF StampShape
<1>4. ASSUME NEW e \in Docs, File(e) = f, Seen(e, docs, state)
      PROVE  state.curated[f] # None
  BY <1>4 DEF Seen
<1>5. ASSUME NEW e \in Rescored(docs, state), File(e) = f, Seen(e, docs, state)
      PROVE  state.curated[f] # None
  BY <1>5 DEF Seen
<1> QED
  BY <1>1, <1>2, <1>3, <1>5 DEF Restamped

LEMMA AppliedIsHonest ==
  ASSUME NEW docs, NEW state, NEW targets, NEW accept, layout \in Layouts,
         Honest(state, layout, decided)
  PROVE  Honest(Applied(docs, state, targets, accept), layout,
                decided \cup {<<n, Hash(Owner(n), docs)>> : n \in accept})
<1> DEFINE next == Applied(docs, state, targets, accept)
           more == decided \cup {<<n, Hash(Owner(n), docs)>> : n \in accept}
<1>1. /\ DOMAIN next = {"due", "curated", "accepted"}
      /\ next.curated = [f \in Files |-> IF f \in NeedsHuman(docs, state, targets)
                                         THEN state.curated[f] ELSE Restamped(f, docs, state)]
      /\ next.accepted = [n \in Names |-> IF n \in accept THEN Hash(Owner(n), docs)
                                          ELSE state.accepted[n]]
  BY DEF Applied
<1>2. ASSUME NEW f \in Files PROVE StampShape(next.curated[f])
  BY <1>1, RestampedShape DEF Honest
<1>3. ASSUME NEW d \in Docs, NEW c \in Secrets,
             next.curated[File(d)] # None, next.curated[File(d)].hash = <<d, c>>
      PROVE  <<Name(d), <<d, c>>>> \in more
  <2>1. File(d) \in Files
    BY FilesAndNames DEF File
  <2>2. CASE File(d) \in NeedsHuman(docs, state, targets)
    BY <1>1, <1>3, <2>1, <2>2 DEF Honest, File, Name
  <2>3. CASE File(d) \notin NeedsHuman(docs, state, targets)
    <3>1. next.curated[File(d)] = Restamped(File(d), docs, state)
      BY <1>1, <2>1, <2>3
    <3> QED
      BY <1>3, <2>1, <2>3, <3>1, NewStampIsHonest
  <2> QED
    BY <2>2, <2>3
<1>4. ASSUME NEW n \in Names, NEW d \in Docs, NEW c \in Secrets, next.accepted[n] = <<d, c>>
      PROVE  <<n, <<d, c>>>> \in more
  <2>1. CASE n \in accept
    BY <1>1, <1>4, <2>1
  <2>2. CASE n \notin accept
    BY <1>1, <1>4, <2>2 DEF Honest
  <2> QED
    BY <2>1, <2>2
<1> HIDE DEF next, more
<1>5. Honest(next, layout, more)
  BY <1>1, <1>2, <1>3, <1>4 DEF Honest, File, Name
<1> QED
  BY <1>5 DEF next, more

-----------------------------------------------------------------------------
(* The invariant. *)

LEMMA ReadIsHonest ==
  ASSUME HonestInv
  PROVE  Honest(ReadState, layout, decided)
BY FreshIsHonest DEF HonestInv, ReadState

(* A step that changes one run, and at most adds decisions. *)
LEMMA RunFrame ==
  ASSUME HonestInv, NEW r \in Runs, NEW next, DOMAIN next = RunFields,
         run' = [run EXCEPT ![r] = next],
         layout' = layout, decided \subseteq decided',
         saved' = saved \/ saved' = None \/ Honest(saved', layout, decided'),
         next.pc # "idle" => Honest(next.held, layout, decided')
  PROVE  HonestInv'
<1>1. DOMAIN run' = Runs /\ run'[r] = next /\ \A q \in Runs \ {r} : run'[q] = run[q]
  BY DEF HonestInv
<1>2. \A q \in Runs : DOMAIN run'[q] = RunFields
  BY <1>1 DEF HonestInv
<1>3. ASSUME NEW q \in Runs, run'[q].pc # "idle"
      PROVE  Honest(run'[q].held, layout, decided')
  <2>1. CASE q = r
    BY <1>1, <1>3, <2>1
  <2>2. CASE q # r
    <3>1. Honest(run[q].held, layout, decided)
      BY <1>1, <1>3, <2>2 DEF HonestInv
    <3> QED
      BY <1>1, <2>2, <3>1, HonestyGrows
  <2> QED
    BY <2>1, <2>2
<1>4. saved' # None => Honest(saved', layout, decided')
  <2>1. CASE saved' = saved /\ saved # None
    <3>1. Honest(saved, layout, decided)
      BY <2>1 DEF HonestInv
    <3> QED
      BY <2>1, <3>1, HonestyGrows
  <2> QED
    BY <2>1
<1> QED
  BY <1>1, <1>2, <1>3, <1>4 DEF HonestInv

LEMMA BeginKeepsInv ==
  ASSUME HonestInv, NEW r \in Runs, NEW apply, NEW accept, NEW gate,
         Begin(r, apply, accept, gate)
  PROVE  HonestInv'
<1> DEFINE next == [Idle EXCEPT !.pc = "work", !.apply = apply, !.accept = accept,
                                !.docs = content, !.held = ReadState]
<1>1. /\ DOMAIN next = RunFields /\ next.held = ReadState
  BY DEF Idle, RunFields
<1>2. run' = [run EXCEPT ![r] = next]
  BY DEF Begin
<1>3. layout' = layout /\ decided' = decided /\ saved' = saved
  BY DEF Begin
<1> HIDE DEF next
<1> QED
  BY <1>1, <1>2, <1>3, ReadIsHonest, RunFrame

LEMMA ReportKeepsInv ==
  ASSUME HonestInv, NEW r \in Runs, Report(r)
  PROVE  HonestInv'
<1> DEFINE was == run[r]
           docs == was.docs
           state == was.held
           more == IF was.apply
                   THEN {<<n, Hash(Owner(n), docs)>> : n \in was.accept} ELSE {}
<1>1. /\ was.pc = "work" /\ decided' = decided \cup more
      /\ layout' = layout /\ saved' = saved
  BY DEF Report
<1>2. DOMAIN was = RunFields /\ Honest(state, layout, decided) /\ layout \in Layouts
  BY <1>1 DEF HonestInv
<1>3. PICK targets \in Targets(docs, state) :
        run' = [run EXCEPT ![r] =
          IF ~was.apply THEN [run[r] EXCEPT !.pc = "reread"]
          ELSE [run[r] EXCEPT !.pc = "save", !.docs = None, !.scored = Rescored(docs, state),
                         !.held = Applied(docs, state, targets, was.accept)]]
  BY DEF Report, HonestInv
<1>4. CASE ~was.apply
  <2> DEFINE next == [was EXCEPT !.pc = "reread"]
  <2>1. DOMAIN next = RunFields /\ next.held = state
    BY <1>2 DEF RunFields
  <2>2. run' = [run EXCEPT ![r] = next] /\ decided' = decided
    BY <1>1, <1>3, <1>4
  <2> HIDE DEF next
  <2> QED
    BY <1>1, <1>2, <2>1, <2>2, RunFrame
<1>5. CASE was.apply
  <2> DEFINE held == Applied(docs, state, targets, was.accept)
             next == [was EXCEPT !.pc = "save", !.docs = None,
                                 !.scored = Rescored(docs, state), !.held = held]
  <2>1. Honest(held, layout, decided')
    BY <1>1, <1>2, <1>5, AppliedIsHonest
  <2> HIDE DEF held
  <2>2. DOMAIN next = RunFields /\ next.held = held
    BY <1>2 DEF RunFields
  <2>3. run' = [run EXCEPT ![r] = next]
    BY <1>3, <1>5 DEF held
  <2> HIDE DEF next
  <2> QED
    BY <1>1, <2>1, <2>2, <2>3, RunFrame
<1> QED
  BY <1>4, <1>5

LEMMA RereadKeepsInv ==
  ASSUME HonestInv, NEW r \in Runs, Reread(r)
  PROVE  HonestInv'
<1> DEFINE held == [ReadState EXCEPT !.due = FALSE]
           next == [run[r] EXCEPT !.pc = "save", !.held = held]
<1>1. Honest(held, layout, decided)
  BY ReadIsHonest, RecordedRunIsHonest
<1> HIDE DEF held
<1>2. DOMAIN next = RunFields /\ next.held = held
  BY DEF RunFields, HonestInv
<1>3. run' = [run EXCEPT ![r] = next]
  BY DEF Reread, held
<1>4. layout' = layout /\ decided' = decided /\ saved' = saved
  BY DEF Reread
<1> HIDE DEF next
<1> QED
  BY <1>1, <1>2, <1>3, <1>4, RunFrame

LEMMA TruncateKeepsInv ==
  ASSUME HonestInv, NEW r \in Runs, Truncate(r)
  PROVE  HonestInv'
<1> DEFINE next == [run[r] EXCEPT !.pc = "write"]
<1>1. DOMAIN next = RunFields /\ next.held = run[r].held
  BY DEF RunFields, HonestInv
<1>2. Honest(run[r].held, layout, decided)
  BY DEF Truncate, HonestInv
<1>3. run' = [run EXCEPT ![r] = next]
  BY DEF Truncate
<1>4. layout' = layout /\ decided' = decided /\ saved' = None
  BY DEF Truncate
<1> HIDE DEF next
<1> QED
  BY <1>1, <1>2, <1>3, <1>4, RunFrame

LEMMA EndKeepsInv ==
  ASSUME HonestInv, NEW r \in Runs, Write(r) \/ Kill(r)
  PROVE  HonestInv'
<1>1. DOMAIN Idle = RunFields /\ Idle.pc = "idle"
  BY DEF Idle, RunFields
<1>2. run' = [run EXCEPT ![r] = Idle] /\ layout' = layout /\ decided' = decided
  BY DEF Write, Kill
<1>3. saved' = saved \/ Honest(saved', layout, decided')
  BY <1>2 DEF Write, Kill, HonestInv
<1> QED
  BY <1>1, <1>2, <1>3, RunFrame

LEMMA HonestStep ==
  ASSUME HonestInv, [DreamNext]_vars
  PROVE  HonestInv'
<1>1. CASE UNCHANGED vars
  BY <1>1 DEF vars, HonestInv
<1>2. ASSUME NEW d \in Docs, Edit(d) PROVE HonestInv'
  BY <1>2 DEF Edit, HonestInv
<1>3. CASE Day
  <2>1. /\ layout' = layout /\ decided' = decided /\ run' = run
        /\ saved' = IF saved = None THEN None ELSE DayLater(saved)
    BY <1>3 DEF Day
  <2>2. saved' # None => Honest(saved', layout, decided)
    BY <2>1, DayLaterIsHonest DEF HonestInv
  <2> QED
    BY <2>1, <2>2 DEF HonestInv
<1>4. CASE BeginDaily
  BY <1>4, BeginKeepsInv DEF BeginDaily, Runs
<1>5. ASSUME NEW r \in People, BeginByHand(r) PROVE HonestInv'
  <2>1. PICK apply, accept, gate : Begin(r, apply, accept, gate)
    BY <1>5 DEF BeginByHand
  <2> QED
    BY <2>1, BeginKeepsInv DEF Runs
<1>6. ASSUME NEW r \in Runs, Proceed(r) \/ Kill(r) PROVE HonestInv'
  BY <1>6, ReportKeepsInv, RereadKeepsInv, TruncateKeepsInv, EndKeepsInv DEF Proceed
<1> QED
  BY <1>1, <1>2, <1>3, <1>4, <1>5, <1>6 DEF DreamNext

(* The inductive invariant: what is saved and what runs hold is honest      *)
(* (dream.js 209-236, 612-642).                                             *)
THEOREM DreamIsHonest == DreamSpec => []HonestInv
<1>1. DreamInit => HonestInv
  <2> SUFFICES ASSUME DreamInit PROVE HonestInv
    OBVIOUS
  <2>1. saved = Fresh /\ layout \in Layouts /\ run = [r \in Runs |-> Idle]
    BY DEF DreamInit
  <2>2. DOMAIN Idle = RunFields /\ Idle.pc = "idle"
    BY DEF Idle, RunFields
  <2> QED
    BY <2>1, <2>2, FreshIsHonest DEF HonestInv
<1> QED
  BY <1>1, HonestStep, PTL DEF DreamSpec

(* A document in which there is a credential is not stamped as seen before  *)
(* a person has decided on what it says (dream.js 209-236, 618-624).        *)
THEOREM SecretsStayHeld == DreamSpec => []SecretsAreHeld
<1>1. HonestInv => SecretsAreHeld
  BY DEF HonestInv, Honest, SecretsAreHeld, Seen, Hash, File, Name
<1> QED
  BY <1>1, DreamIsHonest, PTL

-----------------------------------------------------------------------------
(* Whoever has the state file to himself keeps what it says: a run that is  *)
(* not stale holds what was written last, and the file is torn while it     *)
(* writes.                                                                  *)

Holds(r) ==
  /\ run[r].pc \in {"work", "reread"} => run[r].held = kept
  /\ run[r].pc \in {"save", "write"} =>
       /\ \A n \in Names \ run[r].accept : run[r].held.accepted[n] = kept.accepted[n]
       /\ ~run[r].apply => run[r].held.curated = kept.curated
  /\ run[r].pc = "write" => saved = None

KeptInv == /\ saved # None => saved = kept
           /\ \A r \in Runs \ stale : Holds(r)

(* What is about to be saved, and what was saved today, is not due. *)
DueInv == /\ closed /\ saved # None => ~saved.due
          /\ \A r \in Runs : run[r].pc \in {"save", "write"} => ~run[r].held.due

(* The other runs' variables when one run moves. *)
LEMMA OthersKeepRun ==
  ASSUME HonestInv, NEW r \in Runs, NEW next, run' = [run EXCEPT ![r] = next]
  PROVE  run'[r] = next /\ \A q \in Runs \ {r} : run'[q] = run[q]
BY DEF HonestInv

LEMMA BeginKeeps ==
  ASSUME HonestInv, KeptInv, DueInv, NEW r \in Runs, NEW apply, NEW accept, NEW gate,
         Begin(r, apply, accept, gate)
  PROVE  KeptInv' /\ DueInv'
<1> DEFINE next == [Idle EXCEPT !.pc = "work", !.apply = apply, !.accept = accept,
                                !.docs = content, !.held = ReadState]
<1>1. next.pc = "work" /\ next.held = ReadState
  BY DEF Idle
<1>2. run' = [run EXCEPT ![r] = next] /\ UNCHANGED <<saved, kept, closed>>
  BY DEF Begin
<1>3. /\ \A q \in Runs \ {r} : q \in stale' <=> q \in stale
      /\ r \notin stale' => saved # None
  BY DEF Begin
<1> HIDE DEF next
<1>4. run'[r] = next /\ \A q \in Runs \ {r} : run'[q] = run[q]
  BY <1>2, OthersKeepRun
<1>5. r \notin stale' => next.held = kept
  BY <1>1, <1>3 DEF ReadState, KeptInv
<1>6. KeptInv'
  BY <1>1, <1>2, <1>3, <1>4, <1>5 DEF KeptInv, Holds
<1>7. DueInv'
  BY <1>1, <1>2, <1>4 DEF DueInv
<1> QED
  BY <1>6, <1>7

LEMMA ReportKeeps ==
  ASSUME HonestInv, KeptInv, DueInv, NEW r \in Runs, Report(r)
  PROVE  KeptInv' /\ DueInv'
<1> DEFINE was == run[r]
           docs == was.docs
           state == was.held
<1>1. /\ was.pc = "work" /\ UNCHANGED <<saved, kept, closed, stale>>
  BY DEF Report
<1>2. DOMAIN was = RunFields
  BY DEF HonestInv
<1>3. PICK targets \in Targets(docs, state) :
        run' = [run EXCEPT ![r] =
          IF ~was.apply THEN [run[r] EXCEPT !.pc = "reread"]
          ELSE [run[r] EXCEPT !.pc = "save", !.docs = None, !.scored = Rescored(docs, state),
                         !.held = Applied(docs, state, targets, was.accept)]]
  BY DEF Report, HonestInv
<1>4. CASE ~was.apply
  <2> DEFINE next == [was EXCEPT !.pc = "reread"]
  <2>1. next.pc = "reread" /\ next.held = state
    BY <1>2 DEF RunFields
  <2>2. run' = [run EXCEPT ![r] = next]
    BY <1>3, <1>4
  <2> HIDE DEF next
  <2>3. run'[r] = next /\ \A q \in Runs \ {r} : run'[q] = run[q]
    BY <2>2, OthersKeepRun
  <2>4. KeptInv'
    BY <1>1, <2>1, <2>3 DEF KeptInv, Holds
  <2>5. DueInv'
    BY <1>1, <2>1, <2>3 DEF DueInv
  <2> QED
    BY <2>4, <2>5
<1>5. CASE was.apply
  <2> DEFINE held == Applied(docs, state, targets, was.accept)
             next == [was EXCEPT !.pc = "save", !.docs = None,
                                 !.scored = Rescored(docs, state), !.held = held]
  <2>1. /\ ~held.due
        /\ \A n \in Names \ was.accept : held.accepted[n] = state.accepted[n]
    BY DEF Applied
  <2> HIDE DEF held
  <2>2. next.pc = "save" /\ next.held = held /\ next.apply = was.apply /\ next.accept = was.accept
    BY <1>2 DEF RunFields
  <2>3. run' = [run EXCEPT ![r] = next]
    BY <1>3, <1>5 DEF held
  <2> HIDE DEF next
  <2>4. run'[r] = next /\ \A q \in Runs \ {r} : run'[q] = run[q]
    BY <2>3, OthersKeepRun
  <2>5. r \notin stale => state = kept
    BY <1>1 DEF KeptInv, Holds
  <2>6. ASSUME NEW q \in Runs \ stale'
        PROVE  Holds(q)'
    <3>1. CASE q = r
      BY <1>1, <1>5, <2>1, <2>2, <2>4, <2>5, <3>1 DEF Holds
    <3>2. CASE q # r
      BY <1>1, <2>4, <3>2 DEF KeptInv, Holds
    <3> QED
      BY <3>1, <3>2
  <2>7. KeptInv'
    BY <1>1, <2>6 DEF KeptInv
  <2>8. DueInv'
    BY <1>1, <2>1, <2>2, <2>4 DEF DueInv
  <2> QED
    BY <2>7, <2>8
<1> QED
  BY <1>4, <1>5

LEMMA RereadKeeps ==
  ASSUME HonestInv, KeptInv, DueInv, NEW r \in Runs, Reread(r)
  PROVE  KeptInv' /\ DueInv'
<1> DEFINE held == [ReadState EXCEPT !.due = FALSE]
           next == [run[r] EXCEPT !.pc = "save", !.held = held]
<1>1. DOMAIN ReadState = {"due", "curated", "accepted"}
  BY ReadIsHonest DEF Honest
<1>2. ~held.due /\ held.curated = ReadState.curated /\ held.accepted = ReadState.accepted
  BY <1>1
<1> HIDE DEF held
<1>3. next.pc = "save" /\ next.held = held
  BY DEF RunFields, HonestInv
<1>4. run' = [run EXCEPT ![r] = next] /\ UNCHANGED <<saved, kept, closed>>
  BY DEF Reread, held
<1>5. /\ \A q \in Runs \ {r} : q \in stale' <=> q \in stale
      /\ r \notin stale' => saved # None
  BY DEF Reread
<1> HIDE DEF next
<1>6. run'[r] = next /\ \A q \in Runs \ {r} : run'[q] = run[q]
  BY <1>4, OthersKeepRun
<1>7. r \notin stale' => ReadState = kept
  BY <1>5 DEF ReadState, KeptInv
<1>8. KeptInv'
  BY <1>2, <1>3, <1>4, <1>5, <1>6, <1>7 DEF KeptInv, Holds
<1>9. DueInv'
  BY <1>2, <1>3, <1>4, <1>6 DEF DueInv
<1> QED
  BY <1>8, <1>9

LEMMA TruncateKeeps ==
  ASSUME HonestInv, KeptInv, DueInv, NEW r \in Runs, Truncate(r)
  PROVE  KeptInv' /\ DueInv'
<1> DEFINE next == [run[r] EXCEPT !.pc = "write"]
<1>1. /\ next.pc = "write" /\ next.held = run[r].held /\ next.apply = run[r].apply
      /\ next.accept = run[r].accept
  BY DEF RunFields, HonestInv
<1>2. run' = [run EXCEPT ![r] = next] /\ UNCHANGED <<kept, closed, stale>> /\ saved' = None
      /\ run[r].pc = "save"
  BY DEF Truncate
<1> HIDE DEF next
<1>3. run'[r] = next /\ \A q \in Runs \ {r} : run'[q] = run[q]
  BY <1>2, OthersKeepRun
<1>4. KeptInv'
  BY <1>1, <1>2, <1>3 DEF KeptInv, Holds
<1>5. DueInv'
  BY <1>1, <1>2, <1>3 DEF DueInv
<1> QED
  BY <1>4, <1>5

LEMMA EndKeeps ==
  ASSUME HonestInv, KeptInv, DueInv, NEW r \in Runs, Write(r) \/ Kill(r)
  PROVE  KeptInv' /\ DueInv'
<1>1. run' = [run EXCEPT ![r] = Idle] /\ Idle.pc = "idle"
  BY DEF Write, Kill, Idle
<1>2. run'[r].pc = "idle" /\ \A q \in Runs \ {r} : run'[q] = run[q]
  BY <1>1, OthersKeepRun
<1>3. CASE Write(r)
  <2>1. /\ run[r].pc = "write" /\ saved' = run[r].held /\ kept' = saved'
        /\ stale' = {q \in Runs \ {r} : run[q].pc # "idle"}
    BY <1>3 DEF Write
  <2>2. KeptInv'
    BY <1>2, <2>1 DEF KeptInv, Holds
  <2>3. DueInv'
    BY <1>2, <2>1 DEF DueInv
  <2> QED
    BY <2>2, <2>3
<1>4. CASE Kill(r)
  <2>1. UNCHANGED <<saved, kept, stale, closed>>
    BY <1>4 DEF Kill
  <2>2. KeptInv'
    BY <1>2, <2>1 DEF KeptInv, Holds
  <2>3. DueInv'
    BY <1>2, <2>1 DEF DueInv
  <2> QED
    BY <2>2, <2>3
<1> QED
  BY <1>3, <1>4

LEMMA KeptStep ==
  ASSUME HonestInv, KeptInv, DueInv, [DreamNext]_vars
  PROVE  KeptInv' /\ DueInv'
<1>1. CASE UNCHANGED vars
  BY <1>1 DEF vars, KeptInv, Holds, DueInv
<1>2. ASSUME NEW d \in Docs, Edit(d) PROVE KeptInv' /\ DueInv'
  BY <1>2 DEF Edit, KeptInv, Holds, DueInv
<1>3. CASE Day
  <2>1. /\ \A r \in Runs : run'[r].pc = "idle"
        /\ ~closed'
        /\ saved' = IF saved = None THEN None ELSE DayLater(saved)
        /\ kept' = DayLater(kept)
    BY <1>3 DEF Day
  <2>2. saved' # None => saved' = kept'
    BY <2>1 DEF KeptInv
  <2> QED
    BY <2>1, <2>2 DEF KeptInv, Holds, DueInv
<1>4. CASE BeginDaily
  BY <1>4, BeginKeeps DEF BeginDaily, Runs
<1>5. ASSUME NEW r \in People, BeginByHand(r) PROVE KeptInv' /\ DueInv'
  <2>1. PICK apply, accept, gate : Begin(r, apply, accept, gate)
    BY <1>5 DEF BeginByHand
  <2> QED
    BY <2>1, BeginKeeps DEF Runs
<1>6. ASSUME NEW r \in Runs, Proceed(r) \/ Kill(r) PROVE KeptInv' /\ DueInv'
  BY <1>6, ReportKeeps, RereadKeeps, TruncateKeeps, EndKeeps DEF Proceed
<1> QED
  BY <1>1, <1>2, <1>3, <1>4, <1>5, <1>6 DEF DreamNext

LEMMA DreamKeeps == DreamSpec => [](KeptInv /\ DueInv)
<1>1. DreamInit => KeptInv /\ DueInv
  BY DEF DreamInit, KeptInv, Holds, DueInv, Idle
<1>2. ASSUME HonestInv, KeptInv /\ DueInv, [DreamNext]_vars
      PROVE  (KeptInv /\ DueInv)'
  BY <1>2, KeptStep
<1> QED
  BY <1>1, <1>2, DreamIsHonest, PTL DEF DreamSpec

(* A run that saves keeps every decision on record, but those it is told to *)
(* replace, and a dry daily run keeps all that was saved while it searched, *)
(* unless it had read the state before another saved it, while that was     *)
(* going on, or after a kill had cut it short (dream.js 87-88, 598).        *)
THEOREM DecisionsAlwaysStand == DreamSpec => DecisionsStand
<1> DEFINE Stand == \A r \in Runs \ stale :
             run[r].pc = "write" /\ run'[r].pc = "idle" /\ saved' # None =>
               /\ \A n \in Names \ run[r].accept :
                    kept.accepted[n] # None => saved'.accepted[n] = kept.accepted[n]
               /\ ~run[r].apply => saved'.curated = kept.curated
<1>1. ASSUME HonestInv, KeptInv, [DreamNext]_vars
      PROVE  [Stand]_vars
  <2> SUFFICES ASSUME NEW r \in Runs \ stale, DreamNext,
                      run[r].pc = "write", run'[r].pc = "idle", saved' # None
               PROVE  /\ \A n \in Names \ run[r].accept :
                           kept.accepted[n] # None => saved'.accepted[n] = kept.accepted[n]
                      /\ ~run[r].apply => saved'.curated = kept.curated
    BY <1>1
  <2>1. Holds(r) /\ saved = None
    BY <1>1 DEF KeptInv, Holds
  <2>2. CASE Write(r)
    BY <2>1, <2>2 DEF Write, Holds
  <2>3. ASSUME NEW q \in Runs, Write(q), q # r
        PROVE  FALSE
    BY <1>1, <2>3, OthersKeepRun DEF Write
  <2>4. CASE saved' = saved
    BY <2>1, <2>4
  <2>5. CASE Day
    BY <2>5 DEF Day
  <2> QED
    BY <2>2, <2>3, <2>4, <2>5 DEF DreamNext, Edit, BeginDaily, BeginByHand, Begin, Proceed,
       Report, Reread, Truncate, Kill
<1>2. DreamSpec => [][DreamNext]_vars
  BY PTL DEF DreamSpec
<1> QED
  BY <1>1, <1>2, DreamIsHonest, DreamKeeps, PTL DEF DecisionsStand

(* The daily run works once a day, however often the hook calls it, unless  *)
(* it finds the state file in the middle of a write (99-105, 597-604).      *)
THEOREM DailyRunIsDaily == DreamSpec => DueOncePerDay
<1>1. ASSUME DueInv, BeginDaily, closed
      PROVE  saved = None
  BY <1>1 DEF DueInv, BeginDaily, Begin, ReadState
<1>2. DueInv => [BeginDaily /\ closed => saved = None]_vars
  BY <1>1
<1> QED
  BY <1>2, DreamKeeps, PTL DEF DueOncePerDay
=============================================================================
