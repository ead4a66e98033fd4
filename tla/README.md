# recall-mcp in TLA+

recall-mcp gives an assistant a memory: markdown files that people and programs
write, indexes built from them, a server that answers queries from the indexes,
and background runs that turn finished conversations into more files. This
directory models the parts of it that are hard to test - several processes over
the same files without a database - and says what model checking and proofs show
of them. Paths without a directory are relative to the repository's root.

1. The system
2. The modules, and how they correspond to the code
3. The runs, their bounds and their fairness
4. The proofs
5. Where the code and its documents disagree
6. What is not modelled, and the plan

## 1. The system

The server (`index.js`, `tools/memory.js`) is one Node process per client. Beside
it run short-lived processes: the Stop hooks of every session
(`scripts/auto-ingest.js`, `scripts/commit-memories.js`), a timer
(`scripts/timed-capture.mjs`), a hook on every edit
(`scripts/stamp-memory-account.js`) and scripts a person starts. They share files
and nothing else.

| component | state | operations | interacts through |
|---|---|---|---|
| capture lock (`auto-ingest.js` 288-321, 385) | `.auto-ingest.lock`: the pid of its creator | create exclusively, probe, clear, retry, release | one file, the process table |
| automatic capture (`auto-ingest.js`, `ingest-transcript.js`, `timed-capture.mjs`) | the store (a file per exchange), `.last-ingest.json`, the staging index | gates, measure, extract, write, prune, build, stamp | transcripts (external), the store, the index store |
| index store (`lib/index-store.js`) | one file per corpus, replaced by rename | build (with refusals), reuse what is unchanged, load, header checks | read by every server, written by every builder |
| vector cache (`lib/vector-cache.js`, `seed-vector-cache.js`) | one file of vectors, with the contract that made them | load, flush during builds, seed | every build of the machine |
| freshness (`lib/freshness.js`, `ensureFresh` in `lib/search.js`) | `CACHES`, `STAT_CACHE`, `INFLIGHT`, `LAST_FAILURE`, all per process | adopt, check, repair, admit | the index store, the corpora |
| index jobs (`tools/memory.js` 795-877) | `INDEX_JOBS`, `INDEX_INFLIGHT` | start, skip, build, done, failed, poll | the index store, the caches |
| guarded writes (`lib/safe-write.js`, `setTier`, `setModified`, the account stamp) | memories, `.memory-snapshots` | rewrite frontmatter, write a new file, snapshot, prune, rename | the memory folder, with people |
| import (`doImport`, `scripts/import-memories.js`) | library categories, `archive/` | skip, archive, replace, write | guarded writes (the script: none) |
| history (`scripts/commit-memories.js`) | a git repository in the memory folder | status, stamp, add, reset, commit | guarded writes, git |
| dream (`scripts/dream.js`) | `.dream-state.json`, `.dream-queue.json` | gate, select what is new and what is due again, queue for a person, stamp | its state file, shared by the daily run and people's |
| search (`lib/search.js`, `bm25.js`, `lexical.js`, `graph-spread.js`, `absence-floors.js`) | none beyond the caches; a query log | score, spread, cap, judge absence | freshness |
| latest (`lib/search.js` 1582-2338) | `STAT_CACHE` | match, order by time, say what has not been read | freshness, git join |
| threads (`lib/search.js` 91-113, 2341-2448) | the thread map of an index | order a conversation, show a stretch of it | latest, git join |
| git join (`lib/git-join.js`) | `CACHE`, `IDENT_CACHE`, for the life of the server | look up commits and names in every repository, list what landed | one git process per repository and question |
| sections and reading (`lib/section-docs.js`, `get` in `tools/memory.js`) | none | split, name and tier sections; outline, section, slice | corpus, search |
| chunking and embedding (`lib/embed.js`, `vec.js`) | the model handle | chunk, unchunk, embed | the index store |
| corpus (`lib/corpus.js`, `key-facts.js`) | a cache by signature | list, load, resolve | everything that reads files |
| configuration and scopes (`lib/config.js`, `local-config.js`, `search.js` 740-960, 1748-1955) | environment, a config file | roots, corpora, validate, route, expand, combine | everything |
| heartbeat and file memo (`lib/heartbeat.js`, `file-memo.js`) | a heartbeat file; memos by mtime and size | beat, recently on, get | the capture gates |
| secrets, probes | caches | redact, guard, run a probe | the index store, search |

What is hard here: runs of several processes interleave between any two system
calls; any of them can be killed, by the walker's ten-minute timeout, by the host
or by a full disk; a file is read, held and written back later; a server keeps an
index in memory for days while others replace the file; a query waits for a
rebuild that somebody else began; git keeps an index of its own between two
commands. What makes each part correct:

* **lock**: no run that ends leaks it; a dead holder never blocks; only a takeover
  lets a second run in.
* **capture**: a stamp never claims more than was captured; what a memory says never
  gets shorter, though a rewrite that breaks off leaves its file empty; the index
  follows the store; the pruner deletes copies only, as long as no two runs overlap; a
  reply is captured once it is finished.
* **index server**: an answer that does not say it is stale rests on the corpus as it
  was since the query came, on what the rebuild it waited for had read, or on what
  another process has renamed over that; one rebuild at a time; every query is answered;
  a finished job is what the server serves.
* **index build**: an incremental build publishes what a build from scratch would;
  a vector is of the text beside it and made by the recipe in the header; the
  cache never mixes recipes and forgets only what a run did not know of.
* **memory folder**: a metadata edit never changes a body; what a program replaces
  can be had back; under the read-only switch nothing changes.
* **history**: a memory that disappears stays in HEAD until somebody says
  otherwise; a change is committed with the date of its commit, if the file can be
  stamped. Both have exceptions in the code, of which a name that git quotes is one.
* **dream**: a finding comes back until a person answers it; an answer stands; the
  daily run works once a day; what was seen long ago is looked at again in turn, if
  the daily run is one that applies.
* **latest**: what is called the last word is the last of what could be known, and
  nothing is called absent that an unread file may hold, without saying so.
* **git evidence**: a name is absent only when every repository has said so; a
  commit is named with a repository that has it, the first that does.
* **search**: a passage is found wherever it stands; a document that is split counts
  once, and no weight changes but of words that stubs add and of lines in no section;
  a page is the best there is; links never turn an absence into a find.
* **threads, sections, scopes**: a conversation is read in its order and no exchange is
  skipped; what search names, get opens; answers of several corpora agree with their
  parts.

## 2. The modules, and how they correspond to the code

Every component has a module with its state as variables and an action per
operation, an `MC` module with what TLC needs, a `.cfg` per run, and, where
something is proved, a `Proofs` module. `PROJECT.json` gives for every definition
the lines it stands for. An operator commented "Mutant" is the plausible bug that
a property has been seen to catch when it takes the place of the definition
behind it; no specification uses it.

**IngestLock**. A run is its pid. `pc` is the run's place in `auto-ingest.js`,
one step per system call on the lock file. `lock` is the creator of the file that
is at the path now and `written` the runs whose pid has reached the file they
created: `writeFileSync` with `wx` creates first and writes later, and a reader in
between parses NaN, which `processAlive` takes for dead. Clearing removes whatever
file is there by then. `Crash` is possible anywhere, `ReusePid` hands a dead run's
pid to an unrelated process. `takers` is history.

**Capture** extends IngestLock: its actions conjoin the lock's with what the run
does to the data. A transcript is a sequence of exchanges, an exchange the length
of its reply so far, and its size the sequence itself, since a transcript only
grows. `store` and `index` say which text of each exchange they hold. `stage` is
the run's place inside the lock and outlives the run while its extractor does
(`Kill`): `execFileSync`'s child is a process of its own. `Emitted` is the list of
exchanges after `--defer-last` and `--since-minutes`. A memory is rewritten in place:
`EmptyFile` and `FillFile` are the two halves of `writeFileSync`, a file between them,
or left there by a kill or a full disk, is `Empty`, and `held` is history: what each
file said when it last was whole. The pruner is `HashEmitted`, `ListOrphans` and a
`Sweep` for each orphan; an orphan that has been deleted since the listing ends the run
(`SweepFails`). `Old` are names a withdrawn rule gave to copies of the first exchange,
which a session may begin with. `Decide` is the no-op test, `Load`/`Publish` the index
build around its awaits, `TruncateStamps`/`WriteStamps` again two halves.

**CapturePromise** is the abstract specification: transcripts grow; what the memories
say (`held`) grows within the transcripts; a file of the store says that or is empty;
publishing makes the index the store; and from the moment exclusion is broken only the
bounds remain. Capture ends with an instance of
it, `Promised`, with `disturbed <- overlap`. That Capture implements it
(`KeepsPromise`) and IngestLock (`UsesLock`) is checked by the run
`Capture_one_session` and proved in `CaptureProofs`.

**IndexServer**. One server process, and any number of queries and jobs in it,
builds by other processes, and edits by people. An action of a query or a job is
the code between two awaits. `Free` keeps the one thread from serving anyone else
while a job goes from the end of one build to its next await, and while a build is
written and read back. A file is its modification time and an index the function it
was built from. `Arrive` is `ensureFresh` up to its first await with `loadScope`, the
adoption of a newer file, the stat pass with its TTL and the gates of
`reindexInline`; `RepairWait`, `RepairStart`, `RepairThrows` and `RepairFailed` are the
rest of `reindexInline`. The end of a build is three steps, between which other
processes move: the header gets its date (`RepairDates`), the file is renamed into
place whatever is there by now (`RepairRenames`), and the query that built it, then
each that waited, reads the file back and calls what it finds current (`Reload`). Jobs
have `JobSkip`, `JobBuild`, `JobDates`, `JobRenames`, `JobFail` and `JobDone`, other
processes `OtherStart` to `OtherFails`. So an index dated first may be renamed last:
`undercut` records the builds that an older one has replaced. `seen` is what a query
has seen of the corpus, its stat pass included, `put` what another process renamed in
between its rebuild and its reload, and `found` and `waited` the rest that the
properties need of its past.

**IndexBuild**. The contents of the index, where IndexServer has its dates. A file
is its frontmatter, two sections and a modification time, which an edit need not
change. `Load` gives the documents it becomes - one, or a stub and one per section,
or one without the section a policy strips - with the hash each has in the code:
of the raw file, or of the section's own text. A build holds the documents it
read, the reusable part of the old index, its copy of the cache and what it has
made so far; `Reuse` and `EmbedDoc` are the two ways through the loop, the second
with the flush after every `FlushEvery` documents. A release is its contract: the
recipe of vectors and the chunking. `SeedLoad`, `SeedLift` and `SeedFlush` are
`seed-vector-cache.js`, which reads the cache, then the index, and writes the cache, with
a copy of its own in between as a build has one. `crossed` is
the set of runs whose copy of the cache misses what another has written; `mixed`
records the two things after which no promise is made: a change of the policy by
which files are read, which the hash of a raw file does not show, and a seeding
from an index of another recipe.

**MemoryFolder**. A file is its frontmatter (a set of stamps, or none) and its
body. A writer is a process in the middle of `rewriteFrontmatterOnly`,
`writeNewMemoryFile` or the script's own `writeFileSync`, one action per system
call, preceded by the reading its caller did. People save and delete at any time.
`raced` marks the writers whose file somebody else changed after they last looked.
Pruning is by name order over the files that share the prefix, so `Sibling` names
the file whose snapshots get in the way. The read-only switch is an environment
variable, so `ReadOnly` is the set of the writers that have it.

**MemoryGit**. A path is in the folder, in git's index and in HEAD. Each git
command is one step or is refused; `Status` derives the porcelain lines - deleted,
renamed, an untracked directory in a single line - and what the script makes of
them. A name outside ASCII comes quoted and escaped (`Quoted`); the script takes off
the quotes only, and what it then has is no file's name. Snapshots are paths of the
same repository. A stamping `setModified` is one step here, MemoryFolder has its
inside; it writes nothing into a file without frontmatter or under the read-only
switch, and when it fails the commit goes on. `undone` marks the runs whose reset was
refused or undone by another run's add.

**Dream**. Documents are listed in the order they load; a `Layout` gives each its
name and its file, which sections share. A time is an age in days, up to the
oldest the code tells apart, so that days can pass for ever in a finite model. A
run is `work` (the state and the corpus are read, the searches run), the queue file
(`Report`), for a dry daily run the second reading (`Reread`), and the two halves of
`writeFileSync`: a reader in between parses nothing and takes the state for new, as
`readState` does. Which of the most retrieved documents come first is left open.
`kept` is the last state that was written whole, `stale` the runs that hold an
older one, `decided` what people decided. Whether the line of the Stop hook has
`--apply` is `applies`, either from the start; as it is documented (`dream.js` 516) it
has not, and the daily run is dry.

The remaining modules are about what a server answers. **Answers** puts them
together: a behaviour is one question of the last word (Latest), or questions to
git (Evidence), or one case of a search. The steps of a search are functions of
what the index holds, so a case is an input, chosen from `Cases`, and a property
relates the function to what it is to achieve.

**Latest**. One corpus and one question at a time. A text is the set of its terms,
a file that text, its modification time and the time it speaks of (the `ts` of an
exchange, else the modification time). `Ask` is `latest` up to `attachCommits`:
`ensureFresh`, whose inline rebuild is one step here, the match, the relaxed
fallback, the order; `Answer` is the rest, with the live corpus as it is by then:
the collision of names, the scan of unread files, the void claim. The stamp is a
record of the two sets and the pass they came from. The notes of the code appear
as the facts they name (`claim`, `supported`, `missing`, `found`, `warned`, `cut`).
Of an ordered list the model keeps the set and the order: `FirstRow` is `results[0]`,
`Shown` and `Opened` are the files with fewer than so many before them.

**Evidence**. A question of kind "ask" is `attachCommits` and then `autoVerifyQuery`
of an answer; of kind "verify" it is `verifyClaims`, the other way round. `jobs` has
the batch of `cat-file` and the `git log` behind it per repository, `greps` the greps
that are under way; each may end in any order, fail or overrun. `checked` and `real`
are `CACHE` with its entries and nulls, `identCache` is `IDENT_CACHE`. `missed` and
`ended` are history.

**Lists** has what the modules below make of lists - the elements at some places, in
order or sorted by a relation; lists one behind the other; sums - without recursion,
so that the lemmas of `AnswersProofs` can speak of lists of any length.

**Passages**. A text is a sequence of words. `ChunkBody` and `UnchunkBody` are
`lib/embed.js`, `BestWindow` the walk of `lib/lexical.js` with its two early stops,
in integers (a score of distinct^3 over span, cross-multiplied), the reach of the
walk in two constants, `BackPerTerm` and `BackExtra` (4 and 24 in the code).
`TermStats` has the document frequencies and orphans of `lib/bm25.js`, from which
every weight is made, of the entries that Reading makes of a file.

**Threads**. An exchange is what its name is made of: the kind of suffix, the day,
the time if it has one, the hash. `SuffixBefore` is the order of the strings,
`ComesBefore` the one a session is sorted by, and the exchange at k of a thread the
one that k - 1 others come before. `ThreadAround` is `thread` with `commitsInRange`: a
repository is a set of times of commits, of which at most `MaxCommits` of a range are
listed, the last ones. A repository that fails is left out, and the answer for the
range is kept, so `broken` are pairs of a repository and a range. `Unlisted` are the
commits that are left out in either way.

**Ranking**. A document is its scores in the three legs, in hundredths, with file
and tier. `Scored` is the two passes and the boost, `Page` the caps, `Spread` the
hop along links, `Verdict` `absenceVerdict`, `Search` their order in `search`.

**Reading**. A body is a sequence of lines: text with a set of words, a fence with its
mark, a heading with a level and a title of words. Lengths are in lines. `SplitSections`
to `DocsOf` are `section-docs.js`; `Entries` are what they become in the index, each
section with its words and the stub with the words every stub has (`StubWords`) and the
first headings that are no section's, and `WholeEntry` is what the file would be
unsplit. `LeftOut` are the words of lines that are in no section: those before the first
one and those of a section below the minimum. `Headings`, `SectionOf`, `ResolveDoc` and
`Get` are the reading side in `tools/memory.js`, which counts fences and ends sections
in its own way. A version ("v22") is a word with a number, counted from 1;
`ReadingAssumption` has it that a slug keeps such a word and that an ordinal behind a
slug is none.

**Scopes**. A world is what is on the machine: the directories of the library,
whether another project has memories, and per corpus what its index holds of the
question. `ValidScope`, `RouteScope`, `ExpandScope` and `WantedScopes` are the grammar
of scopes, `SearchAll`, `Compact` and `LatestAll` the combined answers, `Single` the part
of one corpus in them. `SearchOne` is a question of one corpus, which has a branch of
its own: it says that there is a library (`NotSearched`) only with a ranked answer of
the curated corpus.

## 3. The runs, their bounds and their fairness

All runs finish within the bounds of the `.cfg` with no state constraint; bounds
are guards. CHECK_DEADLOCK is off everywhere because the systems stop: each run,
query, job or writer acts once (in Dream, a bounded number of times) and the
bounded environment runs out. Symmetry is used where no liveness is checked.

| run | question | bounds and why they are enough |
|---|---|---|
| `IngestLock_runs` | no leak, extra runs bounded by takeovers; every run ends, the dead do not block | 3 runs: one to hold, one to take over, one to be robbed; the bound in takeovers is proved for any number |
| `Capture_one_session` | the properties of capture, the promise, the lock | 1 transcript of 2 exchanges of one piece (one deferred, one settled), the second a repetition of the first, and a copy under an old name; 2 runs, by the timer or by hand and with a window; 1 failure or kill, the middle of a rewrite included |
| `Capture_two_sessions` | the shared stamp file; without deferral a stamp covers everything; the index is current at rest | 2 transcripts of 1 exchange of up to 2 pieces, so that a memory is rewritten; 2 runs, of the hook or by hand; 1 failure or kill |
| `IndexServer_queries` | repairs and answers, and that every query is answered | 2 queries, so that one waits; 2 files, so that a repair can be partial and over the inline limit; 2 edits, 1 build of another process, dated and renamed apart so that its rename can fall between a repair's own and its reading back, 1 fault |
| `IndexServer_jobs` | jobs against each other and against a query | 2 jobs over overlapping lists of 2 scopes, a query, a build of another process, 1 edit, 1 fault |
| `IndexBuild_builds` | what a build publishes and what the cache keeps | 1 file of up to 3 documents, 2 builds and a seeding, in three steps, by any of 3 releases (2 recipes, 2 chunkings), 1 edit, 1 failure, kill or change of policy; a flush after every 2 documents, so that one falls inside a build and one at its end |
| `MemoryFolder_writers` | bodies, undo and the switch | 3 writers of every kind, one of them under the switch, 1 save by a person, a memory and a library file |
| `MemoryGit_turns` | held deletions, dates | 3 memories (one quoted, one without frontmatter), 3 runs (one accepting deletions, one read-only), 2 saves, moves or deletions, 1 refusal, failed stamp or kill, 3 snapshots |
| `Dream_runs` | findings, decisions, the day and the window | 2 documents, apart, in one file or of one name; the daily run, dry or applying, 2 runs by a person, 1 edit or retrieval, 1 kill; a limit of 1 and a window of 2 days, so that the two documents just fit |
| `Answers_questions` | what an answer may claim, and that the functions of a search achieve what they are for | see below |

The two runs that expect a violation are in section 5.

**The bounds of `Answers_questions`.** Latest: 3 files, one unlabelled, one a summary,
one with a term in its name, 2 terms, 2 writes or deletions, one shown name and one
opened file of each stamp, so that both cuts bind. Evidence: 2 repositories, 2
overlapping questions, 1 commit that lands, 1 failure or overrun; one token and one
name, since different ones share nothing but the cache's map; the theorems of section 4
are for any number. Passages: all texts of up to 6 words over 4, in chunks of 3 with an
overlap of 1, so that the last chunk may be short. Corpora: 2 files, one of up to 4
lines of text, headings and fences, described or not, the other split or not; a section
has 2 lines at least, a stub the first heading and one word that every stub has, so that
a term can be lost, and another won. Threads: 4 exchanges of both kinds of names, over 2
days, any of them without a time, and commits of 2 repositories, of which 2 of a range
are listed, so that the cut binds; a repository may fail for every range or for some.
Pages: up to 5 rows of 3 files in 2 tiers. Questions: 3 documents, weak and strong in
each leg, linked in every way. Bodies: up to 5 lines with 2 marks of fences and 3 levels
of headings. Scopes: the 4 corpora of work and one of the library, and a directory with
the name of a scope.

The walk of `BestWindow` reaches back 4 hits for each of the w terms and 24 more, too
far to matter in 6 words. The run has 1 and 1, so that the reach cuts windows off, and
the theorem `QuotesAreTheBest` is for all values: a window that is lost scores below
one in `BackPerTerm`, and a phrase under .35 counts for nothing in the rank.

What these properties take for granted: a file speaks of no time after its writing; two
changes of one file have different modification times; files that a policy excludes are
out of sight. `ThreadsRunForward` leaves out sessions that mix both kinds of names and
have exchanges without a time, and commits that `Unlisted` names, beyond the cut or of a
repository that failed; `SectionsCountOnce` the words every stub has (`StubWords`) and
those of lines that are in no section (`LeftOut`); `SectionsOpen` bodies that are not
`Plain` (a repeated title, a heading of the first level inside a section, fences of two
marks; each of the three is needed); `SectionsAgree` the verdict on a curated corpus
without an index, and the libraries not asked by an answer of one corpus, which names
them only if it is the curated one and has documents to rank. What the code does there
is in section 5.

**Fairness.** `FairLockSpec` has weak fairness of every run's own steps: a process that
is not killed executes its next system call, and none of them blocks. Nothing obliges a
run to start, to be killed, or a reused pid to be freed. `FairIndexSpec` has weak
fairness of every continuation in the server: the event loop runs what is ready, and the
embedder, which has no timeout of its own in this code, answers or throws. A query that
is lost to a restart is not owed an answer. `FairDreamSpec` has weak fairness of every
run's steps, of the call of the daily run while it is due, and of the days: the Stop
hook calls the script after every turn, so this is a person who works every day, which
is what the schedule is made for. It does not oblige the daily run to apply: it may be
dry, as the documented hook has it, and `WindowRolls` speaks of the behaviours in which
the hook's line has `--apply` (`applies`). `Day` waits for that day's run; days without
one only make matters worse for the tail of the corpus.

## 4. The proofs

TLAPS checks these for every value of the constants that satisfies the modules'
assumptions; TLC has checked the same formulas on the small instances.

* `IngestLockProofs`: type correctness, then the invariant `LockInv`: the file at
  the path belongs to a run that is inside or dead, a run that is inside without
  a takeover owns it, and the runs inside beyond the owner are counted against
  `takers`. No property is inductive alone: ownership is lost in `Clear`, which is
  only reached through a probe, so what a probing run knows has to be part of it.
  From it `LockNeverLeaks`, `LockOwnedUnlessTakeover` and, by the cardinality
  lemmas, `LockExtraRunsBounded`.
* `CaptureProofs`: every step of Capture is a step of IngestLock or leaves its
  variables alone (`CaptureUsesLock`), so the lock's theorems hold of capture
  (`CaptureNeverLeaksLock`); and two runs are inside together only after a
  takeover (`CaptureOverlapNeedsTakeover`), although a killed run's extractor goes
  on: its lock file is still there. Three invariants carry the rest.
  `CaptureInv` holds whatever fails and whoever overlaps: what a run has in hand is
  what the transcript says or said, and a memory is whole or empty. It is enough for
  `CaptureTimedWritesFinishedText`. `QuietInv` speaks of the time before the first
  overlap: one run is inside, what has been held grows, what the run writes is nothing
  older, the bodies it has hashed are still in the store when it sweeps, the index is
  behind the store, and every stamp, in the file or in the hands of a run, is covered by
  what has been held. None of these is inductive alone: a run takes the stamps of all
  sessions before it works and writes them back after, and what it adds was measured
  before it wrote; the files it hashes are read before the directory is listed and
  before any is removed. Hence `CaptureDeletesOnlyCopies`, `CaptureStampCoversSettled`,
  `CaptureStampCoversAll` (no run is timed, so nothing is deferred) and
  `CaptureKeepsPromise`, the refinement of CapturePromise action by action. What a stamp
  covers is what the store was once given (`held`): a memory whose rewrite broke off is
  empty under a stamp that counts it. `RestInv` adds that without faults the index is
  the store but between a run's first write and its publishing, and that of a run which
  wrote nothing the store lacks only what it swept (`Shrunk`), so that equal numbers of
  files mean that nothing was swept (`CountTells`); hence `CaptureIndexCurrentAtRest`.
* `MemoryFolderProofs`: `FolderInvariant` says that a rewrite past its check and not
  overtaken still has under its name the body it will write; hence `EditsKeepBodies`. No
  writer under the switch is past a check, hence `ReadOnlyIsKept`, which leaves out the
  archive: a replacing import writes there under the switch, before it is refused.
  `EveryOverwriteIsUndoable` is not true for every value of the constants, and three
  theorems say where it is. All assume `NoSiblings`, that the snapshots of no other file
  share a file's prefix: the run `MemoryFolder_sibling` shows that this is needed. A
  snapshot is lost when as many newer ones as are kept follow it before the rename. A
  writer that was killed leaves its snapshot behind, so `FewVisitorsUndoable` bounds
  those who ever come to a file, and `AsManyWritersAsSnapshots` bounds the writers,
  which makes it a statement of every behaviour; `FewAtOnceUndoable` allows any number
  of them, one after the other, and bounds those between snapshot and rename at one
  time, if none is killed there. Beside the counting, `UndoInv` says that what a writer
  that was not overtaken has last seen is still under the name, and that an import has
  archived what it will replace.
* `MemoryGitProofs`: `GitInvariant` says two things of a run that accepts no
  deletions: it holds back all it found missing, unless the index had another version
  of it; and when it is at its commit, what it holds back is missing from the index
  only if it is missing from HEAD. The second survives whatever other runs reset or
  commit, but not another's add (`undone`). Hence `MissingMemoriesStayInHead`, of
  crossed, refused and killed runs too. `CommittedMemoriesAreDated` needs `DatedInv`:
  what a run alone in the folder will add differs from HEAD only in files it has
  dated or has still to date, but for those saved behind its back or whose stamp
  failed (`late`) and those it cannot stamp; its reset can only undo differences.
* `IndexBuildProofs`: `BuildPure` says that of everything a run holds - its copy of
  the cache, what it took over, what it has made - each vector is of the recipe the
  source names and each chunk has its vector; hence `CacheStaysPure` and
  `VectorsStayTrue`. For `IncrementalIsFull` the invariant says that every document
  in the index file is what a build from scratch makes of some content of its
  file; equal hash and time then mean equal documents (the lemma `SameHash`), which
  is where a reuse is right and where it would not be if the policy had changed.
  `CheckpointsAreKept` rests on `KeepInv`: a build or a seeding with a copy of the cache
  that knows of every writing of the file has all of it in memory; what a seeding lays
  over it are the same vectors, if they are of one recipe (`LiftedIsExact`).
* `DreamProofs`: `DreamIsHonest` says that every stamp on a version with a
  credential and every acceptance, in the file or in the hands of any run, goes
  back to a decision. An old state is as honest as a new one, since decisions only
  accumulate, and so is the empty state a torn file reads as; that is why
  `SecretsStayHeld` survives every overlap and kill, although decisions can be lost.
  When they are not is `DecisionsAlwaysStand`: a run that is not stale holds what was
  written last (`KeptInv`), up to what it was told to change. `DailyRunIsDaily` needs
  that what is about to be saved is not due either (`DueInv`).
* `IndexServerProofs`: `IndexInv` says that the two maps of the server are exact in
  both directions - a query that rebuilds is the one named, the one named rebuilds -
  and that whoever waits has noted the one that is named; so a rebuild that ends, in
  whatever way, finds exactly those who wait for it (`OneRebuildAtATime`). An index is
  dated before it is renamed, so that of two processes the one that was dated first may
  be renamed last, and the file of an index can get older. Within the server that cannot
  happen: `ThreadInv` says that a build keeps the one thread from its date to its rename,
  and an inline one until it is read back. So what is read back is what this build had
  read or what another process has renamed in between (`put`); hence `UnstampedAnswersRest`
  and `AnswersAreAsNewAsTheFile`, which name it. A job does not read back: another
  process's rename of an older snapshot after its own is `undercut`, and
  `DoneJobsAreServed` speaks of the others. All safety properties of IndexServer that a
  run checks are proved.
* `AnswersProofs`, of git: `EvidenceInv` says that a name of which a question knows
  nothing or "absent" has in every repository a grep that has ended or is under way,
  so that it is stored as absent for later questions only when all have ended
  (`AbsenceIsEverywhere`); and that a pair in the cache without a record was looked
  up in vain by somebody, so that a question that has collected all its pairs credits
  the first record there is, and a commit that lands later was missed
  (`FirstRepoIsNamed`). The least repository exists because the order of naturals is
  well-founded.
  Of the last word: `LatestInv` says that the corpus, the index and the corpus a
  question began with are all of the past, and that a file with the same time in two
  of them is the same file. So a file that the stat pass saw as it was is in the
  index as it was, or among the changed and added ones, and these either void the
  claim or are looked into (`LastWordHolds`, `AbsenceIsNamed`). Two more arguments
  are about the order: a first row exists in every finite set of rows, and a scan
  that was not cut has opened every file.
  `AnswersAreAsked` shows that Answers implements both, so that all four hold of it
  (`AnswersAreHonest`).
* `AnswersProofs`, of the cases of a search: a case is an input, so these are
  theorems about functions, for inputs of any size. What is asked of the inputs is
  named beside each.
  - `SectionsCountAsTheirFile`: files are a list, and so is the text of each
    (`GivenFiles`). By way of `SplitIs`: what the entries of a file have among them is
    what the file has whole, less `LeftOut` and more the words of stubs, and a file
    counts once for all its entries.
  - `ConversationsRunForward`: an exchange has an ask and a hash of its own, days go on
    with the asks (`Conversation`), and times are integers (`TimesAre`); commits may be
    any, repositories may fail in any way, and `MaxCommits` is any number. The exchange
    at k is unique because the ranks in a strict order are the numbers 1 to n
    (`RanksGrow`, an injection of a finite set into its numbers). The same lemma, for
    any list of elements, says what `Listed`, `Ascending`, `Only` and a stable sort are,
    without an induction.
  - `QuotesAreTheBest`: a finite set of words is wanted, in a list of words. Chunks
    are windows that cover the text, so what is put together is the text (`UnchunkIs`,
    by the ends of the parts). The walk keeps that what it holds is a best window of
    those it has passed: an early stop is right because a window further left is no
    narrower and cannot have more terms, and at the least hit where the best so far
    were wrong it would have been right one hit before.
  - `PageIsTheBest`: a ranking without a row twice. Places on the page are those
    within the archive's share and then the others, each in order, so that a row that
    is left out has as many better ones of its kind on the page, or the archive's
    share is full.
  - `LinksChangeNoVerdict`: documents whose legs are integers, of the tiers there are,
    and no links in a library. The rows that can be ranked are the same with links and
    without, so the page is as long (`PageIsAsLong`), and the verdict judges the row
    that was first before links were followed. A row enters the page only if it was
    lifted (`NewcomersGain`), which needs that a document's rows are archived together
    or not at all (`OfOneKind`), and only a row that means something like the question
    is lifted.
  - `SectionsAreOneAnswer`: any library, any known scope, a list or one name
    (`OneName`), any limit from 1, any rows in the indexes. `ScopesAssumption` keeps the
    mark for "no scope" apart from the scopes `<<"all">>` and `<<"curated">>`, to which
    it is expanded.
  - `WhatSearchNamesGetOpens`: `Written` says what a body is: lines; a heading has a
    level and a title of words; a fence has a mark; and what stands for no name is no
    list of words. With fences of one mark, get's state machine is the parity search
    counts (`HeadingsAreOutOfFences`); without a heading of the first level inside a
    section, the next heading at or above the second level is the next section's
    (`HeadingsAre`); and a title that is not repeated leads back to its line. A page
    and what is read after it are the rest of the body, which the last page is
    (`ReadOnReadsAll`). A slug and its ordinal keep a title's version, so two sections
    of one name are of one version, and the tier that goes by names goes by versions
    (`TiersAre`).

Types (`TypeOK` of IngestLock) and the purity of the cache (`CacheIsPure`) are proved
for every value of the constants and no run repeats them. What the theorems assume
beyond the modules' assumptions is in their ASSUME clauses and above: `NoSiblings` and
the counts for `EveryOverwriteIsUndoable`, `"timed" \notin Kinds` for
`StampCoversAll`, and the inputs of a search just described, among which are all those
of the run `Answers_questions`.

Only model-checked:

* liveness, which the provers do not handle: `EveryRunEnds`, `TheDeadDoNotBlock`,
  `EveryQueryIsAnswered`, `WindowRolls`;
* `NeverSilentlyStale`, which a run shows to be false, and the general form of
  `EveryOverwriteIsUndoable`, which `MemoryFolder_sibling` refutes.

Every invariant and every action property of a run that passes is stated by a theorem.

## 5. Where the code and its documents disagree

Two disagreements have a run that expects a violation and an entry under
"findings":

| run | what happens |
|---|---|
| `IndexServer_silently_stale` | a query that waited for an older rebuild answers without a stamp |
| `MemoryFolder_sibling` | snapshots of `note.log.md` push out those of `note.md` |

Others came up in modelling. Most are in the models, and where one bears on a property,
that property names it as an exception. Some were only read in the code beside what is
modelled; they are marked (not modelled), and no run and no theorem says anything of
them:

* **lock**: a lock file without its pid yet reads as dead, and clearing removes
  whatever is at the path, so two runs can be inside (`ExtraRunsBounded`).
* **capture**: a timed run defers the last exchange but stamps the full size, and a
  windowed run captures only the end and stamps the full size; a Stop hook may then
  be debounced (`StampCoversSettled` speaks of settled exchanges in the window).
  A memory is rewritten by `writeFileSync`, which empties it first: a kill or a full disk
  there leaves it empty, under an earlier stamp that counts it, until a run gets past the
  debounce, after ten minutes or with growth, and what an account was noted on it is gone
  with it (`KeepsPromise` and the stamps speak of what the store has been given). The
  pruner hashes, lists and removes in three steps, so that of two extractors that overlap
  one can rewrite the file the other takes for the copy, and the last copy goes
  (`DeletesOnlyCopies` is for runs that do not overlap). A run that found nothing to write
  builds nothing, so that the index a failed or killed run left behind stays as it is:
  `IndexCurrentAtRest` says nothing after a failure. A lock whose pid was given to another
  process refuses every run for as long as that process lives: each of them ends
  (`EveryRunEnds`), and captures nothing. `memory_capture` always answers "nothing new",
  since the runner keeps its extractor's output to itself (not modelled).
* **index server**: an index that was absent once is never adopted by a running server;
  "the previous index is untouched" is said after some were replaced (not modelled); a
  job and an inline repair can build one file at once; an index filled during a build is
  replaced by an empty one, because the guard reads it long before the rename. An index
  is dated when its text is made and renamed after, so of two processes the one with the
  older snapshot may be the last; a query that reads back its repair between the two
  serves the other's index as current, and a job's index can be undercut
  (`UnstampedIsAccountedFor`, `ServesWhatIsOnDisk` and `JobDoneIsServed` name these).
* **index build**: a change of the exclusion policy leaves the chunks of unchanged
  files as they were, since the hash is of the raw file; seeding puts the vectors of
  any index under the current contract.
* **memory folder**: a body saved between check and rename is lost; the importing
  script ignores the read-only switch; a replacing import archives under it before
  it is refused; `MEMORY_SNAPSHOTS_PER_FILE=0` keeps five (not modelled).
* **history**: a deletion between status and add is committed; a missing memory that
  shows as "MD", "AD" or "R" is not held; a reset that is refused or undone is
  swallowed; git quotes and escapes a name outside ASCII and the script takes off the
  quotes only, so the reset finds nothing and the deletion of such a memory is committed,
  and a change of it is committed without a date; so is one of a file without
  frontmatter, under the read-only switch, or whose stamp failed, which is swallowed.
  Pruned snapshots are reported as lost memories, and get dates written into them.
* **dream**: sections of one document share one stamp, keyed by file, so that all
  but one are new in every run; a document that waits for a person keeps its place
  at the head of the pool, and an exchange that was ever retrieved waits for ever; a
  kill inside the write loses all decisions, and a run that began before another's
  save undoes it (`DecisionsStand` names both). With more documents than the limit
  times the window (40 x 7), the head of the corpus is rescored for ever and the tail
  never: `WindowRolls` is for a corpus that fits, and for a hook whose line has `--apply`.
  As it is documented (`dream.js` 516) it has not, and then the daily run stamps
  nothing and the window does not roll; its message (605) says that "DREAM_AUTO_APPLY=1
  lets the daily run apply", but nothing reads that variable.
* **latest**: a term in the name of a shown file skips the scan of contents, so that a
  text elsewhere is only hinted at; a name beyond the eight shown is not seen to
  collide; what is found may be in a file the filter leaves out; the unread files that
  void a claim are listed without the newest when it is not among those shown; the claim
  is not voided when the first row has no readable time (not modelled); a relaxed
  answer, whose rows lack a term, is still called the last thing said; "no document
  matched any term" is said when filters took the matches away, and "filter matched
  nothing" when unlabelled documents pass; a date that does not parse switches the
  filter off. The combined form drops the stamp and the marks of relaxed and void
  answers. (The wording, the dates of a filter and the marks of the combined form are
  not modelled.)
* **threads**: a session with names of both kinds and an exchange without a time is
  in the order of its names, legacy ones first. Of the commits between two exchanges
  `commitsInRange` lists 25 of each repository, the last ones, without a mark for the
  rest; a repository that fails is left out with a warning in the log, and the partial
  answer is kept for the life of the server (`Unlisted`).
* **git**: an overrun or failure of `cat-file` is stored as null and read as "checked
  and genuinely absent" from then on; a null that comes late takes the place of a
  record; `git log` and the mainline check have no timer, though "a hung git must never
  hang a query" (of the two only `git log` is modelled, and its call is one step that
  ends or fails); any error of grep but an overrun counts as no match; `verifyClaims`
  counts overruns among what is not in the code; a failed mainline check reads as "not
  on mainline", and a repository that fails leaves `corpusCurrency` with what the others
  said, without a mark (neither is modelled).
* **search**: archived rows that were held back come after rows that scored less,
  and not where they stood. `lexical.js` 90-91 says that "a bounded backward walk loses
  nothing", since a wider window is too thin to win; but four terms at the two ends of
  41 hits in 59 words score .068, and what is found instead may score .0625. What is
  lost scores below 1/4. Of a document with hot and archived rows, a link may lift a
  hot one over its archived one, which makes room in the archive's share for a row that
  no link reaches.
* **sections and reading**: the text before the first heading of a split document, and
  sections below the minimum, are in no document, so a term of theirs looks rarer or
  absent, while every stub has the same few words, which look more common
  (`SectionsCountOnce` leaves out both); of two sections with one title, both names open the
  first; "X", "X!" and "X 2" give two children of one name; a section in the index
  runs past a heading of the first level and over fences of another mark, where get
  ends it or finds none; a document asked for by the name of its file, when its
  frontmatter has another, opens its first section.
* **scopes**: a curated corpus without an index answers without a verdict, so that a
  combined answer with nothing in it reads as one that found something
  (`search.js` 933-935 says the opposite), while its compact section says that nothing
  was found; that there is a library is said by an answer of one corpus only when the
  curated one has documents to rank, not for staging, handoffs or an empty or absent
  index; a category made within one tick of the directory's time may be unknown
  for as long as the listing is kept, and the recheck of labelled rows at the end of a
  search is made on the flat list and not in the groups (neither is modelled).
* **small files** (not modelled): the capture tool reads its answer out of the wording
  of another process's output; a memo by modification time and size misses a change that
  keeps both; two processes may roll the query log at once, and the second takes what
  the first has just begun.

## 6. What is not modelled, and the plan

Left out of the models above: the wording of names, titles and reports; the
redaction of text; floating-point scores and embeddings; clocks, other than the
order of edits and builds (a snapshot's name is a millisecond; a modification time
never goes back); the refusal of `commit-memories.js` over a remote, its margin
report and `--status`; MCP plumbing, packaging and installers.

Of the pass in `dream.js`, the search for corrections, the probe sweep, the drafted
probes and the margins are left out: they write reports that no run reads again.

Of search, BM25 itself, the stemmer, the cosine and the factors of length and time
are left out: floating-point functions of one document. Of the git join, what a
commit says, the mainline check and `corpusCurrency`. Probes run commands and patterns
over files and report: they change nothing that is read again. The audit of the store,
orphan handoffs, the corpus profile and telemetry only read. Redaction and the guard
against credentials are regular expressions; a refusal is what IndexServer calls a
build that throws.

Modules still to write, in this order:

1. `Heartbeat`, `FileMemo`, `QueryLog`: small caches and files of several processes,
   with the roll of the log by two at once.
2. `Currency`: `corpusCurrency` and the mainline check beside Evidence.
3. `Floors`: how the floors of absence are derived from probes, and what a verdict
   keeps when they change under it.
4. `Probes`: aggregation of verdicts and the sidecar.
5. Backlinks and neighbours, and the guards of `doImport` before the first write.

Theorems still worth proving are of these modules to come. Of those there are, a run
checks and no theorem states only what section 4 lists at its end.
