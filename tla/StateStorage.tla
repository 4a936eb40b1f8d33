---------------------------- MODULE StateStorage -----------------------------
(***************************************************************************)
(* StateStorage (cyfs-lib/storage/state_storage.ts) once init() has        *)
(* returned, with a StateStorageMap of one key on top: writes mark the     *)
(* storage dirty, save() and the auto-save timer carry the content over to *)
(* the global state, abort() drops it.                                     *)
(*                                                                         *)
(* The router is external and keeps two op-envs for the storage: the       *)
(* content being edited (single_stub), and the path where its root is      *)
(* staged and then committed (path_stub).  Every await is a request to it; *)
(* requests of different calls are under way at once.                      *)
(***************************************************************************)
EXTENDS Naturals, Sequences, SequencesExt

CONSTANTS MaxValue,  \* values of the key are 0 .. MaxValue; 0 is its absence
          MaxWrites, \* bound on the calls of set and remove
          Fresh,     \* no write brings back a content that was there before
          Savers,    \* the saves that may be under way at once
          MaxStarts, \* bound on the calls of start_save
          MaxFaults, \* bound on the requests that fail
          Faulty,    \* the requests that may fail, by their op
          Aborts     \* abort() may be called

ASSUME StorageAssumption ==
  /\ {MaxValue, MaxWrites, MaxStarts, MaxFaults} \subseteq Nat
  /\ Faulty \subseteq {"write", "update", "set", "commit", "drop_single", "drop_path"}
  /\ {Fresh, Aborts} \subseteq BOOLEAN

Writers == 1 .. MaxWrites
Values  == 0 .. MaxValue
Root    == Values        \* a map of one key is named by the value of the key
NoRoot  == MaxValue + 1  \* nothing at the path

VARIABLES
  content,   \* router: what single_stub edits
  staged,    \* router: what path_stub will commit
  committed, \* router: what the global state holds at the path
  aborted,   \* router: the op-envs that are gone
  slipped,   \* whether the last final commit the router was asked for failed
  undropped, \* the op-envs that abort() failed to drop
  current,   \* op_data.current
  dirty,     \* StateStorage.dirty
  auto_save, \* StateStorage.auto_save
  timers,    \* the intervals of start_save that still run
  starts,    \* calls of start_save so far
  writes,    \* calls of set and remove so far
  saver,     \* where each save is, and the root it read as `current` and saves
  abort,     \* where abort() is
  wire,      \* requests on their way to the router, in order
  replies,   \* answers on their way back, in order
  faults     \* requests that failed so far

vars == <<content, staged, committed, aborted, slipped, undropped, current, dirty,
          auto_save, timers, starts, writes, saver, abort, wire, replies, faults>>
router == <<content, staged, committed, aborted, slipped, undropped>>
auto   == <<auto_save, timers, starts>>

Idle == [at |-> "idle", prev |-> NoRoot, new |-> NoRoot]

Request == [op : {"write", "update", "set", "commit", "drop_single", "drop_path"},
            from : Writers \cup Savers \cup {0},
            new : Root \cup {NoRoot}, prev : Root \cup {NoRoot}]
Reply == [op : {"write", "update", "set", "commit", "drop_single", "drop_path"},
          from : Writers \cup Savers \cup {0},
          ok : BOOLEAN, new : Root \cup {NoRoot}, root : Root \cup {NoRoot}]

TypeOK ==
  /\ content \in Root
  /\ {staged, committed, current} \subseteq Root \cup {NoRoot}
  /\ {aborted, undropped} \subseteq SUBSET {"single", "path"}
  /\ {slipped, dirty, auto_save} \subseteq BOOLEAN
  /\ timers \in 0 .. MaxStarts /\ starts \in 0 .. MaxStarts
  /\ writes \in 0 .. MaxWrites /\ faults \in 0 .. MaxFaults
  /\ saver \in [Savers -> [at : {"idle", "update", "set", "commit"},
                           prev : Root \cup {NoRoot}, new : Root \cup {NoRoot}]]
  /\ abort \in {"no", "single", "path", "done"}
  /\ wire \in Seq(Request)
  /\ replies \in Seq(Reply)

\* load() found a root at the path, or made an empty map.
Init ==
  /\ content = 0
  /\ committed \in {0, NoRoot}
  /\ staged = committed /\ current = committed
  /\ aborted = {} /\ slipped = FALSE /\ undropped = {}
  /\ dirty = FALSE
  /\ auto_save = FALSE /\ timers = 0 /\ starts = 0
  /\ writes = 0 /\ faults = 0
  /\ saver = [s \in Savers |-> Idle]
  /\ abort = "no"
  /\ wire = <<>> /\ replies = <<>>

-----------------------------------------------------------------------------
\* A request, with the root it sets and the one it expects.
Post(o, f, n, p) ==
  wire' = Append(wire, [op |-> o, from |-> f, new |-> n, prev |-> p])

\* set, or remove (0), up to its await.
Write(v) ==
  /\ writes < MaxWrites
  /\ writes' = writes + 1
  /\ Fresh => v = writes'
  /\ Post("write", writes', v, NoRoot)
  /\ UNCHANGED <<router, current, dirty, auto, saver, abort, replies, faults>>

\* MUTANT: a write that marks the storage only if the key was there.
WroteOver(r) ==
  /\ r.op = "write"
  /\ dirty' = (dirty \/ (r.ok /\ r.root \notin {r.new, 0}))
  /\ UNCHANGED <<router, current, auto, writes, saver, abort, wire, faults>>

\* set_ex and remove_ex resume: a value that changed makes the storage dirty.
Wrote(r) ==
  /\ r.op = "write"
  /\ dirty' = (dirty \/ (r.ok /\ r.root # r.new))
  /\ UNCHANGED <<router, current, auto, writes, saver, abort, wire, faults>>

-----------------------------------------------------------------------------
\* save() of a dirty storage, then commit_impl, up to its first await.
SaveBegins(s) ==
  /\ saver[s].at = "idle"
  /\ dirty
  /\ dirty' = FALSE
  /\ saver' = [saver EXCEPT ![s] = [at |-> "update", prev |-> current, new |-> NoRoot]]
  /\ Post("update", s, NoRoot, NoRoot)
  /\ UNCHANGED <<router, current, writes, abort, replies, faults>>

\* save() of a clean storage returns Ok at once, also while another save is
\* still under way.
SaveClean ==
  /\ ~dirty
  /\ UNCHANGED <<router, current, dirty, writes, saver, abort, wire, replies, faults>>

Save == (\E s \in Savers : SaveBegins(s)) \/ SaveClean

\* MUTANT: save that does not set dirty again after an error.
SaveForgets(s) ==
  /\ saver' = [saver EXCEPT ![s] = Idle]
  /\ UNCHANGED <<dirty, current, wire>>

\* commit_impl failed: save sets dirty again.
SaveFails(s) ==
  /\ saver' = [saver EXCEPT ![s] = Idle]
  /\ dirty' = TRUE
  /\ UNCHANGED <<current, wire>>

\* single_stub.update answered: nothing changed, or stage the new root.
Updated(r) ==
  /\ r.op = "update"
  /\ LET s == r.from prev == saver[s].prev IN
       \/ ~r.ok /\ SaveFails(s)
       \/ /\ r.ok /\ prev # NoRoot /\ r.root = prev
          /\ saver' = [saver EXCEPT ![s] = Idle]
          /\ UNCHANGED <<current, dirty, wire>>
       \/ /\ r.ok /\ (prev = NoRoot \/ r.root # prev)
          /\ saver' = [saver EXCEPT ![s].at = "set", ![s].new = r.root]
          /\ Post("set", s, r.root, prev)
          /\ UNCHANGED <<current, dirty>>
  /\ UNCHANGED <<router, auto, writes, abort, faults>>

\* path_stub.set_with_path answered: commit what is staged.
Staged(r) ==
  /\ r.op = "set"
  /\ \/ ~r.ok /\ SaveFails(r.from)
     \/ /\ r.ok
        /\ saver' = [saver EXCEPT ![r.from].at = "commit"]
        /\ Post("commit", r.from, NoRoot, NoRoot)
        /\ UNCHANGED <<current, dirty>>
  /\ UNCHANGED <<router, auto, writes, abort, faults>>

\* MUTANT: commit_impl that leaves op_data.current as it was.
CommittedStale(r) ==
  /\ r.op = "commit"
  /\ \/ ~r.ok /\ SaveFails(r.from)
     \/ /\ r.ok
        /\ saver' = [saver EXCEPT ![r.from] = Idle]
        /\ UNCHANGED <<current, dirty, wire>>
  /\ UNCHANGED <<router, auto, writes, abort, faults>>

\* path_stub.update answered: the new root is the current one.
Committed(r) ==
  /\ r.op = "commit"
  /\ \/ ~r.ok /\ SaveFails(r.from)
     \/ /\ r.ok
        /\ current' = saver[r.from].new
        /\ saver' = [saver EXCEPT ![r.from] = Idle]
        /\ UNCHANGED <<dirty, wire>>
  /\ UNCHANGED <<router, auto, writes, abort, faults>>

-----------------------------------------------------------------------------
\* start_save while auto_save is off: one more interval, also if the last one
\* has not noticed that it was stopped.
StartSave ==
  /\ starts < MaxStarts
  /\ ~auto_save
  /\ starts' = starts + 1
  /\ auto_save' = TRUE
  /\ timers' = timers + 1
  /\ UNCHANGED <<router, current, dirty, writes, saver, abort, wire, replies, faults>>

StopSave ==
  /\ auto_save' = FALSE
  /\ UNCHANGED <<router, current, dirty, timers, starts, writes, saver, abort, wire,
                 replies, faults>>

\* MUTANT: an interval that saves and never clears itself.
TickForever ==
  /\ timers > 0
  /\ Save
  /\ UNCHANGED auto

\* An interval fires: it clears itself if stopped, and saves all the same.
Tick ==
  /\ timers > 0
  /\ timers' = IF auto_save THEN timers ELSE timers - 1
  /\ Save
  /\ UNCHANGED <<auto_save, starts>>

\* save() called by the application.
SaveCall == Save /\ UNCHANGED auto

\* abort(): stop_save, then drop the two op-envs.
Abort ==
  /\ Aborts
  /\ abort = "no"
  /\ abort' = "single"
  /\ auto_save' = FALSE
  /\ Post("drop_single", 0, NoRoot, NoRoot)
  /\ UNCHANGED <<router, current, dirty, timers, starts, writes, saver, replies, faults>>

\* MUTANT: abort that leaves path_stub alone.
SingleDroppedOnly(r) ==
  /\ r.op = "drop_single"
  /\ abort' = "done"
  /\ dirty' = FALSE
  /\ UNCHANGED <<wire, router, current, auto, writes, saver, faults>>

\* single_stub.abort answered: a failure is only logged.
SingleDropped(r) ==
  /\ r.op = "drop_single"
  /\ abort' = "path"
  /\ Post("drop_path", 0, NoRoot, NoRoot)
  /\ UNCHANGED <<router, current, dirty, auto, writes, saver, faults>>

\* path_stub.abort answered: likewise, and abort() is done.
PathDropped(r) ==
  /\ r.op = "drop_path"
  /\ abort' = "done"
  /\ dirty' = FALSE
  /\ UNCHANGED <<router, current, auto, writes, saver, wire, faults>>

\* An answer resumes the call that awaits it.
Resume ==
  /\ replies # <<>>
  /\ LET r == Head(replies) IN
       \/ Wrote(r) \/ Updated(r) \/ Staged(r) \/ Committed(r)
       \/ SingleDropped(r) \/ PathDropped(r)
  /\ replies' = Tail(replies)

-----------------------------------------------------------------------------
\* The op-env that a request drops.
Dropped(q) == IF q.op = "drop_single" THEN "single" ELSE "path"

Answer(q, ok, root) ==
  /\ replies' = Append(replies, [op |-> q.op, from |-> q.from, ok |-> ok,
                                 new |-> q.new, root |-> root])
  /\ wire' = Tail(wire)
  /\ UNCHANGED <<current, dirty, auto, writes, saver, abort>>

\* External: the router carries out the next request.
Serve ==
  /\ wire # <<>>
  /\ UNCHANGED faults
  /\ LET q == Head(wire)
         gone == \/ "single" \in aborted /\ q.op \in {"write", "update"}
                 \/ "path" \in aborted /\ q.op \in {"set", "commit"}
     IN
     \/ /\ gone
        /\ Answer(q, FALSE, NoRoot)
        /\ UNCHANGED router
     \/ /\ ~gone /\ q.op = "write"
        /\ Answer(q, TRUE, content)
        /\ content' = q.new
        /\ UNCHANGED <<staged, committed, aborted, slipped, undropped>>
     \/ /\ ~gone /\ q.op = "update"
        /\ Answer(q, TRUE, content)
        /\ UNCHANGED router
     \/ /\ ~gone /\ q.op = "set" /\ q.prev \in {NoRoot, staged}
        /\ Answer(q, TRUE, staged)
        /\ staged' = q.new
        /\ UNCHANGED <<content, committed, aborted, slipped, undropped>>
     \/ /\ ~gone /\ q.op = "set" /\ q.prev \notin {NoRoot, staged}
        /\ Answer(q, FALSE, NoRoot)
        /\ UNCHANGED router
     \/ /\ ~gone /\ q.op = "commit"
        /\ Answer(q, TRUE, staged)
        /\ committed' = staged
        /\ slipped' = FALSE
        /\ UNCHANGED <<content, staged, aborted, undropped>>
     \/ /\ q.op \in {"drop_single", "drop_path"}
        /\ Answer(q, TRUE, NoRoot)
        /\ aborted' = aborted \cup {Dropped(q)}
        /\ UNCHANGED <<content, staged, committed, slipped, undropped>>

\* External: a request fails and changes nothing.
Fail ==
  /\ wire # <<>>
  /\ faults < MaxFaults
  /\ Head(wire).op \in Faulty
  /\ faults' = faults + 1
  /\ LET q == Head(wire) IN
       /\ Answer(q, FALSE, NoRoot)
       /\ slipped' = (slipped \/ q.op = "commit")
       /\ undropped' = IF q.op \in {"drop_single", "drop_path"}
                       THEN undropped \cup {Dropped(q)} ELSE undropped
  /\ UNCHANGED <<content, staged, committed, aborted>>

Next ==
  \/ \E v \in Values : Write(v)
  \/ SaveCall \/ Tick \/ StartSave \/ StopSave \/ Abort
  \/ Resume \/ Serve \/ Fail

Spec == Init /\ [][Next]_vars

\* Intervals fire, answers resume their calls and the router works on; that
\* the application saves or stops is not assumed.  An interval may fire while
\* every saver of the model is taken: it is a later one that counts.
LiveSpec == Spec /\ SF_vars(Tick) /\ WF_vars(Resume) /\ WF_vars(Serve)

-----------------------------------------------------------------------------
\* No write and no save is under way, and nobody aborted.
Quiet ==
  /\ wire = <<>> /\ replies = <<>>
  /\ \A s \in Savers : saver[s].at = "idle"
  /\ abort = "no"

\* A storage that says it is clean has all of its content in the global state:
\* writes that arrive between the steps of a save, saves that overlap and
\* saves that fail never lose the mark (save, set_ex).
CleanIsCommitted ==
  Quiet /\ ~dirty => committed = content \/ (committed = NoRoot /\ content = 0)

\* Between saves `current` is the root at the path, so that the next
\* set_with_path, which names it as the previous value, is not refused; unless
\* the last final commit failed, which leaves what it had staged in the way.
CurrentInStep == Quiet => slipped \/ (current = committed /\ staged = committed)

\* A failed final commit that is never made good: set_with_path goes on naming
\* a previous value that is not what is staged, and every save is refused.  (A
\* storage that found nothing at the path names none, and recovers.)
Wedged == slipped /\ current # NoRoot

\* With auto-save on, what was written is committed, whichever request fails,
\* except that a failed final commit may wedge the storage, for good.
DirtyIsSaved ==
  dirty /\ auto_save ~>
    committed = content \/ ~auto_save \/ abort # "no" \/ []Wedged

\* The intervals of a storage that was stopped clear themselves.
StopClears == ~auto_save ~> timers = 0 \/ auto_save

\* After abort() has returned no save that was under way commits any more,
\* unless the router failed to drop path_stub, which abort() only logs.
AbortIsFinal ==
  [][abort = "done" /\ "path" \notin undropped => committed' = committed]_vars
=============================================================================
