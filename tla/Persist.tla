------------------------------- MODULE Persist -------------------------------
(***************************************************************************)
(* How what an instance knows reaches state.json and comes back (store.go, *)
(* rotator.go): every change marks the state dirty, the flush loop writes  *)
(* it out through state.json.tmp, Shutdown writes it once more from the    *)
(* host's own thread, and the next instance loads it.                      *)
(*                                                                         *)
(* A file is an inode: two flushes that open the same temporary name write *)
(* one file, and a rename moves the name, not what is open.  A hot reload  *)
(* loads the next instance beside the one it replaces, which nobody stops. *)
(***************************************************************************)
EXTENDS Naturals

CONSTANTS
    Instance,   \* instances, in the order the host loads them
    Change,     \* changes to the state, in their order
    Inode,      \* files on disk
    Reloads,    \* does the host load an instance beside a running one?
    MaxStop,    \* bound: times the host shuts an instance down
    MaxFail,    \* bound: writes of the temporary file that fail
    MaxCrash    \* bound: times the process dies

ASSUME PersistAssumption ==
    /\ Instance \subseteq Nat \ {0} /\ Change \subseteq Nat
    /\ Inode \subseteq Nat \ {0} /\ 1 \in Inode
    /\ Reloads \in BOOLEAN
    /\ MaxStop \in Nat /\ MaxFail \in Nat /\ MaxCrash \in Nat

VARIABLES
    up,       \* what each instance is doing
    known,    \* the changes in its memory
    dirty,    \* App.dirty
    events,   \* App.events
    flush,    \* what each of its calls of Flush is doing
    json, tmp,\* the files named state.json and state.json.tmp
    content,  \* what is in each file
    log,      \* how often each event is in the event log
    made,     \* history: every change any instance has made
    raced,    \* history: has a flush begun while another was under way?
    stops, fails, crashes

vars == <<up, known, dirty, events, flush, json, tmp, content, log, made,
          raced, stops, fails, crashes>>
disk == <<json, tmp, content>>
memory == <<up, known, dirty, events>>
history == <<made, raced>>
bounds == <<stops, fails, crashes>>

Caller == {"loop", "shutdown"}
NoFile == 0
Flush == [pc : {"idle", "open", "write", "rename", "append", "returned"},
          state : SUBSET Change, events : SUBSET Change, file : Inode \cup {NoFile},
          last : BOOLEAN]
NotFlushing == [pc |-> "idle", state |-> {}, events |-> {}, file |-> NoFile,
                last |-> FALSE]
\* "empty": as os.WriteFile's truncation leaves it; "mixed": two writes at once.
Content == [kind : {"empty", "whole", "mixed"}, state : SUBSET Change]
Whole(state) == [kind |-> "whole", state |-> state]
Empty == [kind |-> "empty", state |-> {}]

TypeOK ==
    /\ up \in [Instance -> {"absent", "running", "stopping", "gone"}]
    /\ known \in [Instance -> SUBSET Change]
    /\ dirty \in [Instance -> BOOLEAN]
    /\ events \in [Instance -> SUBSET Change]
    /\ flush \in [Instance \X Caller -> Flush]
    /\ json \in Inode /\ tmp \in Inode \cup {NoFile}
    /\ content \in [Inode -> Content]
    /\ log \in [Change -> Nat] /\ \A c \in Change : log[c] > 0 => c \in made
    /\ made \subseteq Change /\ raced \in BOOLEAN
    /\ stops \in 0 .. MaxStop /\ fails \in 0 .. MaxFail /\ crashes \in 0 .. MaxCrash

Init ==
    /\ up = [i \in Instance |-> "absent"]
    /\ known = [i \in Instance |-> {}]
    /\ dirty = [i \in Instance |-> FALSE]
    /\ events = [i \in Instance |-> {}]
    /\ flush = [ic \in Instance \X Caller |-> NotFlushing]
    /\ json = 1 /\ tmp = NoFile
    /\ content = [f \in Inode |-> Whole({})]
    /\ log = [c \in Change |-> 0]
    /\ made = {} /\ raced = FALSE
    /\ stops = 0 /\ fails = 0 /\ crashes = 0

-----------------------------------------------------------------------------
Alive(i) == up[i] \in {"running", "stopping"}
Newest(i) == Alive(i) /\ \A j \in Instance : Alive(j) => j <= i

\* loadState: an unreadable file is a fresh start.
Stored == IF content[json].kind = "whole" THEN content[json].state ELSE {}

(* newApp. *)
Load(i) ==
    /\ up[i] = "absent" /\ \A j \in Instance : j < i => up[j] # "absent"
    /\ Reloads \/ \A j \in Instance : ~Alive(j)
    /\ up' = [up EXCEPT ![i] = "running"]
    /\ known' = [known EXCEPT ![i] = Stored]
    /\ UNCHANGED <<dirty, events, flush, disk, log, history, bounds>>

(* HandleUsage, record, settle...: a change and the dirty mark; a request  *)
(* leaves an event too.                                                    *)
Record(i) ==
    /\ up[i] = "running" /\ Newest(i)
    /\ \E c \in Change \ made :
          /\ \A d \in Change : d < c => d \in made
          /\ made' = made \cup {c}
          /\ known' = [known EXCEPT ![i] = @ \cup {c}]
          /\ \E logged \in {{}, {c}} :
                events' = [events EXCEPT ![i] = @ \cup logged]
    /\ dirty' = [dirty EXCEPT ![i] = TRUE]
    /\ UNCHANGED <<up, flush, disk, log, raced, bounds>>

-----------------------------------------------------------------------------
(* Flush(i, c): by the loop, on its ticker and when it is stopped, and by  *)
(* Shutdown.                                                               *)
Step(ic, from, to) == flush[ic].pc = from /\ flush' = [flush EXCEPT ![ic].pc = to]

Stopping(ic) == up[ic[1]] = "stopping"

\* A flush begun before stop was closed is not the loop's last.
Returns(ic, last) ==
    flush' = [flush EXCEPT ![ic] =
                 [NotFlushing EXCEPT !.pc = IF last THEN "returned" ELSE "idle"]]

Begins(ic) ==
    flush' = [flush EXCEPT ![ic] = [pc |-> "open", state |-> known[ic[1]],
                                    events |-> events[ic[1]], file |-> NoFile,
                                    last |-> Stopping(ic)]]

Called(ic) ==
    /\ flush[ic].pc = "idle"
    /\ Stopping(ic) \/ (up[ic[1]] = "running" /\ ic[2] = "loop")

Races(ic) ==
    raced' = (raced \/ \E c \in Caller \ {ic[2]} :
                          flush[<<ic[1], c>>].pc \notin {"idle", "returned"})

\* Mutant: the events are left in the buffer.
FlushSnapshotKeepsEvents(ic) ==
    /\ Called(ic)
    /\ LET i == ic[1] IN
       IF dirty[i] \/ events[i] # {}
       THEN /\ Begins(ic)
            /\ dirty' = [dirty EXCEPT ![i] = FALSE]
            /\ UNCHANGED events
       ELSE Returns(ic, Stopping(ic)) /\ UNCHANGED <<events, dirty>>
    /\ Races(ic)
    /\ UNCHANGED <<up, known, disk, log, made, bounds>>

(* Under the lock: what there is to write, and nothing dirty any more. *)
FlushSnapshot(ic) ==
    /\ Called(ic)
    /\ LET i == ic[1] IN
       IF dirty[i] \/ events[i] # {}
       THEN /\ Begins(ic)
            /\ events' = [events EXCEPT ![i] = {}]
            /\ dirty' = [dirty EXCEPT ![i] = FALSE]
       ELSE Returns(ic, Stopping(ic)) /\ UNCHANGED <<events, dirty>>
    /\ Races(ic)
    /\ UNCHANGED <<up, known, disk, log, made, bounds>>

InUse == {json, tmp} \cup {flush[ic].file : ic \in Instance \X Caller}

\* Mutant: state.json itself is opened, not a temporary file.
OpenTmpInPlace(ic) ==
    /\ flush[ic].pc = "open"
    /\ flush' = [flush EXCEPT ![ic].pc = "write", ![ic].file = json]
    /\ content' = [content EXCEPT ![json] = Empty]
    /\ UNCHANGED <<memory, json, tmp, log, history, bounds>>

(* writeFileAtomic: os.WriteFile opens and truncates the temporary file... *)
OpenTmp(ic) ==
    /\ flush[ic].pc = "open"
    /\ \E f \in IF tmp = NoFile THEN Inode \ InUse ELSE {tmp} :
          /\ \A g \in Inode \ InUse : tmp = NoFile => f <= g
          /\ tmp' = f
          /\ flush' = [flush EXCEPT ![ic].pc = "write", ![ic].file = f]
          /\ content' = [content EXCEPT ![f] = Empty]
    /\ UNCHANGED <<memory, json, log, history, bounds>>

(* ...and writes it, over what another flush may have written since... *)
WriteTmp(ic) ==
    /\ Step(ic, "write", "rename")
    /\ LET f == flush[ic].file IN
       \E c \in {Whole(flush[ic].state)}
                   \cup (IF content[f].kind = "empty" THEN {}
                         ELSE {[kind |-> "mixed", state |-> {}]}) :
          content' = [content EXCEPT ![f] = c]
    /\ UNCHANGED <<memory, json, tmp, log, history, bounds>>

(* ...which may fail, and leaves it at that... *)
WriteFails(ic) ==
    /\ Step(ic, "write", "append")
    /\ fails < MaxFail /\ fails' = fails + 1
    /\ UNCHANGED <<memory, disk, log, history, stops, crashes>>

\* Mutant: a rename that finds no file is not noticed.
RenameTmpUnchecked(ic) ==
    /\ Step(ic, "rename", "append")
    /\ json' = tmp
    /\ tmp' = NoFile
    /\ UNCHANGED <<memory, content, log, history, bounds>>

(* ...then the name: of whatever has the temporary one by now. *)
RenameTmp(ic) ==
    /\ Step(ic, "rename", "append")
    /\ json' = IF tmp = NoFile THEN json ELSE tmp
    /\ tmp' = NoFile
    /\ UNCHANGED <<memory, content, log, history, bounds>>

\* Mutant: dirty is cleared when the flush is done, not when it begins.
AppendEventsClearsDirty(ic) ==
    /\ flush[ic].pc = "append"
    /\ log' = [c \in Change |-> IF c \in flush[ic].events THEN log[c] + 1 ELSE log[c]]
    /\ Returns(ic, flush[ic].last)
    /\ dirty' = [dirty EXCEPT ![ic[1]] = FALSE]
    /\ UNCHANGED <<up, known, events, disk, history, bounds>>

(* appendEventLines. *)
AppendEvents(ic) ==
    /\ flush[ic].pc = "append"
    /\ log' = [c \in Change |-> IF c \in flush[ic].events THEN log[c] + 1 ELSE log[c]]
    /\ Returns(ic, flush[ic].last)
    /\ UNCHANGED <<memory, disk, history, bounds>>

FlushStep(ic) ==
    \/ FlushSnapshot(ic)
    \/ OpenTmp(ic)
    \/ WriteTmp(ic)
    \/ WriteFails(ic)
    \/ RenameTmp(ic)
    \/ AppendEvents(ic)

-----------------------------------------------------------------------------
(* Shutdown closes stop and flushes; the process ends when it returns. *)
Stop(i) ==
    /\ up[i] = "running" /\ stops < MaxStop
    /\ stops' = stops + 1
    /\ up' = [up EXCEPT ![i] = "stopping"]
    /\ UNCHANGED <<known, dirty, events, flush, disk, log, history, fails, crashes>>

Dies ==
    /\ up' = [i \in Instance |-> IF Alive(i) THEN "gone" ELSE up[i]]
    /\ dirty' = [i \in Instance |-> FALSE]
    /\ events' = [i \in Instance |-> {}]
    /\ flush' = [ic \in Instance \X Caller |-> NotFlushing]
    /\ UNCHANGED <<known, disk, log, history>>

Exit(i) ==
    /\ flush[<<i, "shutdown">>].pc = "returned"
    /\ Dies
    /\ UNCHANGED bounds

Crash ==
    /\ crashes < MaxCrash
    /\ \E i \in Instance : Alive(i)
    /\ crashes' = crashes + 1
    /\ Dies
    /\ UNCHANGED <<stops, fails>>

Next ==
    \/ \E i \in Instance : Load(i) \/ Record(i) \/ Stop(i) \/ Exit(i)
    \/ \E ic \in Instance \X Caller : FlushStep(ic)
    \/ Crash

Spec == Init /\ [][Next]_vars

(* The ticker fires and a flush in progress goes on; the host loads. *)
Fairness ==
    /\ \A ic \in Instance \X Caller : WF_vars(FlushStep(ic))
    /\ \A i \in Instance : WF_vars(Load(i))

FairSpec == Spec /\ Fairness

-----------------------------------------------------------------------------
(* writeFileAtomic with one flush at a time: state.json is always a whole  *)
(* snapshot, and never an older one than it was, whenever the process      *)
(* dies, as long as the loop is the only one to flush.                     *)
DiskNeverRegresses ==
    [][stops = 0 =>
          /\ content'[json'].kind = "whole"
          /\ content[json].state \subseteq content'[json'].state]_vars

(* Flush "drains the buffered event log": no event is written twice, by    *)
(* the loop and Shutdown between them.                                     *)
EventsLoggedOnce == \A c \in Change : log[c] <= 1

(* markDirty "flags the state for the next flush": whatever an instance    *)
(* knows is in state.json sooner or later, while it runs and no write has  *)
(* failed.                                                                 *)
ChangeIsSaved ==
    \A i \in Instance, c \in Change :
        (up[i] = "running" /\ c \in known[i])
            ~> (\/ content[json].kind = "whole" /\ c \in content[json].state
                \/ up[i] # "running" \/ fails > 0)

(* "snapshot and restore carry the audit trail and the circuit breaker     *)
(* across a restart": an instance that follows orderly shutdowns starts    *)
(* with every change made before it, if no write failed and Shutdown did   *)
(* not come while the loop was flushing.                                   *)
RestartRemembers ==
    [][(~raced /\ fails = 0 /\ crashes = 0) =>
          \A i \in Instance :
              (up[i] = "absent" /\ up'[i] = "running") => known'[i] = made]_vars
=============================================================================
