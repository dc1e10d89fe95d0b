---------------------------- MODULE PersistProofs ----------------------------
(***************************************************************************)
(* No event is logged twice, for any number of instances, changes, flushes *)
(* that overlap, reloads, failed writes and crashes.  The argument: an     *)
(* event is in one place at a time, the buffer of the instance that made   *)
(* it, or one flush, or the log.                                           *)
(*                                                                         *)
(* And, where no instance is loaded beside a running one, that state.json  *)
(* is whole and never older than it was, and that a restart remembers what *)
(* was there before it: what is not on disk is on its way there or marked. *)
(***************************************************************************)
EXTENDS Persist, TLAPS

Call == Instance \X Caller

Types ==
    /\ up \in [Instance -> {"absent", "running", "stopping", "gone"}]
    /\ known \in [Instance -> SUBSET Change]
    /\ dirty \in [Instance -> BOOLEAN]
    /\ events \in [Instance -> SUBSET Change]
    /\ flush \in [Call -> Flush]
    /\ json \in Inode /\ tmp \in Inode \cup {NoFile}
    /\ content \in [Inode -> Content]
    /\ log \in [Change -> Nat]
    /\ made \subseteq Change /\ raced \in BOOLEAN
    /\ stops \in 0 .. MaxStop /\ fails \in 0 .. MaxFail /\ crashes \in 0 .. MaxCrash
    /\ \A ic \in Call : flush[ic].pc \in {"write", "rename"} => flush[ic].file \in Inode

(* Where an event may be.                                                  *)
Buffered(i, c) == c \in events[i]
Carried(ic, c) == c \in flush[ic].events

Once ==
    \A c \in Change :
        /\ log[c] <= 1
        /\ c \notin made => /\ log[c] = 0
                            /\ \A i \in Instance : ~Buffered(i, c)
                            /\ \A ic \in Call : ~Carried(ic, c)
        /\ \A i \in Instance : Buffered(i, c) =>
              /\ log[c] = 0
              /\ \A j \in Instance \ {i} : ~Buffered(j, c)
              /\ \A ic \in Call : ~Carried(ic, c)
        /\ \A ic \in Call : Carried(ic, c) =>
              /\ log[c] = 0
              /\ \A jc \in Call \ {ic} : ~Carried(jc, c)

IInv == Types /\ Once

LEMMA InitInv ==
    ASSUME Init
    PROVE  IInv
<1>1. NotFlushing \in Flush /\ NotFlushing.events = {} /\ NotFlushing.pc = "idle"
  BY DEF NotFlushing, Flush
<1>2. Whole({}) \in Content
  BY DEF Whole, Content
<1>3. Types
  <2>1. flush \in [Call -> Flush]
    BY <1>1 DEF Init, Call
  <2>2. content \in [Inode -> Content]
    BY <1>2 DEF Init
  <2>3. json \in Inode /\ tmp \in Inode \cup {NoFile}
    BY PersistAssumption DEF Init
  <2>4. stops \in 0 .. MaxStop /\ fails \in 0 .. MaxFail /\ crashes \in 0 .. MaxCrash
    BY PersistAssumption DEF Init
  <2>5. \A ic \in Call : flush[ic].pc = "idle"
    BY <1>1 DEF Init, Call
  <2> QED
    BY <2>1, <2>2, <2>3, <2>4, <2>5 DEF Init, Types
<1>4. Once
  BY <1>1 DEF Init, Once, Call, Buffered, Carried
<1> QED
  BY <1>3, <1>4 DEF IInv

(* Nothing about events moves.                                             *)
LEMMA EventsStay ==
    ASSUME Once, UNCHANGED <<events, log, made>>,
           \A ic \in Call : flush'[ic].events = flush[ic].events
    PROVE  Once'
  BY DEF Once, Buffered, Carried

LEMMA StoredType ==
    ASSUME Types
    PROVE  Stored \in SUBSET Change
  BY DEF Types, Stored, Content

LEMMA LoadInv ==
    ASSUME IInv, NEW i \in Instance, Load(i)
    PROVE  IInv'
<1>1. Types'
  BY StoredType DEF IInv, Types, Load, disk, history, bounds
<1>2. Once'
  BY EventsStay DEF IInv, Load, history
<1> QED
  BY <1>1, <1>2 DEF IInv

LEMMA RecordInv ==
    ASSUME IInv, NEW i \in Instance, Record(i)
    PROVE  IInv'
<1>1. PICK c \in Change \ made :
        /\ made' = made \cup {c}
        /\ known' = [known EXCEPT ![i] = @ \cup {c}]
        /\ \E logged \in {{}, {c}} : events' = [events EXCEPT ![i] = @ \cup logged]
  BY DEF Record
<1>2. PICK logged \in {{}, {c}} : events' = [events EXCEPT ![i] = @ \cup logged]
  BY <1>1
<1>3. logged \subseteq {c}
  BY <1>2
<1>4. /\ dirty' = [dirty EXCEPT ![i] = TRUE]
      /\ UNCHANGED <<up, flush, json, tmp, content, log, raced, stops, fails, crashes>>
  BY DEF Record, disk, bounds
<1>5. Types'
  <2>1. known'  \in [Instance -> SUBSET Change] /\ events' \in [Instance -> SUBSET Change]
    BY <1>1, <1>2, <1>3 DEF IInv, Types
  <2> QED
    BY <1>1, <1>4, <2>1 DEF IInv, Types
<1>6. ASSUME NEW d \in Change, NEW j \in Instance
      PROVE  Buffered(j, d)' => Buffered(j, d) \/ (d = c /\ j = i)
  BY <1>2, <1>3 DEF IInv, Types, Buffered
<1>7. \A d \in Change, ic \in Call : Carried(ic, d)' = Carried(ic, d)
  BY <1>4 DEF Carried
<1>8. Once'
  BY <1>1, <1>4, <1>6, <1>7 DEF IInv, Once
<1> QED
  BY <1>5, <1>8 DEF IInv

LEMMA StopInv ==
    ASSUME IInv, NEW i \in Instance, Stop(i)
    PROVE  IInv'
<1>1. stops + 1 \in 0 .. MaxStop
  BY PersistAssumption DEF Stop, IInv, Types
<1>2. Types'
  BY <1>1 DEF IInv, Types, Stop, disk, history
<1>3. Once'
  BY EventsStay DEF IInv, Stop, history
<1> QED
  BY <1>2, <1>3 DEF IInv

(* A death only loses events.                                              *)
LEMMA DiesInv ==
    ASSUME IInv, Dies, UNCHANGED <<stops, fails>>,
           crashes' \in 0 .. MaxCrash
    PROVE  IInv'
<1>1. NotFlushing \in Flush /\ NotFlushing.events = {} /\ NotFlushing.pc = "idle"
  BY DEF NotFlushing, Flush
<1>2. flush' = [ic \in Call |-> NotFlushing] /\ events' = [i \in Instance |-> {}]
  BY DEF Dies, Call
<1>3. Types'
  BY <1>1, <1>2 DEF IInv, Types, Dies, disk, history
<1>4. Once'
  BY <1>1, <1>2 DEF IInv, Once, Dies, history, Buffered, Carried
<1> QED
  BY <1>3, <1>4 DEF IInv

-----------------------------------------------------------------------------
LEMMA ReturnsType ==
    ASSUME Types, NEW ic \in Call, NEW last \in BOOLEAN, Returns(ic, last)
    PROVE  /\ flush' \in [Call -> Flush]
           /\ \A jc \in Call : flush'[jc].pc \in {"write", "rename"} => flush'[jc].file \in Inode
           /\ flush'[ic].events = {}
           /\ \A jc \in Call \ {ic} : flush'[jc] = flush[jc]
<1> DEFINE r == [NotFlushing EXCEPT !.pc = IF last THEN "returned" ELSE "idle"]
<1>1. r \in Flush /\ r.events = {} /\ r.pc \notin {"write", "rename"}
  BY DEF NotFlushing, Flush
<1>2. flush' = [flush EXCEPT ![ic] = r]
  BY DEF Returns
<1> HIDE DEF r
<1> QED
  BY <1>1, <1>2 DEF Types

LEMMA SnapshotInv ==
    ASSUME IInv, NEW ic \in Call, FlushSnapshot(ic)
    PROVE  IInv'
<1> DEFINE i == ic[1]
<1>1. i \in Instance /\ Stopping(ic) \in BOOLEAN /\ raced' \in BOOLEAN
  BY DEF Call, Stopping, FlushSnapshot, Races, IInv, Types
<1>2. UNCHANGED <<up, known, json, tmp, content, log, made, stops, fails, crashes>>
  BY DEF FlushSnapshot, disk, bounds
<1>3. CASE Begins(ic) /\ events' = [events EXCEPT ![i] = {}]
             /\ dirty' = [dirty EXCEPT ![i] = FALSE]
  <2> DEFINE f == [pc |-> "open", state |-> known[i], events |-> events[i],
                   file |-> NoFile, last |-> Stopping(ic)]
  <2>1. f \in Flush /\ f.events = events[i] /\ f.pc = "open"
    BY <1>1 DEF IInv, Types, Flush
  <2>2. flush' = [flush EXCEPT ![ic] = f]
    BY <1>3 DEF Begins
  <2> HIDE DEF f
  <2>3. Types'
    BY <1>1, <1>2, <1>3, <2>1, <2>2 DEF IInv, Types
  <2>4. ASSUME NEW c \in Change
        PROVE  /\ \A j \in Instance : Buffered(j, c)' <=> (Buffered(j, c) /\ j # i)
               /\ Carried(ic, c)' <=> Buffered(i, c)
               /\ \A jc \in Call \ {ic} : Carried(jc, c)' <=> Carried(jc, c)
    BY <1>1, <1>3, <2>1, <2>2 DEF IInv, Types, Buffered, Carried
  <2>5. Once'
    BY <1>1, <1>2, <2>4 DEF IInv, Once
  <2> QED
    BY <2>3, <2>5 DEF IInv
<1>4. CASE Returns(ic, Stopping(ic)) /\ UNCHANGED <<events, dirty>>
  <2>1. Types'
    BY <1>1, <1>2, <1>4, ReturnsType DEF IInv, Types
  <2>2. ASSUME NEW c \in Change
        PROVE  /\ \A j \in Instance : Buffered(j, c)' <=> Buffered(j, c)
               /\ ~Carried(ic, c)'
               /\ \A jc \in Call \ {ic} : Carried(jc, c)' <=> Carried(jc, c)
    BY <1>1, <1>4, ReturnsType DEF IInv, Buffered, Carried
  <2>3. Once'
    BY <1>2, <2>2 DEF IInv, Once
  <2> QED
    BY <2>1, <2>3 DEF IInv
<1> QED
  BY <1>3, <1>4 DEF FlushSnapshot

(* The steps in between move files and the place of one flush.             *)
LEMMA FileStepInv ==
    ASSUME IInv, NEW ic \in Call,
           OpenTmp(ic) \/ WriteTmp(ic) \/ WriteFails(ic) \/ RenameTmp(ic)
    PROVE  IInv'
<1> USE DEF IInv
<1>1. UNCHANGED <<events, log, made>>
  BY DEF OpenTmp, WriteTmp, WriteFails, RenameTmp, memory, history
<1>2. Types' /\ \A jc \in Call : flush'[jc].events = flush[jc].events
  <2>1. CASE OpenTmp(ic)
    <3>1. PICK f \in IF tmp = NoFile THEN Inode \ InUse ELSE {tmp} :
            /\ tmp' = f
            /\ flush' = [flush EXCEPT ![ic].pc = "write", ![ic].file = f]
            /\ content' = [content EXCEPT ![f] = Empty]
      BY <2>1 DEF OpenTmp
    <3>2. f \in Inode /\ Empty \in Content
      BY <3>1 DEF Types, Empty, Content
    <3>3. /\ flush' \in [Call -> Flush] /\ flush'[ic].file = f
          /\ flush'[ic].events = flush[ic].events
          /\ \A jc \in Call \ {ic} : flush'[jc] = flush[jc]
      BY <3>1, <3>2 DEF Types, Flush
    <3> QED
      BY <2>1, <3>1, <3>2, <3>3 DEF Types, OpenTmp, memory, history, bounds
  <2>2. CASE WriteTmp(ic)
    <3>1. PICK c \in {Whole(flush[ic].state)} \cup {[kind |-> "mixed", state |-> {}]} :
            content' = [content EXCEPT ![flush[ic].file] = c]
      BY <2>2 DEF WriteTmp
    <3>2. c \in Content
      BY DEF Types, Whole, Content, Flush
    <3>3. /\ flush' \in [Call -> Flush] /\ flush'[ic].file = flush[ic].file
          /\ flush[ic].file \in Inode
          /\ flush'[ic].events = flush[ic].events
          /\ \A jc \in Call \ {ic} : flush'[jc] = flush[jc]
      BY <2>2 DEF WriteTmp, Step, Types, Flush
    <3> QED
      BY <2>2, <3>1, <3>2, <3>3 DEF Types, WriteTmp, memory, history, bounds
  <2>3. CASE WriteFails(ic) \/ RenameTmp(ic)
    <3>1. /\ flush' \in [Call -> Flush] /\ flush'[ic].pc = "append"
          /\ flush'[ic].events = flush[ic].events
          /\ \A jc \in Call \ {ic} : flush'[jc] = flush[jc]
      BY <2>3 DEF WriteFails, RenameTmp, Step, Types, Flush
    <3>2. fails' \in 0 .. MaxFail /\ json' \in Inode /\ tmp' \in Inode \cup {NoFile}
      BY <2>3, PersistAssumption DEF WriteFails, RenameTmp, Types, disk, bounds
    <3> QED
      BY <2>3, <3>1, <3>2 DEF Types, WriteFails, RenameTmp, memory, disk, history, bounds
  <2> QED
    BY <2>1, <2>2, <2>3
<1> QED
  BY <1>1, <1>2, EventsStay

LEMMA AppendInv ==
    ASSUME IInv, NEW ic \in Call, AppendEvents(ic)
    PROVE  IInv'
<1>1. flush[ic].last \in BOOLEAN
  BY DEF IInv, Types, Flush
<1>2. /\ Returns(ic, flush[ic].last)
      /\ log' = [c \in Change |-> IF c \in flush[ic].events THEN log[c] + 1 ELSE log[c]]
      /\ UNCHANGED <<up, known, dirty, events, json, tmp, content, made, raced, stops,
                     fails, crashes>>
  BY DEF AppendEvents, memory, disk, history, bounds
<1>3. Types'
  BY <1>1, <1>2, ReturnsType DEF IInv, Types
<1>4. ASSUME NEW c \in Change
      PROVE  /\ log'[c] = IF Carried(ic, c) THEN log[c] + 1 ELSE log[c]
             /\ \A j \in Instance : Buffered(j, c)' <=> Buffered(j, c)
             /\ ~Carried(ic, c)'
             /\ \A jc \in Call \ {ic} : Carried(jc, c)' <=> Carried(jc, c)
  BY <1>1, <1>2, ReturnsType DEF IInv, Buffered, Carried
<1>5. Once'
  BY <1>2, <1>4 DEF IInv, Types, Once
<1> QED
  BY <1>3, <1>5 DEF IInv

LEMMA StepInv ==
    ASSUME IInv, [Next]_vars
    PROVE  IInv'
<1>1. ASSUME NEW i \in Instance, Exit(i)
      PROVE  IInv'
  BY <1>1, DiesInv DEF Exit, bounds, IInv, Types
<1>2. CASE Crash
  <2>1. crashes' \in 0 .. MaxCrash
    BY <1>2, PersistAssumption DEF Crash, IInv, Types
  <2> QED
    BY <1>2, <2>1, DiesInv DEF Crash
<1>3. CASE UNCHANGED vars
  <2>1. Types'
    BY <1>3 DEF vars, IInv, Types
  <2>2. Once'
    BY <1>3, EventsStay DEF vars, IInv
  <2> QED
    BY <2>1, <2>2 DEF IInv
<1> QED
  BY <1>1, <1>2, <1>3, LoadInv, RecordInv, StopInv, SnapshotInv, FileStepInv, AppendInv
     DEF Next, FlushStep, Call

LEMMA InvImplies ==
    ASSUME IInv
    PROVE  TypeOK /\ EventsLoggedOnce
  BY DEF IInv, Types, Once, TypeOK, EventsLoggedOnce, Call

(* Every state of persistence is well typed.                               *)
THEOREM TypeCorrect ==
    Spec => []TypeOK
<1>1. Init => IInv
  BY InitInv
<1>2. IInv /\ [Next]_vars => IInv'
  BY StepInv
<1>3. IInv => TypeOK
  BY InvImplies
<1> QED
  BY <1>1, <1>2, <1>3, PTL DEF Spec

(* Flush "drains the buffered event log": between any number of flushes,   *)
(* reloads and crashes no event is written twice.                          *)
THEOREM NoEventTwice ==
    Spec => []EventsLoggedOnce
<1>1. Init => IInv
  BY InitInv
<1>2. IInv /\ [Next]_vars => IInv'
  BY StepInv
<1>3. IInv => EventsLoggedOnce
  BY InvImplies
<1> QED
  BY <1>1, <1>2, <1>3, PTL DEF Spec

-----------------------------------------------------------------------------
(* What is on disk, when no instance is loaded beside a running one. *)

Busy(ic) == flush[ic].pc \notin {"idle", "returned"}
Saving(ic) == flush[ic].pc \in {"open", "write", "rename"}

(* One instance at a time, and only a live one flushes.                    *)
Solo ==
    /\ \A i, j \in Instance : Alive(i) /\ Alive(j) => i = j
    /\ \A ic \in Call : flush[ic].pc # "idle" => Alive(ic[1])

(* Until it is told to stop, only the loop flushes.                        *)
LoopAlone ==
    stops = 0 =>
        /\ ~raced
        /\ \A i \in Instance : up[i] # "stopping"
        /\ \A ic \in Call : flush[ic].pc # "idle" => ic[2] = "loop"

(* One flush at a time: the file named state.json is never the one being   *)
(* written, what is being written is no older, and what is about to be     *)
(* given its name is all there.                                            *)
OneFlush == \A ic, jc \in Call : Busy(ic) /\ Busy(jc) => ic = jc

DiskIsWhole == content[json].kind = "whole" /\ tmp # json

DiskIsBehind ==
    /\ \A i \in Instance : Alive(i) => content[json].state \subseteq known[i]
    /\ \A ic \in Call : Saving(ic) =>
          /\ content[json].state \subseteq flush[ic].state
          /\ flush[ic].state \subseteq known[ic[1]]

TmpIsOwn ==
    \A ic \in Call :
        /\ flush[ic].pc \in {"write", "rename"} => flush[ic].file = tmp
        /\ flush[ic].pc = "write" => content[tmp].kind = "empty"
        /\ flush[ic].pc = "rename" => content[tmp] = Whole(flush[ic].state)

DiskInv == ~raced => OneFlush /\ DiskIsWhole /\ DiskIsBehind /\ TmpIsOwn

(* With orderly shutdowns and no failed write nothing is lost: what is not *)
(* on disk is marked dirty or on its way there, and nothing is either once *)
(* Shutdown has flushed.                                                   *)
Orderly == ~raced /\ fails = 0 /\ crashes = 0

NothingLost ==
    /\ (\A i \in Instance : ~Alive(i)) => content[json].state = made
    /\ \A i \in Instance : Alive(i) =>
          /\ known[i] = made
          /\ ~dirty[i] /\ (\A c \in Caller : ~Saving(<<i, c>>)) => content[json].state = made
    /\ \A ic \in Call : Saving(ic) => flush[ic].state = made \/ dirty[ic[1]]

ShutdownSaves ==
    \A i \in Instance :
        /\ flush[<<i, "shutdown">>].pc # "idle" => up[i] = "stopping" /\ ~dirty[i]
        /\ flush[<<i, "shutdown">>].pc = "returned" => content[json].state = made

KeptInv == Orderly => NothingLost /\ ShutdownSaves

LEMMA Pairs ==
    /\ \A ic \in Call : ic[1] \in Instance /\ ic[2] \in Caller /\ ic = <<ic[1], ic[2]>>
    /\ \A i \in Instance, c \in Caller : <<i, c>> \in Call /\ <<i, c>>[1] = i /\ <<i, c>>[2] = c
    /\ \A ic, jc \in Call : ic[1] = jc[1] /\ ic[2] = jc[2] => ic = jc
  BY DEF Call

(* What the steps of a flush do, as far as what is on disk goes.           *)
LEMMA SnapshotEffect ==
    ASSUME Types, NEW ic \in Call, FlushSnapshot(ic)
    PROVE  /\ flush[ic].pc = "idle" /\ Alive(ic[1])
           /\ stops = 0 => ic[2] = "loop" \/ Stopping(ic)
           /\ UNCHANGED <<up, known, json, tmp, content, made, stops, fails, crashes>>
           /\ \A jc \in Call \ {ic} : flush'[jc] = flush[jc]
           /\ \/ /\ flush'[ic].pc = "open" /\ flush'[ic].state = known[ic[1]]
                 /\ dirty' = [dirty EXCEPT ![ic[1]] = FALSE]
              \/ /\ flush'[ic].pc = IF Stopping(ic) THEN "returned" ELSE "idle"
                 /\ ~dirty[ic[1]] /\ UNCHANGED dirty
           /\ ic[2] = "shutdown" => Stopping(ic)
<1> DEFINE i == ic[1]
<1>1. i \in Instance /\ Stopping(ic) \in BOOLEAN
  BY Pairs DEF Stopping
<1>2. /\ flush[ic].pc = "idle"
      /\ Stopping(ic) \/ (up[i] = "running" /\ ic[2] = "loop")
      /\ UNCHANGED <<up, known, json, tmp, content, made, stops, fails, crashes>>
  BY DEF FlushSnapshot, Called, disk, bounds
<1>3. Alive(i)
  BY <1>2 DEF Alive, Stopping
<1>4. CASE Begins(ic) /\ dirty' = [dirty EXCEPT ![i] = FALSE]
  <2>1. /\ flush'[ic].pc = "open" /\ flush'[ic].state = known[i]
        /\ \A jc \in Call \ {ic} : flush'[jc] = flush[jc]
    BY <1>4 DEF Begins, Types
  <2> QED
    BY <1>2, <1>3, <1>4, <2>1
<1>5. CASE Returns(ic, Stopping(ic)) /\ UNCHANGED <<events, dirty>> /\ ~dirty[i]
  <2>1. /\ flush'[ic].pc = IF Stopping(ic) THEN "returned" ELSE "idle"
        /\ \A jc \in Call \ {ic} : flush'[jc] = flush[jc]
    BY <1>5 DEF Returns, Types, NotFlushing
  <2> QED
    BY <1>2, <1>3, <1>5, <2>1
<1> QED
  BY <1>4, <1>5 DEF FlushSnapshot

LEMMA OpenEffect ==
    ASSUME Types, NEW ic \in Call, OpenTmp(ic)
    PROVE  /\ flush[ic].pc = "open" /\ flush'[ic].pc = "write"
           /\ flush'[ic].file = tmp' /\ flush'[ic].state = flush[ic].state
           /\ \A jc \in Call \ {ic} : flush'[jc] = flush[jc]
           /\ tmp # json => tmp' # json /\ content'[json] = content[json]
           /\ tmp' \in Inode /\ content'[tmp'].kind = "empty"
           /\ UNCHANGED <<up, known, dirty, json, made, raced, stops, fails, crashes>>
<1>1. PICK f \in IF tmp = NoFile THEN Inode \ InUse ELSE {tmp} :
        /\ tmp' = f
        /\ flush' = [flush EXCEPT ![ic].pc = "write", ![ic].file = f]
        /\ content' = [content EXCEPT ![f] = Empty]
  BY DEF OpenTmp
<1>2. f \in Inode /\ (tmp # json => f # json)
  BY <1>1 DEF Types, InUse
<1>3. /\ flush'[ic].pc = "write" /\ flush'[ic].file = f /\ flush'[ic].state = flush[ic].state
      /\ \A jc \in Call \ {ic} : flush'[jc] = flush[jc]
  BY <1>1 DEF Types, Flush
<1> QED
  BY <1>1, <1>2, <1>3 DEF OpenTmp, Empty, Types, memory, history, bounds

LEMMA WriteEffect ==
    ASSUME Types, NEW ic \in Call, WriteTmp(ic)
    PROVE  /\ flush[ic].pc = "write" /\ flush'[ic].pc = "rename"
           /\ flush'[ic].file = flush[ic].file /\ flush'[ic].state = flush[ic].state
           /\ \A jc \in Call \ {ic} : flush'[jc] = flush[jc]
           /\ \A f \in Inode \ {flush[ic].file} : content'[f] = content[f]
           /\ content[flush[ic].file].kind = "empty" =>
                 content'[flush[ic].file] = Whole(flush[ic].state)
           /\ UNCHANGED <<up, known, dirty, json, tmp, made, raced, stops, fails, crashes>>
<1>1. PICK c \in {Whole(flush[ic].state)}
                     \cup (IF content[flush[ic].file].kind = "empty" THEN {}
                           ELSE {[kind |-> "mixed", state |-> {}]}) :
        content' = [content EXCEPT ![flush[ic].file] = c]
  BY DEF WriteTmp
<1>2. /\ flush'[ic].pc = "rename" /\ flush'[ic].file = flush[ic].file
      /\ flush'[ic].state = flush[ic].state /\ flush[ic].file \in Inode
      /\ \A jc \in Call \ {ic} : flush'[jc] = flush[jc]
  BY DEF WriteTmp, Step, Types, Flush
<1> QED
  BY <1>1, <1>2 DEF WriteTmp, Step, Types, memory, history, bounds

LEMMA RenameEffect ==
    ASSUME Types, NEW ic \in Call, RenameTmp(ic) \/ WriteFails(ic)
    PROVE  /\ flush[ic].pc \in {"write", "rename"} /\ flush'[ic].pc = "append"
           /\ \A jc \in Call \ {ic} : flush'[jc] = flush[jc]
           /\ \/ /\ RenameTmp(ic) /\ flush[ic].pc = "rename" /\ tmp' = NoFile
                 /\ json' = IF tmp = NoFile THEN json ELSE tmp
                 /\ UNCHANGED fails
              \/ WriteFails(ic) /\ UNCHANGED <<json, tmp>> /\ fails' = fails + 1
           /\ UNCHANGED <<up, known, dirty, content, made, raced, stops, crashes>>
<1>1. /\ flush'[ic].pc = "append"
      /\ \A jc \in Call \ {ic} : flush'[jc] = flush[jc]
  BY DEF RenameTmp, WriteFails, Step, Types, Flush
<1> QED
  BY <1>1 DEF RenameTmp, WriteFails, Step, memory, disk, history, bounds

LEMMA AppendEffect ==
    ASSUME Types, NEW ic \in Call, AppendEvents(ic)
    PROVE  /\ flush[ic].pc = "append"
           /\ flush'[ic].pc = IF flush[ic].last THEN "returned" ELSE "idle"
           /\ \A jc \in Call \ {ic} : flush'[jc] = flush[jc]
           /\ UNCHANGED <<up, known, dirty, json, tmp, content, made, raced, stops, fails, crashes>>
<1>1. /\ flush'[ic].pc = IF flush[ic].last THEN "returned" ELSE "idle"
      /\ \A jc \in Call \ {ic} : flush'[jc] = flush[jc]
  BY DEF AppendEvents, Returns, Types, NotFlushing
<1> QED
  BY <1>1 DEF AppendEvents, memory, disk, history, bounds

LEMMA DiesEffect ==
    ASSUME Dies
    PROVE  /\ \A i \in Instance : ~Alive(i)' /\ up'[i] # "stopping"
           /\ \A ic \in Call : flush'[ic].pc = "idle"
           /\ UNCHANGED <<json, tmp, content, made, raced>>
  BY DEF Dies, Alive, NotFlushing, Call, disk, history

(* A flush that goes on belongs to a live instance.                        *)
LEMMA FlushAlive ==
    ASSUME Types, Solo, NEW ic \in Call, FlushStep(ic)
    PROVE  Alive(ic[1]) /\ UNCHANGED <<up, known, made, stops>>
<1>1. CASE FlushSnapshot(ic)
  BY <1>1, SnapshotEffect
<1>2. CASE OpenTmp(ic)
  BY <1>2, OpenEffect DEF Solo
<1>3. CASE WriteTmp(ic)
  BY <1>3, WriteEffect DEF Solo
<1>4. CASE RenameTmp(ic) \/ WriteFails(ic)
  BY <1>4, RenameEffect DEF Solo
<1>5. CASE AppendEvents(ic)
  BY <1>5, AppendEffect DEF Solo
<1> QED
  BY <1>1, <1>2, <1>3, <1>4, <1>5 DEF FlushStep

LEMMA FlushElsewhere ==
    ASSUME Types, NEW ic \in Call, FlushStep(ic)
    PROVE  \A jc \in Call \ {ic} : flush'[jc] = flush[jc]
  BY SnapshotEffect, OpenEffect, WriteEffect, RenameEffect, AppendEffect DEF FlushStep

-----------------------------------------------------------------------------
LEMMA SoloStep ==
    ASSUME Reloads = FALSE, IInv, Solo, [Next]_vars
    PROVE  Solo'
<1> USE DEF IInv
<1>1. ASSUME NEW i \in Instance, Load(i)
      PROVE  Solo'
  <2>1. \A j \in Instance : ~Alive(j)
    BY <1>1 DEF Load
  <2>2. \A j \in Instance : Alive(j)' => j = i
    BY <1>1, <2>1 DEF Load, Alive, Types
  <2>3. \A ic \in Call : flush'[ic].pc = "idle"
    BY <1>1, <2>1, Pairs DEF Load, Solo
  <2> QED
    BY <2>2, <2>3 DEF Solo
<1>2. ASSUME NEW i \in Instance, Record(i) \/ Stop(i)
      PROVE  Solo'
  <2>1. \A j \in Instance : Alive(j)' = Alive(j)
    BY <1>2 DEF Record, Stop, Alive, Types
  <2> QED
    BY <1>2, <2>1, Pairs DEF Record, Stop, Solo
<1>3. ASSUME NEW i \in Instance, Exit(i)
      PROVE  Solo'
  BY <1>3, DiesEffect DEF Exit, Solo
<1>4. CASE Crash
  BY <1>4, DiesEffect DEF Crash, Solo
<1>5. ASSUME NEW ic \in Call, FlushStep(ic)
      PROVE  Solo'
  BY <1>5, FlushAlive, FlushElsewhere DEF Solo, Alive
<1>6. CASE UNCHANGED vars
  BY <1>6 DEF vars, Solo, Alive
<1> QED
  BY <1>1, <1>2, <1>3, <1>4, <1>5, <1>6 DEF Next, Call

LEMMA LoopAloneStep ==
    ASSUME IInv, LoopAlone, [Next]_vars
    PROVE  LoopAlone'
<1> USE DEF IInv, LoopAlone
<1> SUFFICES ASSUME stops' = 0
             PROVE  /\ ~raced'
                    /\ \A i \in Instance : up'[i] # "stopping"
                    /\ \A ic \in Call : flush'[ic].pc # "idle" => ic[2] = "loop"
  OBVIOUS
<1>1. \A i \in Instance : ~Stop(i)
  BY PersistAssumption DEF Stop, Types
<1>2. ASSUME NEW i \in Instance, Load(i) \/ Record(i)
      PROVE  LoopAlone'
  BY <1>2 DEF Load, Record, history, bounds, Types
<1>3. ASSUME NEW i \in Instance, Exit(i)
      PROVE  LoopAlone'
  BY <1>3, DiesEffect DEF Exit, bounds
<1>4. CASE Crash
  BY <1>4, DiesEffect DEF Crash
<1>5. ASSUME NEW ic \in Call, FlushStep(ic)
      PROVE  LoopAlone'
  <2>1. CASE FlushSnapshot(ic)
    <3>1. ic[2] = "loop" /\ stops = 0 /\ UNCHANGED up
      BY <1>5, <2>1, SnapshotEffect, Pairs DEF Stopping
    <3>2. \A c \in Caller \ {"loop"} : flush[<<ic[1], c>>].pc = "idle"
      BY <3>1, Pairs
    <3>3. ~raced'
      BY <2>1, <3>1, <3>2 DEF FlushSnapshot, Races
    <3> QED
      BY <3>1, <3>3, <1>5, FlushElsewhere
  <2>2. CASE ~FlushSnapshot(ic)
    <3>1. /\ flush[ic].pc # "idle" /\ UNCHANGED <<raced, up, stops>>
      BY <1>5, <2>2, OpenEffect, WriteEffect, RenameEffect, AppendEffect DEF FlushStep
    <3> QED
      BY <3>1, <1>5, FlushElsewhere
  <2> QED
    BY <2>1, <2>2
<1>6. CASE UNCHANGED vars
  BY <1>6 DEF vars
<1> QED
  BY <1>1, <1>2, <1>3, <1>4, <1>5, <1>6 DEF Next, Call

LEMMA DiskFlush ==
    ASSUME IInv, Solo, DiskInv, NEW ic \in Call, FlushStep(ic), ~raced'
    PROVE  OneFlush' /\ DiskIsWhole' /\ DiskIsBehind' /\ TmpIsOwn'
<1> USE DEF IInv
<1>1. ~raced
  BY OpenEffect, WriteEffect, RenameEffect, AppendEffect DEF FlushStep, FlushSnapshot, Races
<1>2. OneFlush /\ DiskIsWhole /\ DiskIsBehind /\ TmpIsOwn
  BY <1>1 DEF DiskInv
<1>3. \A jc \in Call \ {ic} : flush'[jc] = flush[jc]
  BY FlushElsewhere
<1>4. \A jc \in Call \ {ic} : ~Busy(jc)
  <2>1. CASE FlushSnapshot(ic)
    <3>1. \A c \in Caller \ {ic[2]} : ~Busy(<<ic[1], c>>)
      BY <2>1 DEF FlushSnapshot, Races, Busy
    <3>2. ASSUME NEW jc \in Call \ {ic}
          PROVE  ~Busy(jc)
      <4>1. CASE jc[1] = ic[1]
        <5>1. jc[2] \in Caller \ {ic[2]} /\ jc = <<ic[1], jc[2]>>
          BY <4>1, Pairs
        <5> QED
          BY <3>1, <5>1
      <4>2. CASE jc[1] # ic[1]
        BY <2>1, <4>2, SnapshotEffect, Pairs DEF Solo, Busy
      <4> QED
        BY <4>1, <4>2
    <3> QED
      BY <3>2
  <2>2. CASE ~FlushSnapshot(ic)
    <3>1. Busy(ic)
      BY <2>2, OpenEffect, WriteEffect, RenameEffect, AppendEffect DEF FlushStep, Busy
    <3> QED
      BY <3>1, <1>2 DEF OneFlush
  <2> QED
    BY <2>1, <2>2
<1>5. \A jc \in Call \ {ic} : ~Busy(jc)' /\ ~Saving(jc)'
  BY <1>3, <1>4 DEF Busy, Saving
<1>6. OneFlush'
  BY <1>5 DEF OneFlush
<1>7. Alive(ic[1]) /\ UNCHANGED <<up, known>> /\ \A i \in Instance : Alive(i) => i = ic[1]
  BY FlushAlive, Pairs DEF Solo
<1> USE DEF DiskIsWhole, DiskIsBehind, TmpIsOwn
<1>8. CASE FlushSnapshot(ic)
  <2>1. /\ UNCHANGED <<json, tmp, content>>
        /\ \/ flush'[ic].pc = "open" /\ flush'[ic].state = known[ic[1]]
           \/ flush'[ic].pc \in {"idle", "returned"}
    BY <1>8, SnapshotEffect
  <2> QED
    BY <1>2, <1>3, <1>5, <1>6, <1>7, <2>1, Pairs DEF Saving, Busy, Alive
<1>9. CASE OpenTmp(ic)
  <2>1. Saving(ic) /\ DiskIsWhole'
    BY <1>2, <1>9, OpenEffect DEF Saving
  <2> QED
    BY <1>2, <1>5, <1>6, <1>7, <1>9, <2>1, OpenEffect, Pairs DEF Saving, Busy, Alive
<1>10. CASE WriteTmp(ic)
  <2>1. Saving(ic) /\ flush[ic].file = tmp /\ content[tmp].kind = "empty" /\ tmp \in Inode
    BY <1>2, <1>10, WriteEffect DEF Saving, Types
  <2>2. content'[json] = content[json] /\ content'[tmp] = Whole(flush[ic].state)
    BY <1>2, <1>10, <2>1, WriteEffect DEF Types
  <2> QED
    BY <1>2, <1>5, <1>6, <1>7, <1>10, <2>1, <2>2, WriteEffect, Pairs DEF Saving, Busy, Alive
<1>11. CASE RenameTmp(ic) \/ WriteFails(ic)
  <2>1. flush'[ic].pc = "append" /\ UNCHANGED content
    BY <1>11, RenameEffect
  <2>2. DiskIsWhole' /\ \A i \in Instance : Alive(i) => content'[json'].state \subseteq known[i]
    <3>1. CASE WriteFails(ic) /\ UNCHANGED <<json, tmp>>
      BY <1>2, <2>1, <3>1
    <3>2. CASE /\ flush[ic].pc = "rename" /\ tmp' = NoFile
               /\ json' = IF tmp = NoFile THEN json ELSE tmp
      <4>1. tmp = flush[ic].file /\ tmp \in Inode /\ tmp # NoFile /\ NoFile \notin Inode
        BY <1>2, <3>2, PersistAssumption DEF Types, NoFile
      <4>2. content[tmp] = Whole(flush[ic].state) /\ flush[ic].state \subseteq known[ic[1]]
        BY <1>2, <3>2 DEF Saving
      <4> QED
        BY <1>7, <2>1, <3>2, <4>1, <4>2 DEF Whole
    <3> QED
      BY <1>11, <3>1, <3>2, RenameEffect
  <2> QED
    BY <1>5, <1>6, <1>7, <2>1, <2>2 DEF Saving, Busy, Alive
<1>12. CASE AppendEvents(ic)
  <2>1. flush'[ic].pc \in {"idle", "returned"} /\ UNCHANGED <<json, tmp, content>>
    BY <1>12, AppendEffect
  <2> QED
    BY <1>2, <1>5, <1>6, <1>7, <2>1 DEF Saving, Busy, Alive
<1> QED
  BY <1>8, <1>9, <1>10, <1>11, <1>12 DEF FlushStep

LEMMA DiskStep ==
    ASSUME Reloads = FALSE, IInv, Solo, DiskInv, [Next]_vars
    PROVE  DiskInv'
<1> USE DEF IInv, DiskIsWhole, DiskIsBehind, TmpIsOwn, OneFlush
<1> SUFFICES ASSUME ~raced'
             PROVE  OneFlush' /\ DiskIsWhole' /\ DiskIsBehind' /\ TmpIsOwn'
  BY DEF DiskInv
<1> DEFINE Goal == OneFlush' /\ DiskIsWhole' /\ DiskIsBehind' /\ TmpIsOwn'
<1>1. ASSUME NEW ic \in Call, FlushStep(ic)
      PROVE  Goal
  BY <1>1, DiskFlush
<1>2. ASSUME UNCHANGED raced
      PROVE  OneFlush /\ DiskIsWhole /\ DiskIsBehind /\ TmpIsOwn
  BY <1>2 DEF DiskInv
<1>3. ASSUME NEW i \in Instance, Load(i)
      PROVE  Goal
  <2>1. UNCHANGED <<flush, json, tmp, content, raced>> /\ \A j \in Instance : ~Alive(j)
    BY <1>3 DEF Load, disk, history
  <2>2. known'[i] = content[json].state /\ \A j \in Instance : Alive(j)' => j = i
    BY <1>2, <1>3, <2>1 DEF Load, Alive, Types, Stored
  <2>3. \A ic \in Call : ~Busy(ic)' /\ ~Saving(ic)' /\ flush'[ic].pc = "idle"
    BY <2>1, Pairs DEF Solo, Busy, Saving
  <2> QED
    BY <1>2, <2>1, <2>2, <2>3
<1>4. ASSUME NEW i \in Instance, Record(i)
      PROVE  Goal
  <2>1. UNCHANGED <<up, flush, json, tmp, content, raced>>
    BY <1>4 DEF Record, disk
  <2>2. \A j \in Instance : known[j] \subseteq known'[j]
    BY <1>4 DEF Record, Types
  <2> QED
    BY <1>2, <2>1, <2>2, Pairs DEF Busy, Saving, Alive
<1>5. ASSUME NEW i \in Instance, Stop(i)
      PROVE  Goal
  <2>1. UNCHANGED <<known, flush, json, tmp, content, raced>>
    BY <1>5 DEF Stop, disk, history
  <2>2. \A j \in Instance : Alive(j)' = Alive(j)
    BY <1>5 DEF Stop, Alive, Types
  <2> QED
    BY <1>2, <2>1, <2>2 DEF Busy, Saving
<1>6. CASE Dies
  <2>1. \A ic \in Call : ~Busy(ic)' /\ ~Saving(ic)' /\ flush'[ic].pc = "idle"
    BY <1>6, DiesEffect DEF Busy, Saving
  <2> QED
    BY <1>2, <1>6, <2>1, DiesEffect
<1>7. CASE UNCHANGED vars
  BY <1>2, <1>7 DEF vars, Busy, Saving, Alive
<1> QED
  BY <1>1, <1>3, <1>4, <1>5, <1>6, <1>7 DEF Next, Exit, Crash, Call

LEMMA KeptFlush ==
    ASSUME IInv, Solo, DiskInv, KeptInv, NEW ic \in Call, FlushStep(ic), Orderly, Orderly'
    PROVE  NothingLost' /\ ShutdownSaves'
<1> USE DEF IInv
<1> DEFINE i == ic[1]
<1>1. /\ NothingLost /\ ShutdownSaves
      /\ OneFlush /\ DiskIsWhole /\ TmpIsOwn
  BY DEF KeptInv, DiskInv, Orderly
<1>2. i \in Instance /\ Alive(i) /\ UNCHANGED <<up, known, made>>
  BY FlushAlive, Pairs
<1>3. /\ \A j \in Instance : Alive(j)' = Alive(j) /\ (Alive(j) => j = i)
      /\ known[i] = made
  BY <1>1, <1>2 DEF Solo, Alive, NothingLost
<1>4. \A jc \in Call \ {ic} : flush'[jc] = flush[jc]
  BY FlushElsewhere
<1>5. OneFlush'
  BY DiskFlush DEF Orderly
<1> SUFFICES /\ known'[i] = made
             /\ ~dirty'[i] /\ (\A c \in Caller : ~Saving(<<i, c>>)') => content'[json'].state = made
             /\ \A jc \in Call : Saving(jc)' => flush'[jc].state = made \/ dirty'[jc[1]]
             /\ \A j \in Instance :
                   /\ flush'[<<j, "shutdown">>].pc # "idle" => up[j] = "stopping" /\ ~dirty'[j]
                   /\ flush'[<<j, "shutdown">>].pc = "returned" => content'[json'].state = made
  BY <1>2, <1>3 DEF NothingLost, ShutdownSaves
<1>6. known'[i] = made
  BY <1>2, <1>3
<1>7. "shutdown" \in Caller /\ (\A j \in Instance : flush[<<j, "shutdown">>].pc # "idle" => j = i)
  BY <1>3, Pairs DEF Solo, Caller
<1>8. CASE FlushSnapshot(ic)
  <2>1. /\ UNCHANGED <<json, content>> /\ flush[ic].pc = "idle"
        /\ ic[2] = "shutdown" => up[i] = "stopping"
    BY <1>8, SnapshotEffect DEF Stopping
  <2>2. CASE /\ flush'[ic].pc = "open" /\ flush'[ic].state = known[i]
             /\ dirty' = [dirty EXCEPT ![i] = FALSE]
    <3>1. Saving(ic)' /\ \A jc \in Call \ {ic} : ~Saving(jc)'
      BY <1>5, <2>2 DEF Saving, OneFlush, Busy
    <3>2. Saving(<<i, ic[2]>>)' /\ ic[2] \in Caller
      BY <3>1, Pairs
    <3>3. ~dirty'[i] /\ \A j \in Instance \ {i} : dirty'[j] = dirty[j]
      BY <1>2, <2>2 DEF Types
    <3>4. ASSUME NEW j \in Instance
          PROVE  /\ flush'[<<j, "shutdown">>].pc # "idle" => up[j] = "stopping" /\ ~dirty'[j]
                 /\ flush'[<<j, "shutdown">>].pc = "returned" => content'[json'].state = made
      <4>1. CASE ic = <<j, "shutdown">>
        BY <2>1, <2>2, <3>3, <4>1
      <4>2. CASE ic # <<j, "shutdown">>
        <5>1. flush'[<<j, "shutdown">>] = flush[<<j, "shutdown">>]
          BY <1>4, <1>7, <4>2, Pairs
        <5> QED
          BY <1>1, <1>7, <2>1, <3>3, <5>1 DEF ShutdownSaves
      <4> QED
        BY <4>1, <4>2
    <3> QED
      BY <1>3, <1>6, <2>2, <3>1, <3>2, <3>4
  <2>3. CASE /\ flush'[ic].pc = IF Stopping(ic) THEN "returned" ELSE "idle"
             /\ ~dirty[i] /\ UNCHANGED dirty
    <3>1. \A c \in Caller : ~Saving(<<i, c>>)
      <4>1. \A c \in Caller \ {ic[2]} : ~Busy(<<i, c>>)
        BY <1>8 DEF FlushSnapshot, Races, Busy, Orderly
      <4>2. ~Busy(<<i, ic[2]>>)
        BY <2>1, Pairs DEF Busy
      <4> QED
        BY <4>1, <4>2 DEF Saving, Busy
    <3>2. content[json].state = made
      BY <1>1, <1>2, <2>3, <3>1 DEF NothingLost
    <3>3. \A jc \in Call : Saving(jc)' => Saving(jc) /\ flush'[jc].state = flush[jc].state
      BY <1>4, <2>3 DEF Saving
    <3>4. ASSUME NEW j \in Instance, flush'[<<j, "shutdown">>].pc # "idle"
          PROVE  up[j] = "stopping" /\ ~dirty'[j]
      <4>1. CASE ic = <<j, "shutdown">>
        BY <2>1, <2>3, <4>1
      <4>2. CASE ic # <<j, "shutdown">>
        <5>1. flush'[<<j, "shutdown">>] = flush[<<j, "shutdown">>]
          BY <1>4, <1>7, <4>2, Pairs
        <5> QED
          BY <1>1, <2>3, <3>4, <5>1 DEF ShutdownSaves
      <4> QED
        BY <4>1, <4>2
    <3> QED
      BY <1>1, <1>6, <2>1, <2>3, <3>2, <3>3, <3>4 DEF NothingLost
  <2> QED
    BY <1>8, <2>2, <2>3, SnapshotEffect
<1>9. ASSUME /\ content'[json'].state = content[json].state /\ UNCHANGED dirty
             /\ Saving(ic) /\ Saving(ic)' /\ flush'[ic].state = flush[ic].state
      PROVE  NothingLost' /\ ShutdownSaves'
  <2>1. \A jc \in Call : Saving(jc)' = Saving(jc) /\ flush'[jc].state = flush[jc].state
    BY <1>4, <1>9 DEF Saving
  <2>2. \A j \in Instance :
          /\ flush'[<<j, "shutdown">>].pc # "idle" => flush[<<j, "shutdown">>].pc # "idle"
          /\ flush'[<<j, "shutdown">>].pc = "returned" => flush[<<j, "shutdown">>].pc = "returned"
    BY <1>4, <1>7, <1>9, Pairs DEF Saving
  <2>3. /\ ~dirty'[i] /\ (\A c \in Caller : ~Saving(<<i, c>>)') => content'[json'].state = made
        /\ \A jc \in Call : Saving(jc)' => flush'[jc].state = made \/ dirty'[jc[1]]
    BY <1>1, <1>2, <1>9, <2>1, Pairs DEF NothingLost
  <2> QED
    BY <1>1, <1>2, <1>3, <1>6, <1>9, <2>2, <2>3 DEF ShutdownSaves, NothingLost
<1>10. CASE OpenTmp(ic)
  <2>1. NothingLost' /\ ShutdownSaves'
    BY <1>1, <1>9, <1>10, OpenEffect DEF DiskIsWhole, Saving
  <2> QED
    BY <1>2, <1>3, <2>1 DEF NothingLost, ShutdownSaves
<1>11. CASE WriteTmp(ic)
  <2>1. content'[json] = content[json]
    BY <1>1, <1>11, WriteEffect DEF DiskIsWhole, TmpIsOwn, Types
  <2>2. NothingLost' /\ ShutdownSaves'
    BY <1>9, <1>11, <2>1, WriteEffect DEF Saving
  <2> QED
    BY <1>2, <1>3, <2>2 DEF NothingLost, ShutdownSaves
<1>12. CASE RenameTmp(ic) \/ WriteFails(ic)
  <2>1. /\ flush[ic].pc = "rename" /\ flush'[ic].pc = "append"
        /\ json' = IF tmp = NoFile THEN json ELSE tmp
        /\ UNCHANGED <<dirty, content>>
    BY <1>12, RenameEffect, PersistAssumption DEF Orderly, Types
  <2>2. content'[json'].state = flush[ic].state
    <3>1. tmp = flush[ic].file /\ tmp # NoFile
      BY <1>1, <2>1, PersistAssumption DEF TmpIsOwn, Types, NoFile
    <3>2. content[tmp] = Whole(flush[ic].state)
      BY <1>1, <2>1 DEF TmpIsOwn
    <3> QED
      BY <2>1, <3>1, <3>2 DEF Whole
  <2>3. content'[json'].state = made \/ dirty[i]
    BY <1>1, <2>1, <2>2 DEF NothingLost, Saving
  <2>4. \A jc \in Call : Saving(jc)' => Saving(jc) /\ flush'[jc].state = flush[jc].state
    BY <1>4, <2>1 DEF Saving
  <2>5. ASSUME NEW j \in Instance
        PROVE  /\ flush'[<<j, "shutdown">>].pc # "idle" => flush[<<j, "shutdown">>].pc # "idle"
               /\ flush'[<<j, "shutdown">>].pc = "returned" => flush[<<j, "shutdown">>].pc = "returned"
    BY <1>4, <1>7, <2>1, Pairs
  <2> QED
    BY <1>1, <1>6, <1>7, <2>1, <2>3, <2>4, <2>5 DEF NothingLost, ShutdownSaves
<1>13. CASE AppendEvents(ic)
  <2>1. /\ flush[ic].pc = "append" /\ flush'[ic].pc \in {"returned", "idle"}
        /\ UNCHANGED <<dirty, json, content>>
    BY <1>13, AppendEffect
  <2>2. \A jc \in Call : ~Saving(jc)
    BY <1>1, <2>1 DEF OneFlush, Busy, Saving
  <2>3. \A jc \in Call : ~Saving(jc)'
    BY <1>4, <2>1, <2>2 DEF Saving
  <2>4. ~dirty[i] => content[json].state = made
    BY <1>1, <1>2, <2>2, Pairs DEF NothingLost
  <2>5. ASSUME NEW j \in Instance, flush'[<<j, "shutdown">>].pc # "idle"
        PROVE  flush[<<j, "shutdown">>].pc # "idle" /\ j = i
    BY <1>4, <1>7, <2>1, <2>5, Pairs
  <2> QED
    BY <1>1, <1>6, <2>1, <2>3, <2>4, <2>5 DEF ShutdownSaves
<1> QED
  BY <1>8, <1>10, <1>11, <1>12, <1>13 DEF FlushStep, NothingLost, ShutdownSaves

LEMMA KeptStep ==
    ASSUME Reloads = FALSE, IInv, Solo, DiskInv, KeptInv, [Next]_vars
    PROVE  KeptInv'
<1> USE DEF IInv
<1> SUFFICES ASSUME Orderly'
             PROVE  NothingLost' /\ ShutdownSaves'
  BY DEF KeptInv
<1>1. fails \in Nat /\ crashes \in Nat
  BY PersistAssumption DEF Types
<1>2. ~Crash
  BY <1>1 DEF Crash, Orderly
<1>3. Orderly
  <2>1. ASSUME NEW ic \in Call, FlushStep(ic)
        PROVE  Orderly
    <3>1. fails = 0
      BY <1>1, <2>1, SnapshotEffect, OpenEffect, WriteEffect, RenameEffect, AppendEffect
         DEF FlushStep, Orderly
    <3>2. ~raced /\ UNCHANGED crashes
      BY <2>1, OpenEffect, WriteEffect, RenameEffect, AppendEffect, SnapshotEffect
         DEF FlushStep, Orderly, FlushSnapshot, Races
    <3> QED
      BY <3>1, <3>2 DEF Orderly
  <2>2. CASE UNCHANGED <<raced, fails, crashes>>
    BY <2>2 DEF Orderly
  <2> QED
    BY <1>2, <2>1, <2>2
       DEF Next, vars, Load, Record, Stop, Exit, Dies, history, bounds, Call
<1>4. NothingLost /\ ShutdownSaves /\ DiskIsWhole
  BY <1>3 DEF KeptInv, DiskInv, Orderly
<1>5. ASSUME NEW ic \in Call, FlushStep(ic)
      PROVE  NothingLost' /\ ShutdownSaves'
  BY <1>3, <1>5, KeptFlush
<1>6. ASSUME NEW i \in Instance, Load(i)
      PROVE  NothingLost' /\ ShutdownSaves'
  <2>1. (\A j \in Instance : ~Alive(j)) /\ UNCHANGED <<flush, dirty, json, content, made>>
    BY <1>6 DEF Load, disk, history
  <2>2. content[json].state = made
    BY <1>4, <2>1 DEF NothingLost
  <2>3. /\ known'[i] = made /\ Alive(i)' /\ (\A j \in Instance : Alive(j)' => j = i)
    BY <1>4, <1>6, <2>1, <2>2 DEF Load, Alive, Types, Stored, DiskIsWhole
  <2>4. \A ic \in Call : flush'[ic].pc = "idle"
    BY <2>1, Pairs DEF Solo
  <2>5. \A j \in Instance : <<j, "shutdown">> \in Call
    BY DEF Call, Caller
  <2> QED
    BY <2>1, <2>2, <2>3, <2>4, <2>5 DEF NothingLost, ShutdownSaves, Saving
<1>7. ASSUME NEW i \in Instance, Record(i)
      PROVE  NothingLost' /\ ShutdownSaves'
  <2>1. /\ up[i] = "running" /\ UNCHANGED <<up, flush, json, content>>
        /\ dirty' = [dirty EXCEPT ![i] = TRUE]
    BY <1>7 DEF Record, disk
  <2>2. Alive(i)' /\ Alive(i) /\ \A j \in Instance : Alive(j)' => j = i
    BY <2>1 DEF Alive, Solo
  <2>3. known'[i] = made' /\ dirty'[i]
    BY <1>4, <1>7, <2>1, <2>2 DEF Record, Types, NothingLost
  <2>4. \A ic \in Call : Saving(ic)' => ic[1] = i
    BY <2>1, <2>2, Pairs DEF Saving, Solo, Alive
  <2>5. \A j \in Instance : flush'[<<j, "shutdown">>].pc = "idle"
    <3>1. ASSUME NEW j \in Instance, flush[<<j, "shutdown">>].pc # "idle"
          PROVE  FALSE
      <4>1. up[j] = "stopping"
        BY <1>4, <3>1 DEF ShutdownSaves
      <4>2. j = i
        BY <2>1, <2>2, <4>1 DEF Alive
      <4> QED
        BY <2>1, <4>1, <4>2
    <3> QED
      BY <2>1, <3>1
  <2> QED
    BY <2>2, <2>3, <2>4, <2>5 DEF NothingLost, ShutdownSaves
<1>8. ASSUME NEW i \in Instance, Stop(i)
      PROVE  NothingLost' /\ ShutdownSaves'
  <2>1. /\ UNCHANGED <<known, dirty, flush, json, content, made>>
        /\ up' = [up EXCEPT ![i] = "stopping"]
    BY <1>8 DEF Stop, disk, history
  <2>2. \A j \in Instance : Alive(j)' = Alive(j)
    BY <1>8 DEF Stop, Alive, Types
  <2>3. \A j \in Instance : up[j] = "stopping" => up'[j] = "stopping"
    BY <2>1 DEF Types
  <2>4. NothingLost'
    BY <1>4, <2>1, <2>2 DEF NothingLost, Saving
  <2> QED
    BY <1>4, <2>1, <2>3, <2>4 DEF ShutdownSaves
<1>9. ASSUME NEW i \in Instance, Exit(i)
      PROVE  NothingLost' /\ ShutdownSaves'
  <2>1. content[json].state = made /\ Dies
    BY <1>4, <1>9 DEF Exit, ShutdownSaves
  <2>2. \A j \in Instance : <<j, "shutdown">> \in Call
    BY DEF Call, Caller
  <2> QED
    BY <2>1, <2>2, DiesEffect DEF NothingLost, ShutdownSaves, Saving
<1>10. CASE UNCHANGED vars
  <2>1. UNCHANGED <<up, known, dirty, flush, json, content, made>>
    BY <1>10 DEF vars
  <2> QED
    BY <1>4, <2>1 DEF NothingLost, ShutdownSaves, Saving, Alive
<1> QED
  BY <1>2, <1>5, <1>6, <1>7, <1>8, <1>9, <1>10 DEF Next, Call

LEMMA DiskInit == Init => Solo /\ LoopAlone /\ DiskInv /\ KeptInv
<1> SUFFICES ASSUME Init
             PROVE  Solo /\ LoopAlone /\ DiskInv /\ KeptInv
  OBVIOUS
<1>1. /\ \A i \in Instance : ~Alive(i) /\ up[i] # "stopping"
      /\ \A ic \in Call : flush[ic].pc = "idle"
      /\ tmp # json /\ content[json] = Whole({}) /\ made = {} /\ raced = FALSE
  BY PersistAssumption DEF Init, Alive, Call, NotFlushing, NoFile
<1>2. Solo /\ LoopAlone
  BY <1>1 DEF Solo, LoopAlone
<1>3. \A i \in Instance : <<i, "shutdown">> \in Call
  BY DEF Call, Caller
<1> QED
  BY <1>1, <1>2, <1>3 DEF DiskInv, OneFlush, DiskIsWhole, DiskIsBehind, TmpIsOwn, Busy, Saving,
     Whole, KeptInv, NothingLost, ShutdownSaves

(* writeFileAtomic: "state.json is always a whole snapshot, and never an   *)
(* older one than it was" for any number of instances loaded one after the *)
(* other, changes, failed writes and crashes, while the loop alone flushes.*)
THEOREM DiskKeepsUp ==
    ASSUME Reloads = FALSE
    PROVE  Spec => DiskNeverRegresses
<1> DEFINE Inv == IInv /\ Solo /\ LoopAlone /\ DiskInv
<1>1. Inv /\ [Next]_vars => Inv'
  BY StepInv, SoloStep, LoopAloneStep, DiskStep
<1>2. Inv /\ [Next]_vars =>
        [stops = 0 =>
          /\ content'[json'].kind = "whole"
          /\ content[json].state \subseteq content'[json'].state]_vars
  <2> SUFFICES ASSUME Inv, Next, stops = 0
               PROVE  /\ content'[json'].kind = "whole"
                      /\ content[json].state \subseteq content'[json'].state
    OBVIOUS
  <2> USE DEF IInv
  <2>1. OneFlush /\ DiskIsWhole /\ DiskIsBehind /\ TmpIsOwn
    BY DEF LoopAlone, DiskInv
  <2>2. ASSUME NEW ic \in Call, RenameTmp(ic)
        PROVE  /\ content'[json'].kind = "whole"
               /\ content[json].state \subseteq content'[json'].state
    <3>1. flush[ic].pc = "rename" /\ UNCHANGED content /\ json' = IF tmp = NoFile THEN json ELSE tmp
      BY <2>2 DEF RenameTmp, Step
    <3>2. content[tmp] = Whole(flush[ic].state) /\ content[json].state \subseteq flush[ic].state
      BY <2>1, <3>1 DEF TmpIsOwn, DiskIsBehind, Saving
    <3> QED
      BY <2>1, <3>1, <3>2 DEF Whole, DiskIsWhole
  <2>3. ASSUME NEW ic \in Call, OpenTmp(ic)
        PROVE  content'[json'] = content[json]
    BY <2>1, <2>3, OpenEffect DEF DiskIsWhole
  <2>4. ASSUME NEW ic \in Call, WriteTmp(ic)
        PROVE  content'[json'] = content[json]
    BY <2>1, <2>4, WriteEffect DEF DiskIsWhole, TmpIsOwn, Types
  <2>5. UNCHANGED <<json, content>> => content'[json'] = content[json]
    OBVIOUS
  <2> QED
    BY <2>1, <2>2, <2>3, <2>4, <2>5
       DEF Next, FlushStep, Load, Record, Stop, Exit, Crash, Dies, FlushSnapshot, WriteFails,
           AppendEvents, disk, DiskIsWhole, Call
<1>3. Init => Inv
  BY InitInv, DiskInit
<1> QED
  BY <1>1, <1>2, <1>3, PTL DEF Spec, DiskNeverRegresses

(* "carry the audit trail and the circuit breaker across a restart": for   *)
(* any number of instances, changes and orderly shutdowns, the next        *)
(* instance starts with every change made before it, unless Shutdown came  *)
(* in the middle of the loop's flush.                                      *)
THEOREM NothingForgotten ==
    ASSUME Reloads = FALSE
    PROVE  Spec => RestartRemembers
<1> DEFINE Inv == IInv /\ Solo /\ DiskInv /\ KeptInv
<1>1. Inv /\ [Next]_vars => Inv'
  BY StepInv, SoloStep, DiskStep, KeptStep
<1>2. Inv /\ [Next]_vars =>
        [(~raced /\ fails = 0 /\ crashes = 0) =>
          \A i \in Instance :
              (up[i] = "absent" /\ up'[i] = "running") => known'[i] = made]_vars
  <2> SUFFICES ASSUME Inv, Next, Orderly, NEW i \in Instance,
                      up[i] = "absent", up'[i] = "running"
               PROVE  known'[i] = made
    BY DEF Orderly
  <2>1. Load(i)
    <3>1. \A ic \in Call : ~FlushStep(ic)
      BY FlushAlive DEF IInv
    <3>2. ASSUME NEW j \in Instance, Load(j)
          PROVE  j = i
      BY <3>2 DEF Load, IInv, Types
    <3>3. \A j \in Instance : ~Record(j) /\ ~Stop(j) /\ ~Exit(j)
      BY DEF Record, Stop, Exit, Dies, IInv, Types
    <3>4. ~Crash
      BY DEF Crash, Dies
    <3> QED
      BY <3>1, <3>2, <3>3, <3>4 DEF Next, Call
  <2>2. NothingLost /\ DiskIsWhole
    BY DEF KeptInv, DiskInv, Orderly
  <2>3. content[json].state = made
    BY <2>1, <2>2 DEF Load, NothingLost
  <2> QED
    BY <2>1, <2>2, <2>3 DEF Load, Stored, DiskIsWhole, IInv, Types
<1>3. Init => Inv
  BY InitInv, DiskInit
<1> QED
  BY <1>1, <1>2, <1>3, PTL DEF Spec, RestartRemembers
=============================================================================
