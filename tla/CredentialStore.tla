--------------------------- MODULE CredentialStore ---------------------------
(***************************************************************************)
(* One credential file as the rotator rewrites it (rotator.go: writeState, *)
(* writeCredentialAtomic) beside the host, which refreshes the token in    *)
(* it; and the cached list of credentials (store.go: authMetadata,         *)
(* invalidateAuthCache) that the rotator and the panel go by.              *)
(***************************************************************************)
EXTENDS Naturals

CONSTANTS
    Ticker,      \* callers of tick: they write, and list before and after
    Reader,      \* management requests: they list
    Inode,       \* files on disk
    None,
    Priority,    \* serving priorities: 0, which an absent one means, and others
    MaxWrites,   \* bound: calls of writeState
    MaxDrift     \* bound: logins, crashes and failing steps

ASSUME StoreAssumption == MaxWrites \in Nat /\ MaxDrift \in Nat /\ 0 \in Priority

VARIABLES
    data,      \* contents of each inode
    path, tmp, \* the inodes of the credential file and of path + ".tmp"
    job,       \* writes in progress
    cache,     \* App.authCache, None when empty or a minute old
    call,      \* calls of authMetadata in progress, and the last list each got
    writes,    \* writes begun so far
    changes,   \* history: times the file has been replaced by a writer
    mine,      \* history: the changes when each ticker last replaced it
    drift

fileVars == <<data, path, tmp>>
listVars == <<cache, call>>
storeVars == <<fileVars, job, listVars, writes, changes, mine, drift>>

Lister == Ticker \cup Reader
Torn == [token |-> 0, disabled |-> FALSE, torn |-> TRUE]
Document == [token : Nat, disabled : BOOLEAN, priority : Priority]
IdleJob == [pc |-> "idle", doc |-> None, body |-> None, fd |-> None]

(* A list is known by the changes made to the file when the host was asked *)
(* for it, and by whether a cache was emptied while it was on its way.     *)
List == [at : Nat, overtaken : BOOLEAN]
IdleCall == [pc |-> "idle", list |-> None]

StoreTypeOK ==
    /\ data \in [Inode -> Document \cup {Torn, None}]
    /\ path \in Inode /\ tmp \in Inode \cup {None}
    /\ job \in [Ticker -> [pc : {"idle", "got", "open", "written", "replaced"},
                           doc : Document \cup {None}, body : Document \cup {None},
                           fd : Inode \cup {None}]]
    /\ cache \in List \cup {None}
    /\ call \in [Lister -> [pc : {"idle", "fetched"}, list : List \cup {None}]]
    /\ writes \in 0 .. MaxWrites /\ drift \in 0 .. MaxDrift
    /\ changes \in Nat /\ mine \in [Ticker -> Nat]

StoreInit ==
    /\ path \in Inode
    /\ tmp = None
    /\ \E doc \in [token : {0}, disabled : BOOLEAN, priority : Priority] :
          data = [i \in Inode |-> IF i = path THEN doc ELSE None]
    /\ job = [t \in Ticker |-> IdleJob]
    /\ cache = None
    /\ call = [p \in Lister |-> IdleCall]
    /\ writes = 0 /\ drift = 0
    /\ changes = 0 /\ mine = [t \in Ticker |-> 0]

Drift == drift < MaxDrift /\ drift' = drift + 1
Goes(t, pc) == job[t].pc = pc
GiveUp(t) == job' = [job EXCEPT ![t] = IdleJob]

-----------------------------------------------------------------------------
(* What is written in place of a document: it retired, or promoted with a  *)
(* serving priority "written in the same document".                        *)
Bodies(doc) ==
    {[doc EXCEPT !.disabled = TRUE]}
    \cup {[doc EXCEPT !.disabled = FALSE, !.priority = p] : p \in Priority}

(* writeState up to the write: the document is got through the host, and   *)
(* one that is no credential is not written back.  A dry run ends here.    *)
Get(t) ==
    /\ Goes(t, "idle") /\ call[t].pc = "idle"
    /\ writes < MaxWrites
    /\ writes' = writes + 1
    /\ data[path] \in Document
    /\ \E body \in Bodies(data[path]) :
          job' = [job EXCEPT ![t] = [IdleJob EXCEPT !.pc = "got", !.doc = data[path],
                                                    !.body = body]]
    /\ UNCHANGED <<fileVars, listVars, changes, mine, drift>>

Free == {i \in Inode : i \notin {path, tmp} /\ \A t \in Ticker : job[t].fd # i}

\* Mutant: the document is rewritten in place.
OpenTmpInPlace(t) ==
    /\ Goes(t, "got")
    /\ job' = [job EXCEPT ![t].pc = "open", ![t].fd = path]
    /\ data' = [data EXCEPT ![path] = Torn]
    /\ tmp' = path
    /\ UNCHANGED <<path, listVars, writes, changes, mine, drift>>

(* writeCredentialAtomic: os.WriteFile opens path + ".tmp", truncating one *)
(* that is there,                                                          *)
OpenTmp(t) ==
    /\ Goes(t, "got")
    /\ \E i \in IF tmp # None THEN {tmp} ELSE Free :
          /\ job' = [job EXCEPT ![t].pc = "open", ![t].fd = i]
          /\ data' = [data EXCEPT ![i] = Torn]
          /\ tmp' = i
    /\ UNCHANGED <<path, listVars, writes, changes, mine, drift>>

(* and writes to it;                                                       *)
WriteTmp(t) ==
    /\ Goes(t, "open")
    /\ data' = [data EXCEPT ![job[t].fd] = job[t].body]
    /\ job' = [job EXCEPT ![t].pc = "written"]
    /\ UNCHANGED <<path, tmp, listVars, writes, changes, mine, drift>>

(* then whatever has that name by now replaces the credential file.        *)
Rename(t) ==
    /\ Goes(t, "written")
    /\ tmp # None
    /\ path' = tmp /\ tmp' = None
    /\ job' = [job EXCEPT ![t] = [IdleJob EXCEPT !.pc = "replaced"]]
    /\ changes' = changes + 1
    /\ mine' = [mine EXCEPT ![t] = changes']
    /\ UNCHANGED <<data, listVars, writes, drift>>

(* The host that reports no path: host.auth.save writes the document and   *)
(* "cannot turn a credential off".                                         *)
Save(t) ==
    /\ Goes(t, "got")
    /\ data' = [data EXCEPT ![path] = [job[t].body EXCEPT !.disabled = FALSE]]
    /\ job' = [job EXCEPT ![t] = [IdleJob EXCEPT !.pc = "replaced"]]
    /\ changes' = changes + 1
    /\ mine' = [mine EXCEPT ![t] = changes']
    /\ UNCHANGED <<path, tmp, listVars, writes, drift>>

(* A step of writeState fails: a temporary file half written stays, one    *)
(* that cannot be renamed is removed.                                      *)
Fail(t) ==
    /\ ~Goes(t, "idle") /\ ~Goes(t, "replaced")
    /\ IF Goes(t, "written") /\ tmp = None THEN UNCHANGED drift ELSE Drift
    /\ tmp' = IF Goes(t, "written") THEN None ELSE tmp
    /\ GiveUp(t)
    /\ UNCHANGED <<data, path, listVars, writes, changes, mine>>

\* Mutant: the list is kept, a minute being short.
InvalidateKeeps(t) ==
    /\ Goes(t, "replaced")
    /\ GiveUp(t)
    /\ UNCHANGED <<fileVars, listVars, writes, changes, mine, drift>>

(* invalidateAuthCache                                                     *)
Invalidate(t) ==
    /\ Goes(t, "replaced")
    /\ GiveUp(t)
    /\ cache' = None
    /\ call' = [p \in Lister |-> IF call[p].pc = "fetched"
                                 THEN [call[p] EXCEPT !.list.overtaken = TRUE] ELSE call[p]]
    /\ UNCHANGED <<fileVars, writes, changes, mine, drift>>

-----------------------------------------------------------------------------
(* authMetadata, when the cache will do.                                   *)
Hit(p) ==
    /\ call[p].pc = "idle" /\ (p \in Ticker => Goes(p, "idle"))
    /\ cache # None
    /\ call' = [call EXCEPT ![p].list = cache]
    /\ UNCHANGED <<fileVars, job, cache, writes, changes, mine, drift>>

(* When it will not, the host is asked, with the lock released;            *)
Fetch(p) ==
    /\ call[p].pc = "idle" /\ (p \in Ticker => Goes(p, "idle"))
    /\ cache = None
    /\ \/ /\ call' = [call EXCEPT ![p] = [pc |-> "fetched",
                                          list |-> [at |-> changes, overtaken |-> FALSE]]]
          /\ UNCHANGED drift
       \/ /\ Drift
          /\ call' = [call EXCEPT ![p] = IdleCall]
    /\ UNCHANGED <<fileVars, job, cache, writes, changes, mine>>

(* and its answer is kept for a minute from now.                           *)
Keep(p) ==
    /\ call[p].pc = "fetched"
    /\ cache' = call[p].list
    /\ call' = [call EXCEPT ![p].pc = "idle"]
    /\ UNCHANGED <<fileVars, job, writes, changes, mine, drift>>

Expire ==
    /\ cache # None
    /\ cache' = None
    /\ UNCHANGED <<fileVars, job, call, writes, changes, mine, drift>>

-----------------------------------------------------------------------------
(* The host refreshes the token, or the operator logs in.                  *)
Login ==
    /\ data[path] \in Document
    /\ Drift
    /\ data' = [data EXCEPT ![path].token = @ + 1]
    /\ UNCHANGED <<path, tmp, job, listVars, writes, changes, mine>>

(* The process dies and is started again.                                  *)
Crash ==
    /\ Drift
    /\ job' = [t \in Ticker |-> IdleJob]
    /\ cache' = None
    /\ call' = [p \in Lister |-> IdleCall]
    /\ UNCHANGED <<fileVars, writes, changes, mine>>

StoreNext ==
    \/ \E t \in Ticker : \/ Get(t) \/ OpenTmp(t) \/ WriteTmp(t) \/ Rename(t) \/ Save(t)
                         \/ Fail(t) \/ Invalidate(t)
    \/ \E p \in Lister : Hit(p) \/ Fetch(p) \/ Keep(p)
    \/ Expire \/ Login \/ Crash

StoreSpec == StoreInit /\ [][StoreNext]_storeVars

-----------------------------------------------------------------------------
(* The file as AuthFile has it; a writer holds a document until it has     *)
(* replaced the file with it.                                              *)
File == INSTANCE AuthFile WITH
    Writer <- Ticker,
    file <- data[path],
    held <- [t \in Ticker |-> job[t].doc]

(* writeCredentialAtomic "replaces one auth file in place", so that the    *)
(* host "only ever sees the finished file": whatever fails or dies, the    *)
(* file is a whole document that differs from one that was read only in    *)
(* being disabled or, if it is not, in its serving priority.               *)
ImplementsAuthFile == File!Spec

(* "a recount taken against the stale view sees a credential it just       *)
(* switched off as still enabled": the list a ticker gets after a write of *)
(* its own is one the host was asked for after it, unless that list was    *)
(* already on its way when the write emptied the cache.                    *)
RecountSeesWrite ==
    [][\A t \in Ticker :
          (call[t] # call'[t] /\ call'[t].list # None /\ Goes(t, "idle")) =>
              \/ call'[t].list.at >= mine[t]
              \/ call'[t].list.overtaken]_storeVars
=============================================================================
