------------------------ MODULE CredentialStoreProofs ------------------------
(***************************************************************************)
(* The credential file as one rotator rewrites it implements AuthFile, and *)
(* whoever has written it gets no older list; types, for any number of     *)
(* rotators.                                                               *)
(***************************************************************************)
EXTENDS CredentialStore, TLAPS

(* None is none of the things that stand where it may stand.               *)
NoneIsNothing == None \notin Document \cup Inode \cup List \cup {Torn}

JobOK ==
    job \in [Ticker -> [pc : {"idle", "got", "open", "written", "replaced"},
                        doc : Document \cup {None}, body : Document \cup {None},
                        fd : Inode \cup {None}]]

FilesOK ==
    /\ data \in [Inode -> Document \cup {Torn, None}]
    /\ path \in Inode /\ tmp \in Inode \cup {None}

(* The file is a whole document and the temporary file is another one.     *)
Whole == data[path] \in Document /\ tmp # path

(* A writer holds a document while it writes, and what is to replace it;   *)
(* the temporary file is its own, and, once written, is just that.         *)
Writing ==
    \A t \in Ticker :
        /\ job[t].pc \in {"got", "open", "written"} =>
              job[t].doc \in Document /\ job[t].body \in Bodies(job[t].doc)
        /\ job[t].pc \in {"idle", "replaced"} => job[t].doc = None
        /\ job[t].pc \in {"open", "written"} => tmp \in Inode /\ job[t].fd = tmp
        /\ job[t].pc = "written" => data[tmp] = job[t].body

FileInv == JobOK /\ FilesOK /\ Whole /\ Writing

LEMMA DocumentUpdates ==
    ASSUME NEW d \in Document
    PROVE  /\ [d EXCEPT !.token = @ + 1] \in Document
           /\ [d EXCEPT !.token = @ + 1].token > d.token
  BY DEF Document

(* What is written in place of a document d, by the plugin or, with the    *)
(* flag it does not read, by the host.                                     *)
Active(b) == [b EXCEPT !.disabled = FALSE]
Stands(d, b) ==
    \/ \E off \in BOOLEAN : b = [d EXCEPT !.disabled = off]
    \/ \E p \in Priority : b = [d EXCEPT !.disabled = FALSE, !.priority = p]

LEMMA BodiesReplace ==
    ASSUME NEW d \in Document, NEW b \in Bodies(d)
    PROVE  /\ b \in Document /\ Active(b) \in Document
           /\ Stands(d, b) /\ Stands(d, Active(b))
<1> USE DEF Active, Stands
<1>1. CASE b = [d EXCEPT !.disabled = TRUE]
  <2>1. b \in Document /\ [b EXCEPT !.disabled = FALSE] \in Document
    BY <1>1 DEF Document
  <2>2. [b EXCEPT !.disabled = FALSE] = [d EXCEPT !.disabled = FALSE]
    BY <1>1 DEF Document
  <2> QED
    BY <1>1, <2>1, <2>2
<1>2. ASSUME NEW p \in Priority, b = [d EXCEPT !.disabled = FALSE, !.priority = p]
      PROVE  /\ b \in Document /\ [b EXCEPT !.disabled = FALSE] \in Document
             /\ [b EXCEPT !.disabled = FALSE] = b
  BY <1>2 DEF Document
<1> QED
  BY <1>1, <1>2 DEF Bodies

LEMMA InitFile ==
    ASSUME NoneIsNothing, StoreInit
    PROVE  FileInv /\ File!Init
<1>1. PICK doc \in [token : {0}, disabled : BOOLEAN, priority : Priority] :
        data = [i \in Inode |-> IF i = path THEN doc ELSE None]
  BY DEF StoreInit
<1>2. path \in Inode /\ tmp = None /\ job = [t \in Ticker |-> IdleJob]
  BY DEF StoreInit
<1>3. data[path] = doc
  BY <1>1, <1>2
<1>4. data[path] \in Document /\ data[path] \in [token : {0}, disabled : BOOLEAN, priority : Priority]
  BY <1>3 DEF Document
<1>5. JobOK
  BY <1>2 DEF JobOK, IdleJob
<1>6. FilesOK
  BY <1>1, <1>2, <1>3, <1>4 DEF FilesOK, Document
<1>7. Whole /\ Writing
  BY <1>2, <1>4 DEF NoneIsNothing, Whole, Writing, IdleJob
<1>8. File!Init
  BY <1>2, <1>4 DEF File!Init, IdleJob
<1> QED
  BY <1>5, <1>6, <1>7, <1>8 DEF FileInv

(* A writer gives its document up, for whatever reason.                    *)
LEMMA GiveUpForgets ==
    ASSUME NoneIsNothing, FileInv, NEW t \in Ticker, GiveUp(t),
           UNCHANGED <<data, path>>, tmp' \in {tmp, None},
           Ticker = {t}
    PROVE  FileInv' /\ File!Next
<1>1. job' = [job EXCEPT ![t] = IdleJob]
  BY DEF GiveUp
<1>2. JobOK' /\ FilesOK' /\ Whole'
  BY <1>1 DEF FileInv, JobOK, FilesOK, Whole, IdleJob, NoneIsNothing
<1>3. Writing'
  BY <1>1 DEF FileInv, JobOK, Writing, IdleJob
<1>4. File!Forget
  <2>1. [s \in Ticker |-> job'[s].doc]
          = [s \in Ticker |-> IF s \in {t} THEN None ELSE [r \in Ticker |-> job[r].doc][s]]
    BY <1>1 DEF FileInv, JobOK, IdleJob
  <2>2. {t} \in SUBSET Ticker
    OBVIOUS
  <2> QED
    BY <2>1, <2>2 DEF File!Forget
<1> QED
  BY <1>2, <1>3, <1>4 DEF FileInv, File!Next

(* One rotator: every step keeps the file whole, and is one of AuthFile's  *)
(* or none.                                                                *)
LEMMA StepFile ==
    ASSUME NoneIsNothing, NEW t \in Ticker, Ticker = {t}, FileInv, [StoreNext]_storeVars
    PROVE  FileInv' /\ [File!Next]_(File!vars)
<1> DEFINE held == [s \in Ticker |-> job[s].doc]
<1> USE DEF FileInv
<1>1. CASE Get(t)
  <2>1. PICK body \in Bodies(data[path]) :
          job' = [job EXCEPT ![t] = [IdleJob EXCEPT !.pc = "got", !.doc = data[path],
                                                    !.body = body]]
    BY <1>1 DEF Get
  <2>2. UNCHANGED <<data, path, tmp>> /\ job[t].pc = "idle"
    BY <1>1 DEF Get, Goes, fileVars
  <2>3. JobOK' /\ job'[t].pc = "got" /\ job'[t].doc = data[path] /\ job'[t].body = body
    BY <2>1, BodiesReplace DEF IdleJob, JobOK, Whole
  <2>4. FilesOK' /\ Whole'
    BY <2>2 DEF FilesOK, Whole
  <2>5. Writing'
    BY <2>2, <2>3 DEF Writing, Whole
  <2>6. File!Read(t)
    <3>1. held' = [held EXCEPT ![t] = data[path]]
      BY <2>3 DEF JobOK
    <3> QED
      BY <2>2, <3>1 DEF File!Read
  <2> QED
    BY <2>3, <2>4, <2>5, <2>6 DEF File!Next
<1>2. CASE OpenTmp(t)
  <2>1. PICK i \in IF tmp # None THEN {tmp} ELSE Free :
          /\ job' = [job EXCEPT ![t].pc = "open", ![t].fd = i]
          /\ data' = [data EXCEPT ![i] = Torn]
          /\ tmp' = i
    BY <1>2 DEF OpenTmp
  <2>2. path' = path /\ job[t].pc = "got" /\ job[t].doc \in Document
    BY <1>2 DEF OpenTmp, Goes, Writing
  <2>3. i \in Inode /\ i # path
    BY <2>1 DEF FilesOK, Whole, Free
  <2>4. /\ JobOK' /\ job'[t].pc = "open" /\ job'[t].fd = i
        /\ job'[t].doc = job[t].doc /\ job'[t].body = job[t].body
    BY <2>1, <2>3 DEF JobOK
  <2>5. FilesOK' /\ Whole' /\ data'[path'] = data[path]
    BY <2>1, <2>2, <2>3 DEF FilesOK, Whole
  <2>6. Writing'
    BY <2>1, <2>2, <2>3, <2>4 DEF Writing
  <2>7. held' = held
    BY <2>4 DEF JobOK
  <2> QED
    BY <2>4, <2>5, <2>6, <2>7 DEF File!vars
<1>3. CASE WriteTmp(t)
  <2>1. /\ data' = [data EXCEPT ![job[t].fd] = job[t].body]
        /\ job' = [job EXCEPT ![t].pc = "written"]
        /\ path' = path /\ tmp' = tmp /\ job[t].pc = "open"
    BY <1>3 DEF WriteTmp, Goes
  <2>2. /\ job[t].doc \in Document /\ tmp \in Inode /\ job[t].fd = tmp
        /\ job[t].body \in Bodies(job[t].doc)
    BY <2>1 DEF Writing
  <2>3. job[t].body \in Document
    BY <2>2, BodiesReplace
  <2>4. /\ JobOK' /\ job'[t].pc = "written" /\ job'[t].fd = job[t].fd
        /\ job'[t].doc = job[t].doc /\ job'[t].body = job[t].body
    BY <2>1 DEF JobOK
  <2>5. FilesOK' /\ Whole' /\ data'[path'] = data[path]
    BY <2>1, <2>2, <2>3 DEF FilesOK, Whole
  <2>6. Writing'
    BY <2>1, <2>2, <2>4 DEF Writing, FilesOK
  <2>7. held' = held
    BY <2>4 DEF JobOK
  <2> QED
    BY <2>4, <2>5, <2>6, <2>7 DEF File!vars
<1>4. CASE Rename(t)
  <2>1. /\ job[t].pc = "written" /\ path' = tmp /\ tmp' = None /\ data' = data
        /\ job' = [job EXCEPT ![t] = [IdleJob EXCEPT !.pc = "replaced"]]
    BY <1>4 DEF Rename, Goes
  <2>2. /\ tmp \in Inode /\ job[t].doc \in Document /\ data[tmp] = job[t].body
        /\ job[t].body \in Bodies(job[t].doc)
    BY <2>1 DEF Writing
  <2>3. data[tmp] \in Document
    BY <2>2, BodiesReplace
  <2>4. JobOK' /\ job'[t].pc = "replaced" /\ job'[t].doc = None
    BY <2>1 DEF IdleJob, JobOK
  <2>5. FilesOK' /\ Whole'
    BY <2>1, <2>2, <2>3 DEF FilesOK, Whole, NoneIsNothing
  <2>6. Writing'
    BY <2>4 DEF Writing
  <2>7. File!Replace(t)
    <3>1. held[t] # None /\ held[t] = job[t].doc
      BY <2>2 DEF NoneIsNothing
    <3>2. held' = [held EXCEPT ![t] = None]
      BY <2>4 DEF JobOK
    <3>3. Stands(job[t].doc, data'[path'])
      BY <2>1, <2>2, BodiesReplace
    <3> QED
      BY <3>1, <3>2, <3>3 DEF File!Replace, Stands
  <2> QED
    BY <2>4, <2>5, <2>6, <2>7 DEF File!Next
<1>5. CASE Save(t)
  <2>1. /\ job[t].pc = "got" /\ path' = path /\ tmp' = tmp
        /\ data' = [data EXCEPT ![path] = Active(job[t].body)]
        /\ job' = [job EXCEPT ![t] = [IdleJob EXCEPT !.pc = "replaced"]]
    BY <1>5 DEF Save, Goes, Active
  <2>2. /\ job[t].doc \in Document /\ job[t].body \in Bodies(job[t].doc)
        /\ Active(job[t].body) \in Document
    BY <2>1, BodiesReplace DEF Writing
  <2>3. data'[path'] = Active(job[t].body)
    BY <2>1 DEF FilesOK
  <2>4. JobOK' /\ job'[t].pc = "replaced" /\ job'[t].doc = None
    BY <2>1 DEF IdleJob, JobOK
  <2>5. FilesOK' /\ Whole'
    BY <2>1, <2>2, <2>3 DEF FilesOK, Whole
  <2>6. Writing'
    BY <2>4 DEF Writing
  <2>7. File!Replace(t)
    <3>1. held[t] # None /\ held[t] = job[t].doc
      BY <2>2 DEF NoneIsNothing
    <3>2. held' = [held EXCEPT ![t] = None]
      BY <2>4 DEF JobOK
    <3>3. Stands(job[t].doc, data'[path'])
      BY <2>2, <2>3, BodiesReplace
    <3> QED
      BY <3>1, <3>2, <3>3 DEF File!Replace, Stands
  <2> QED
    BY <2>4, <2>5, <2>6, <2>7 DEF File!Next
<1>6. CASE Fail(t)
  BY <1>6, GiveUpForgets DEF Fail
<1>7. CASE Invalidate(t)
  BY <1>7, GiveUpForgets DEF Invalidate, fileVars
<1>8. CASE Login
  <2>1. /\ data' = [data EXCEPT ![path].token = @ + 1]
        /\ UNCHANGED <<path, tmp, job>>
    BY <1>8 DEF Login
  <2>2. data' = [data EXCEPT ![path] = [data[path] EXCEPT !.token = @ + 1]]
    BY <2>1 DEF FilesOK
  <2>3. /\ data'[path'] = [data[path] EXCEPT !.token = @ + 1]
        /\ data'[path'] \in Document /\ data'[path'].token > data[path].token
    BY <2>1, <2>2, DocumentUpdates DEF FilesOK, Whole
  <2>4. JobOK' /\ FilesOK' /\ Whole'
    BY <2>1, <2>2, <2>3 DEF JobOK, FilesOK, Whole
  <2>5. Writing'
    BY <2>1, <2>2 DEF Writing, FilesOK, Whole
  <2>6. File!Login
    <3>1. data'[path'] = [data[path] EXCEPT !.token = data'[path'].token]
      BY <2>3 DEF Document, Whole
    <3> QED
      BY <2>1, <2>3, <3>1 DEF File!Login
  <2> QED
    BY <2>4, <2>5, <2>6 DEF File!Next
<1>9. CASE Crash
  <2>1. job' = [s \in Ticker |-> IdleJob] /\ UNCHANGED <<data, path, tmp>>
    BY <1>9 DEF Crash, fileVars
  <2>2. GiveUp(t)
    BY <2>1 DEF GiveUp, JobOK
  <2> QED
    BY <2>1, <2>2, GiveUpForgets
<1>10. CASE UNCHANGED <<data, path, tmp, job>>
  BY <1>10 DEF JobOK, FilesOK, Whole, Writing, File!vars
<1>11. ASSUME NEW p \in Lister, Hit(p) \/ Fetch(p) \/ Keep(p)
       PROVE  UNCHANGED <<data, path, tmp, job>>
  BY <1>11 DEF Hit, Fetch, Keep, fileVars
<1>12. Expire => UNCHANGED <<data, path, tmp, job>>
  BY DEF Expire, fileVars
<1>13. UNCHANGED storeVars => UNCHANGED <<data, path, tmp, job>>
  BY DEF storeVars, fileVars
<1> QED
  BY <1>1, <1>2, <1>3, <1>4, <1>5, <1>6, <1>7, <1>8, <1>9, <1>10, <1>11, <1>12, <1>13
     DEF StoreNext

(* With one rotator, and whatever fails, crashes or logs in meanwhile, the *)
(* credential file behaves as AuthFile says.                               *)
THEOREM OneWriterReplacesWhole ==
    ASSUME NoneIsNothing, NEW t \in Ticker, Ticker = {t}
    PROVE  StoreSpec => ImplementsAuthFile
<1>1. StoreInit => FileInv /\ File!Init
  BY InitFile
<1>2. FileInv /\ [StoreNext]_storeVars =>
        FileInv' /\ [File!Next]_(File!vars)
  BY StepFile
<1> QED
  BY <1>1, <1>2, PTL DEF StoreSpec, ImplementsAuthFile, File!Spec

-----------------------------------------------------------------------------
(* Types, for any number of rotators.                                      *)
Docs ==
    \A t \in Ticker : job[t].pc \in {"got", "open", "written"} =>
        /\ job[t].doc \in Document /\ job[t].body \in Bodies(job[t].doc)
        /\ job[t].pc # "got" => job[t].fd \in Inode

Types == JobOK /\ FilesOK /\ Docs

LEMMA InitTypes ==
    ASSUME StoreInit
    PROVE  Types
<1>1. JobOK
  BY DEF StoreInit, JobOK, IdleJob
<1>2. FilesOK
  BY DEF StoreInit, FilesOK, Document
<1>3. Docs
  BY DEF StoreInit, Docs, IdleJob
<1> QED
  BY <1>1, <1>2, <1>3 DEF Types

(* A step that takes t's job to a well-typed one and no other.             *)
LEMMA GoodJob ==
    ASSUME Types, NEW t \in Ticker, JobOK', \A s \in Ticker \ {t} : job'[s] = job[s],
           job'[t].pc \in {"got", "open", "written"} =>
              /\ job'[t].doc \in Document /\ job'[t].body \in Bodies(job'[t].doc)
              /\ job'[t].pc # "got" => job'[t].fd \in Inode
    PROVE  Docs'
  BY DEF Types, Docs

LEMMA IdleTypes ==
    ASSUME Types, NEW t \in Ticker, GiveUp(t)
    PROVE  JobOK' /\ Docs' /\ job'[t].pc = "idle" /\ \A s \in Ticker \ {t} : job'[s] = job[s]
<1>1. JobOK' /\ job'[t].pc = "idle" /\ \A s \in Ticker \ {t} : job'[s] = job[s]
  BY DEF GiveUp, IdleJob, Types, JobOK
<1> QED
  BY <1>1, GoodJob

LEMMA ReplacedTypes ==
    ASSUME Types, NEW t \in Ticker,
           job' = [job EXCEPT ![t] = [IdleJob EXCEPT !.pc = "replaced"]]
    PROVE  /\ JobOK' /\ Docs' /\ job'[t].pc = "replaced"
           /\ \A s \in Ticker \ {t} : job'[s] = job[s]
<1>1. JobOK' /\ job'[t].pc = "replaced" /\ \A s \in Ticker \ {t} : job'[s] = job[s]
  BY DEF IdleJob, Types, JobOK
<1> QED
  BY <1>1, GoodJob

LEMMA StepTypes ==
    ASSUME Types, [StoreNext]_storeVars
    PROVE  Types'
<1> USE DEF Types
<1>1. ASSUME NEW t \in Ticker, Get(t)
      PROVE  Types'
  <2>1. PICK body \in Bodies(data[path]) :
          job' = [job EXCEPT ![t] = [IdleJob EXCEPT !.pc = "got", !.doc = data[path],
                                                    !.body = body]]
    BY <1>1 DEF Get
  <2>2. UNCHANGED <<data, path, tmp>> /\ data[path] \in Document \cup {None}
    BY <1>1 DEF Get, fileVars, FilesOK
  <2>3. data[path] \in Document
    BY <1>1 DEF Get
  <2>4. /\ JobOK' /\ job'[t].pc = "got" /\ job'[t].doc = data[path] /\ job'[t].body = body
        /\ \A s \in Ticker \ {t} : job'[s] = job[s]
    BY <2>1, <2>3, BodiesReplace DEF IdleJob, JobOK
  <2> QED
    BY <2>2, <2>3, <2>4, GoodJob DEF FilesOK
<1>2. ASSUME NEW t \in Ticker, OpenTmp(t)
      PROVE  Types'
  <2>1. PICK i \in IF tmp # None THEN {tmp} ELSE Free :
          /\ job' = [job EXCEPT ![t].pc = "open", ![t].fd = i]
          /\ data' = [data EXCEPT ![i] = Torn]
          /\ tmp' = i
    BY <1>2 DEF OpenTmp
  <2>2. /\ path' = path /\ job[t].doc \in Document /\ i \in Inode
        /\ job[t].body \in Bodies(job[t].doc)
    BY <1>2, <2>1 DEF OpenTmp, Goes, Docs, FilesOK, Free
  <2>3. /\ JobOK' /\ job'[t].fd = i /\ job'[t].doc = job[t].doc /\ job'[t].body = job[t].body
        /\ \A s \in Ticker \ {t} : job'[s] = job[s]
    BY <2>1, <2>2 DEF JobOK
  <2>4. FilesOK'
    BY <2>1, <2>2 DEF FilesOK
  <2> QED
    BY <2>2, <2>3, <2>4, GoodJob
<1>3. ASSUME NEW t \in Ticker, WriteTmp(t)
      PROVE  Types'
  <2>1. /\ data' = [data EXCEPT ![job[t].fd] = job[t].body]
        /\ job' = [job EXCEPT ![t].pc = "written"]
        /\ path' = path /\ tmp' = tmp
    BY <1>3 DEF WriteTmp
  <2>2. /\ job[t].doc \in Document /\ job[t].fd \in Inode
        /\ job[t].body \in Bodies(job[t].doc)
    BY <1>3 DEF WriteTmp, Goes, Docs
  <2>3. job[t].body \in Document
    BY <2>2, BodiesReplace
  <2>4. /\ JobOK' /\ job'[t].fd = job[t].fd /\ job'[t].doc = job[t].doc
        /\ job'[t].body = job[t].body
        /\ \A s \in Ticker \ {t} : job'[s] = job[s]
    BY <2>1 DEF JobOK
  <2>5. FilesOK'
    BY <2>1, <2>2, <2>3 DEF FilesOK
  <2> QED
    BY <2>2, <2>4, <2>5, GoodJob
<1>4. ASSUME NEW t \in Ticker, Rename(t)
      PROVE  Types'
  <2>1. FilesOK'
    BY <1>4 DEF Rename, FilesOK
  <2> QED
    BY <1>4, <2>1, ReplacedTypes DEF Rename
<1>5. ASSUME NEW t \in Ticker, Save(t)
      PROVE  Types'
  <2>1. job[t].doc \in Document /\ Active(job[t].body) \in Document
    BY <1>5, BodiesReplace DEF Save, Goes, Docs
  <2>2. FilesOK'
    BY <1>5, <2>1 DEF Save, FilesOK, Active
  <2> QED
    BY <1>5, <2>2, ReplacedTypes DEF Save
<1>6. ASSUME NEW t \in Ticker, Fail(t) \/ Invalidate(t)
      PROVE  Types'
  <2>1. GiveUp(t) /\ FilesOK'
    BY <1>6 DEF Fail, Invalidate, fileVars, FilesOK
  <2> QED
    BY <2>1, IdleTypes
<1>7. CASE Login
  <2>1. data[path] \in Document /\ [data[path] EXCEPT !.token = @ + 1] \in Document
    BY <1>7, DocumentUpdates DEF Login
  <2>2. data' = [data EXCEPT ![path] = [data[path] EXCEPT !.token = @ + 1]]
    BY <1>7 DEF Login, FilesOK
  <2> QED
    BY <1>7, <2>1, <2>2 DEF Login, FilesOK, JobOK, Docs
<1>8. CASE Crash
  <2>1. job' = [t \in Ticker |-> IdleJob] /\ UNCHANGED <<data, path, tmp>>
    BY <1>8 DEF Crash, fileVars
  <2>2. JobOK' /\ Docs'
    BY <2>1 DEF JobOK, Docs, IdleJob
  <2> QED
    BY <2>1, <2>2 DEF FilesOK
<1>9. CASE UNCHANGED <<data, path, tmp, job>>
  BY <1>9 DEF JobOK, FilesOK, Docs
<1>10. ASSUME NEW p \in Lister, Hit(p) \/ Fetch(p) \/ Keep(p)
       PROVE  UNCHANGED <<data, path, tmp, job>>
  BY <1>10 DEF Hit, Fetch, Keep, fileVars
<1>11. Expire \/ UNCHANGED storeVars => UNCHANGED <<data, path, tmp, job>>
  BY DEF Expire, storeVars, fileVars
<1> QED
  BY <1>1, <1>2, <1>3, <1>4, <1>5, <1>6, <1>7, <1>8, <1>9, <1>10, <1>11 DEF StoreNext

-----------------------------------------------------------------------------
CallOK ==
    /\ cache \in List \cup {None}
    /\ call \in [Lister -> [pc : {"idle", "fetched"}, list : List \cup {None}]]
    /\ \A p \in Lister : call[p].pc = "fetched" => call[p].list \in List
    /\ changes \in Nat
    /\ mine \in [Ticker -> Nat]
    /\ \A t \in Ticker : mine[t] <= changes

(* A list a ticker may be given: no older than its write, or overtaken by  *)
(* the emptying of the cache that followed.                                *)
Sees(t, list) == list.at >= mine[t] \/ list.overtaken

(* Between its write and the emptying of the cache a ticker asks for none. *)
Kept ==
    \A t \in Ticker : job[t].pc # "replaced" =>
        /\ cache # None => Sees(t, cache)
        /\ \A p \in Lister : call[p].pc = "fetched" => Sees(t, call[p].list)

ListInv == Types /\ CallOK /\ Kept

LEMMA InitList ==
    ASSUME StoreInit
    PROVE  ListInv
<1>1. CallOK
  BY DEF StoreInit, CallOK, IdleCall
<1>2. Kept
  BY DEF StoreInit, Kept, IdleCall
<1> QED
  BY <1>1, <1>2, InitTypes DEF ListInv

LEMMA Replaces ==
    ASSUME ListInv, NEW t \in Ticker, job'[t].pc = "replaced",
           \A s \in Ticker \ {t} : job'[s] = job[s],
           UNCHANGED <<cache, call>>,
           changes' = changes + 1, mine' = [mine EXCEPT ![t] = changes']
    PROVE  CallOK' /\ Kept'
<1>1. CallOK'
  BY DEF ListInv, CallOK
<1>2. ASSUME NEW s \in Ticker, job'[s].pc # "replaced"
      PROVE  mine'[s] = mine[s] /\ job[s].pc # "replaced"
  BY <1>2 DEF ListInv, CallOK
<1> QED
  BY <1>1, <1>2 DEF ListInv, Kept, Sees

LEMMA StepList ==
    ASSUME None \notin List, ListInv, [StoreNext]_storeVars
    PROVE  ListInv'
<1> USE DEF ListInv
<1>1. Types'
  BY StepTypes
<1> DEFINE Still == UNCHANGED <<cache, call, changes, mine>>
<1>2. ASSUME Still, \A t \in Ticker : job'[t].pc # "replaced" => job[t].pc # "replaced"
      PROVE  CallOK' /\ Kept'
  BY <1>2 DEF CallOK, Kept, Sees
<1>3. ASSUME NEW t \in Ticker, Get(t) \/ OpenTmp(t) \/ WriteTmp(t) \/ Fail(t)
      PROVE  CallOK' /\ Kept'
  <2>1. Still
    BY <1>3 DEF Get, OpenTmp, WriteTmp, Fail, listVars
  <2>2. /\ job[t].pc # "replaced"
        /\ \A s \in Ticker \ {t} : job'[s] = job[s]
    BY <1>3, IdleTypes DEF Get, OpenTmp, WriteTmp, Fail, Goes, Types, JobOK
  <2> QED
    BY <1>2, <2>1, <2>2
<1>4. ASSUME NEW t \in Ticker, Rename(t) \/ Save(t)
      PROVE  CallOK' /\ Kept'
  <2>1. /\ UNCHANGED <<cache, call>>
        /\ changes' = changes + 1 /\ mine' = [mine EXCEPT ![t] = changes']
        /\ job' = [job EXCEPT ![t] = [IdleJob EXCEPT !.pc = "replaced"]]
    BY <1>4 DEF Rename, Save, listVars
  <2> QED
    BY <2>1, ReplacedTypes, Replaces
<1>5. ASSUME NEW t \in Ticker, Invalidate(t)
      PROVE  CallOK' /\ Kept'
  <2>1. /\ cache' = None /\ UNCHANGED <<changes, mine>>
        /\ call' = [p \in Lister |-> IF call[p].pc = "fetched"
                                     THEN [call[p] EXCEPT !.list.overtaken = TRUE] ELSE call[p]]
    BY <1>5 DEF Invalidate
  <2>2. ASSUME NEW p \in Lister, call[p].pc = "fetched"
        PROVE  call'[p] = [pc |-> "fetched", list |-> [at |-> call[p].list.at, overtaken |-> TRUE]]
    <3>1. call[p].list \in List
      BY <2>2 DEF CallOK
    <3>2. call[p] \in [pc : {"idle", "fetched"}, list : List \cup {None}]
      BY DEF CallOK
    <3> QED
      BY <2>1, <2>2, <3>1, <3>2 DEF List
  <2>3. ASSUME NEW p \in Lister, call[p].pc # "fetched"
        PROVE  call'[p] = call[p]
    BY <2>1, <2>3
  <2>4. \A p \in Lister : call[p].pc = "fetched" => call[p].list.at \in Nat
    BY DEF CallOK, List
  <2>5. ASSUME NEW p \in Lister
        PROVE  /\ call'[p] \in [pc : {"idle", "fetched"}, list : List \cup {None}]
               /\ call'[p].pc = "fetched" => call'[p].list \in List
    <3>1. CASE call[p].pc = "fetched"
      <4> DEFINE l == [at |-> call[p].list.at, overtaken |-> TRUE]
      <4>1. l \in List
        BY <2>4, <3>1 DEF List
      <4>2. call'[p] = [pc |-> "fetched", list |-> l]
        BY <2>2, <3>1
      <4> HIDE DEF l
      <4> QED
        BY <4>1, <4>2
    <3>2. CASE call[p].pc # "fetched"
      BY <2>3, <3>2 DEF CallOK
    <3> QED
      BY <3>1, <3>2
  <2>6. CallOK'
    BY <2>1, <2>5 DEF CallOK
  <2>7. Kept'
    BY <2>1, <2>2, <2>3 DEF Kept, Sees
  <2> QED
    BY <2>6, <2>7
<1>6. ASSUME NEW p \in Lister, Hit(p)
      PROVE  CallOK' /\ Kept'
  <2>1. /\ cache # None /\ call[p].pc = "idle" /\ call' = [call EXCEPT ![p].list = cache]
        /\ UNCHANGED <<cache, changes, mine, job>>
    BY <1>6 DEF Hit
  <2> QED
    BY <2>1 DEF CallOK, Kept, Sees
<1>7. ASSUME NEW p \in Lister, Fetch(p)
      PROVE  CallOK' /\ Kept'
  <2>1. UNCHANGED <<cache, changes, mine, job>>
    BY <1>7 DEF Fetch
  <2>2. CASE call' = [call EXCEPT ![p] = [pc |-> "fetched",
                                          list |-> [at |-> changes, overtaken |-> FALSE]]]
    <3>1. [at |-> changes, overtaken |-> FALSE] \in List
      BY DEF CallOK, List
    <3>2. CallOK'
      BY <2>1, <2>2, <3>1 DEF CallOK
    <3>3. Kept'
      BY <2>1, <2>2 DEF CallOK, Kept, Sees
    <3> QED
      BY <3>2, <3>3
  <2>3. CASE call' = [call EXCEPT ![p] = IdleCall]
    BY <2>1, <2>3 DEF CallOK, Kept, Sees, IdleCall
  <2> QED
    BY <1>7, <2>2, <2>3 DEF Fetch
<1>8. ASSUME NEW p \in Lister, Keep(p)
      PROVE  CallOK' /\ Kept'
  <2>1. /\ call[p].pc = "fetched" /\ cache' = call[p].list
        /\ call' = [call EXCEPT ![p].pc = "idle"]
        /\ UNCHANGED <<changes, mine, job>>
    BY <1>8 DEF Keep
  <2> QED
    BY <2>1 DEF CallOK, Kept, Sees
<1>9. CASE Expire
  BY <1>1, <1>9 DEF Expire, CallOK, Kept, Sees
<1>10. CASE Crash
  BY <1>1, <1>10 DEF Crash, CallOK, Kept, IdleCall
<1>11. CASE Login
  BY <1>1, <1>2, <1>11 DEF Login, listVars
<1>12. CASE UNCHANGED storeVars
  BY <1>1, <1>2, <1>12 DEF storeVars, listVars
<1> QED
  BY <1>1, <1>3, <1>4, <1>5, <1>6, <1>7, <1>8, <1>9, <1>10, <1>11, <1>12 DEF StoreNext

(* The lists each step hands out.                                          *)
LEMMA ListedWell ==
    ASSUME ListInv, StoreNext, NEW t \in Ticker, Goes(t, "idle"),
           call[t] # call'[t], call'[t].list # None
    PROVE  call'[t].list.at >= mine[t] \/ call'[t].list.overtaken
<1> USE DEF ListInv
<1>0. t \in Lister /\ job[t].pc # "replaced" /\ mine[t] <= changes
  BY DEF Goes, CallOK, Lister
<1>1. ASSUME NEW s \in Ticker, \/ Get(s) \/ OpenTmp(s) \/ WriteTmp(s) \/ Rename(s)
                               \/ Save(s) \/ Fail(s)
      PROVE  FALSE
  BY <1>1 DEF Get, OpenTmp, WriteTmp, Rename, Save, Fail, listVars
<1>2. ASSUME NEW s \in Ticker, Invalidate(s)
      PROVE  call'[t].list.overtaken
  <2>1. call' = [p \in Lister |-> IF call[p].pc = "fetched"
                                 THEN [call[p] EXCEPT !.list.overtaken = TRUE] ELSE call[p]]
    BY <1>2 DEF Invalidate
  <2>2. call[t].pc = "fetched" /\ call'[t] = [call[t] EXCEPT !.list.overtaken = TRUE]
    BY <1>0, <2>1
  <2>3. call[t].list \in List /\ call[t] \in [pc : {"idle", "fetched"}, list : List \cup {None}]
    BY <1>0, <2>2 DEF CallOK
  <2> QED
    BY <2>2, <2>3 DEF List
<1>3. ASSUME NEW p \in Lister, Hit(p)
      PROVE  Sees(t, call'[t].list)
  BY <1>0, <1>3 DEF Hit, CallOK, Kept
<1>4. ASSUME NEW p \in Lister, Fetch(p)
      PROVE  call'[t].list.at >= mine[t]
  <2>1. p = t
    BY <1>0, <1>4 DEF Fetch, CallOK
  <2>2. CASE call' = [call EXCEPT ![p] = [pc |-> "fetched",
                                          list |-> [at |-> changes, overtaken |-> FALSE]]]
    BY <1>0, <2>1, <2>2 DEF CallOK
  <2>3. CASE call' = [call EXCEPT ![p] = IdleCall]
    BY <1>0, <2>1, <2>3 DEF CallOK, IdleCall
  <2> QED
    BY <1>4, <2>2, <2>3 DEF Fetch
<1>5. ASSUME NEW p \in Lister, Keep(p)
      PROVE  Sees(t, call'[t].list)
  BY <1>0, <1>5 DEF Keep, CallOK, Kept
<1>6. CASE Crash
  BY <1>0, <1>6 DEF Crash, IdleCall
<1>7. CASE Expire \/ Login
  BY <1>7 DEF Expire, Login, listVars
<1> QED
  BY <1>1, <1>2, <1>3, <1>4, <1>5, <1>6, <1>7 DEF StoreNext, Sees

(* Calls and failures are counted within their bounds.                     *)
Counted == writes \in 0 .. MaxWrites /\ drift \in 0 .. MaxDrift

StoreInv == ListInv /\ Counted

LEMMA StoreInitInv ==
    ASSUME StoreInit
    PROVE  StoreInv
<1>1. Counted
  BY StoreAssumption DEF StoreInit, Counted
<1> QED
  BY <1>1, InitList DEF StoreInv

LEMMA StoreStepInv ==
    ASSUME None \notin List, StoreInv, [StoreNext]_storeVars
    PROVE  StoreInv'
<1>1. /\ writes' = writes \/ (writes < MaxWrites /\ writes' = writes + 1)
      /\ drift' = drift \/ Drift
  BY DEF StoreNext, Get, OpenTmp, WriteTmp, Rename, Save, Fail, Invalidate, Hit, Fetch, Keep,
         Expire, Login, Crash, storeVars
<1>2. Counted'
  BY <1>1, StoreAssumption DEF StoreInv, Counted, Drift
<1> QED
  BY <1>2, StepList DEF StoreInv

LEMMA StoreInvTypes ==
    ASSUME StoreInv
    PROVE  StoreTypeOK
  BY DEF StoreInv, ListInv, Types, JobOK, FilesOK, CallOK, Counted, StoreTypeOK

(* The files, the writes in progress and the lists keep their types, for   *)
(* any number of rotators and of requests that list.                       *)
THEOREM StoreTypeCorrect ==
    ASSUME None \notin List
    PROVE  StoreSpec => []StoreTypeOK
<1>1. StoreInit => StoreInv
  BY StoreInitInv
<1>2. StoreInv /\ [StoreNext]_storeVars => StoreInv'
  BY StoreStepInv
<1>3. StoreInv => StoreTypeOK
  BY StoreInvTypes
<1> QED
  BY <1>1, <1>2, <1>3, PTL DEF StoreSpec

(* Any number of rotators and of requests that list: after a write of its  *)
(* own a rotator is given no list the host was asked for before it, unless *)
(* that list was on its way when the cache was emptied.                    *)
THEOREM NoStaleRecount ==
    ASSUME None \notin List
    PROVE  StoreSpec => RecountSeesWrite
<1>1. StoreInit => ListInv
  BY InitList
<1>2. ListInv /\ [StoreNext]_storeVars => ListInv'
  BY StepList
<1>3. ListInv /\ [StoreNext]_storeVars =>
        [\A t \in Ticker :
          (call[t] # call'[t] /\ call'[t].list # None /\ Goes(t, "idle")) =>
              \/ call'[t].list.at >= mine[t]
              \/ call'[t].list.overtaken]_storeVars
  BY ListedWell
<1> QED
  BY <1>1, <1>2, <1>3, PTL DEF StoreSpec, RecountSeesWrite
=============================================================================
