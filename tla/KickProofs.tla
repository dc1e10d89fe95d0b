----------------------------- MODULE KickProofs -----------------------------
(***************************************************************************)
(* Proofs about Kick: types, and that the greetings upstream takes keep to *)
(* the gap and the daily cap, whatever the cap, the panel refreshes and    *)
(* the failures, when the loop alone runs ticks.                           *)
(***************************************************************************)
EXTENDS Kick, TLAPS

Job == Ticker \cup Refresher
Greeting == {"check", "checked", "send", "sent", "confirm"}

-----------------------------------------------------------------------------
(* Types.  The daily count stays within the cap because a tick looks at it *)
(* before it greets, and what it then writes down is one more than that.   *)
CountsWithinCap ==
    /\ saved.kick.today <= Cap
    /\ \A t \in Ticker : job[t].pc \in Greeting => job[t].memo.today < Cap

JobType == [pc : Phase, read : Read, memo : KickMemo]
TypeInv == TypeOK /\ CountsWithinCap

LEMMA IdleType == Idle \in JobType /\ NoKick \in KickMemo
  BY DEF Idle, JobType, NoKick, KickMemo, Phase, Read, Window

LEMMA TypeInit == Init => TypeInv
<1> SUFFICES ASSUME Init
             PROVE  TypeInv
  OBVIOUS
<1>1. /\ {dryRun, refused, due, sweepOpen, early, cool} \subseteq BOOLEAN
      /\ saved.due = FALSE /\ saved.kick = NoKick /\ saved.sweepOpen = TRUE
      /\ saved = [due |-> FALSE, kick |-> NoKick, sweepOpen |-> TRUE]
  BY DEF Init
<1>2. saved \in Persisted /\ saved.kick.today <= Cap /\ kick.today <= Cap
  BY <1>1, IdleType, KickAssumption DEF Persisted, Init, NoKick
<1>3. \A t \in Job : job[t] = Idle
  BY DEF Init, Job
<1>4. job \in [Job -> JobType]
  BY IdleType DEF Init, Job
<1>5. CountsWithinCap
  BY <1>2, <1>3 DEF CountsWithinCap, Greeting, Idle, Job
<1> QED
  BY <1>1, <1>2, <1>4, <1>5, IdleType, KickAssumption
     DEF Init, TypeInv, TypeOK, Job, JobType, Currency

(* What a look, a settlement, the end of a job and a memo leave behind.    *)
LEMMA LookedType ==
    ASSUME TypeInv, NEW j \in Job, NEW phase \in Phase, Looked(j, phase),
           phase \in Greeting => job[j].pc \in Greeting
    PROVE  /\ job' \in [Job -> JobType] /\ fails' \in 0 .. MaxFail
           /\ \A t \in Ticker : job'[t].pc \in Greeting => job'[t].memo.today < Cap
<1> USE DEF TypeInv, TypeOK
<1>1. PICK r \in {window} \cup (IF fails < MaxFail THEN {"error"} ELSE {}) :
        /\ job' = [job EXCEPT ![j].pc = phase, ![j].read = r]
        /\ fails' = IF r = "error" THEN fails + 1 ELSE fails
  BY DEF Looked
<1>2. r \in Read /\ (r = "error" => fails < MaxFail)
  BY DEF Read, Window
<1>3. fails' \in 0 .. MaxFail
  BY <1>1, <1>2, KickAssumption
<1> DEFINE moved == [job EXCEPT ![j].pc = phase]
<1>4. /\ moved \in [Job -> JobType]
      /\ \A i \in Job : /\ moved[i].memo = job[i].memo
                        /\ moved[i].pc = IF i = j THEN phase ELSE job[i].pc
  BY DEF Job, JobType
<1>5. job' = [moved EXCEPT ![j].read = r]
  BY <1>1
<1> HIDE DEF moved
<1>6. /\ job' \in [Job -> JobType]
      /\ \A i \in Job : job'[i].memo = moved[i].memo /\ job'[i].pc = moved[i].pc
  BY <1>2, <1>4, <1>5 DEF JobType
<1>7. \A t \in Ticker : job'[t].pc \in Greeting => job'[t].memo.today < Cap
  BY <1>4, <1>6 DEF CountsWithinCap, Job
<1> QED
  BY <1>3, <1>6, <1>7

LEMMA DoneType ==
    ASSUME TypeInv, NEW j \in Job, Done(j)
    PROVE  /\ job' \in [Job -> JobType]
           /\ \A t \in Ticker : job'[t].pc \in Greeting => job'[t].memo.today < Cap
<1>1. job \in [Job -> JobType] /\ job' = [job EXCEPT ![j] = Idle]
  BY DEF Done, TypeInv, TypeOK, Job, JobType
<1> QED
  BY <1>1, IdleType DEF TypeInv, CountsWithinCap, Job, Idle, Greeting

LEMMA GotoType ==
    ASSUME TypeInv, NEW j \in Job, NEW phase \in Phase, Goto(j, phase),
           phase \in Greeting => job[j].pc \in Greeting
    PROVE  /\ job' \in [Job -> JobType]
           /\ \A t \in Ticker : job'[t].pc \in Greeting => job'[t].memo.today < Cap
<1>1. job \in [Job -> JobType] /\ job' = [job EXCEPT ![j].pc = phase]
  BY DEF Goto, TypeInv, TypeOK, Job, JobType
<1> QED
  BY <1>1 DEF TypeInv, CountsWithinCap, Job, JobType

LEMMA KickedType ==
    ASSUME TypeInv, NEW t \in Ticker, job[t].pc \in Greeting
    PROVE  Kicked(t) \in KickMemo /\ Kicked(t).today <= Cap
<1>1. job[t].memo \in KickMemo /\ job[t].memo.today < Cap
  BY DEF TypeInv, TypeOK, CountsWithinCap
<1>2. job[t].memo.today \in Nat
  BY <1>1 DEF KickMemo
<1> QED
  BY <1>1, <1>2, KickAssumption DEF Kicked, KickMemo

LEMMA TypeTick ==
    ASSUME TypeInv, NEW t \in Ticker, TickBegin(t) \/ TickStep(t)
    PROVE  TypeInv'
<1> USE DEF TypeInv, TypeOK, outside, upstream, At
<1>1. t \in Job
  BY DEF Job
<1> DEFINE JobOK == /\ job' \in [Job -> JobType]
                    /\ \A u \in Ticker : job'[u].pc \in Greeting => job'[u].memo.today < Cap
<1>2. CASE TickBegin(t)
  <2>1. PICK phase \in {"greet", "sweep"} : Goto(t, phase)
    BY <1>2 DEF TickBegin
  <2>2. JobOK
    BY <1>1, <2>1, GotoType DEF Phase, Greeting
  <2>3. {sweepOpen', early'} \subseteq BOOLEAN
    BY <1>2 DEF TickBegin
  <2> QED
    BY <1>2, <2>2, <2>3 DEF TickBegin, CountsWithinCap, Job, JobType
<1>3. CASE SweepLook(t)
  <2>1. JobOK /\ fails' \in 0 .. MaxFail
    BY <1>1, <1>3, LookedType DEF SweepLook, Phase, Greeting
  <2> QED
    BY <1>3, <2>1 DEF SweepLook, CountsWithinCap, Job, JobType
<1>4. CASE SweepSettle(t)
  <2>1. JobOK
    BY <1>1, <1>4, GotoType DEF SweepSettle, Phase, Greeting
  <2>2. due' \in BOOLEAN /\ seen' \in Currency
    BY <1>4 DEF SweepSettle, Settled, Currency
  <2> QED
    BY <1>4, <2>1, <2>2 DEF SweepSettle, CountsWithinCap, Job, JobType
<1>5. CASE Greet(t)
  <2>1. due' \in BOOLEAN
    BY <1>5 DEF Greet
  <2>2. CASE Done(t)
    <3>1. JobOK
      BY <1>1, <2>2, DoneType
    <3> QED
      BY <1>5, <2>1, <3>1 DEF Greet, CountsWithinCap, Job, JobType
  <2>3. CASE job' = [job EXCEPT ![t].pc = "check", ![t].memo = kick] /\ kick.today < Cap
    <3> DEFINE moved == [job EXCEPT ![t].pc = "check"]
    <3>1. /\ moved \in [Job -> JobType]
          /\ \A i \in Job \ {t} : moved[i] = job[i]
      BY DEF Job, JobType, Phase
    <3>2. job' = [moved EXCEPT ![t].memo = kick]
      BY <2>3
    <3> HIDE DEF moved
    <3>3. JobOK
      <4>1. job' \in [Job -> JobType] /\ (\A i \in Job \ {t} : job'[i] = job[i])
            /\ job'[t].memo = kick
        BY <1>1, <3>1, <3>2 DEF JobType
      <4> QED
        BY <2>3, <4>1 DEF CountsWithinCap, Job
    <3> QED
      BY <1>5, <2>1, <3>3 DEF Greet, CountsWithinCap, Job, JobType
  <2> QED
    BY <1>5, <2>2, <2>3 DEF Greet
<1>6. CASE CheckLook(t)
  <2>1. JobOK /\ fails' \in 0 .. MaxFail
    BY <1>1, <1>6, LookedType DEF CheckLook, Phase, Greeting
  <2> QED
    BY <1>6, <2>1 DEF CheckLook, CountsWithinCap, Job, JobType
<1>7. CASE CheckSettle(t)
  <2>1. (Done(t) \/ Goto(t, "send")) /\ due' \in BOOLEAN /\ kick' \in {kick, Kicked(t)}
    <3>1. job[t].read \in {"running", "waiting", "error"}
      BY DEF Read, Window
    <3> QED
      BY <1>7, <3>1 DEF CheckSettle
  <2>2. JobOK
    BY <1>1, <1>7, <2>1, DoneType, GotoType DEF CheckSettle, Phase, Greeting
  <2>3. kick' \in KickMemo /\ kick'.today <= Cap
    BY <1>7, <2>1, KickedType DEF CheckSettle, Greeting
  <2>4. seen' \in Currency
    BY <1>7 DEF CheckSettle, Currency
  <2> QED
    BY <1>7, <2>1, <2>2, <2>3, <2>4 DEF CheckSettle, CountsWithinCap, Job, JobType
<1>8. CASE SendTaken(t)
  <2>1. JobOK
    BY <1>1, <1>8, GotoType DEF SendTaken, Phase, Greeting
  <2> QED
    BY <1>8, <2>1 DEF SendTaken, Window, CountsWithinCap, Job, JobType
<1>9. CASE SendFailed(t)
  <2>1. JobOK
    BY <1>1, <1>9, DoneType DEF SendFailed
  <2>2. kick' \in KickMemo /\ kick'.today <= Cap
    BY <1>9, KickedType DEF SendFailed, Greeting
  <2>3. window' \in Window /\ sent' \in Nat /\ fails' \in 0 .. MaxFail
    BY <1>9, KickAssumption DEF SendFailed, Window
  <2>4. cool' \in BOOLEAN
    BY <1>9 DEF SendFailed
  <2> QED
    BY <1>9, <2>1, <2>2, <2>3, <2>4 DEF SendFailed, CountsWithinCap, Job, JobType
<1>10. CASE ConfirmLook(t)
  <2>1. JobOK /\ fails' \in 0 .. MaxFail
    BY <1>1, <1>10, LookedType DEF ConfirmLook, Phase, Greeting
  <2> QED
    BY <1>10, <2>1 DEF ConfirmLook, CountsWithinCap, Job, JobType
<1>11. CASE Confirm(t)
  <2>1. JobOK
    BY <1>1, <1>11, DoneType DEF Confirm
  <2>2. kick' \in KickMemo /\ kick'.today <= Cap
    BY <1>11, KickedType DEF Confirm, Greeting
  <2>3. due' \in BOOLEAN
    <3>1. job[t].read \in {"running", "waiting", "error"}
      BY DEF Read, Window
    <3> QED
      BY <1>11, <3>1 DEF Confirm
  <2>4. seen' \in Currency
    BY <1>11 DEF Confirm, Currency
  <2> QED
    BY <1>11, <2>1, <2>2, <2>3, <2>4 DEF Confirm, CountsWithinCap, Job, JobType
<1> QED
  BY <1>2, <1>3, <1>4, <1>5, <1>6, <1>7, <1>8, <1>9, <1>10, <1>11 DEF TickStep

LEMMA TypeStep ==
    ASSUME TypeInv, [Next]_vars
    PROVE  TypeInv'
<1> USE DEF TypeInv, TypeOK, outside, upstream, At
<1>1. ASSUME NEW t \in Ticker, TickBegin(t) \/ TickStep(t)
      PROVE  TypeInv'
  BY <1>1, TypeTick
<1>2. ASSUME NEW r \in Refresher, RefreshLook(r)
      PROVE  TypeInv'
  <2>1. /\ job' \in [Job -> JobType] /\ fails' \in 0 .. MaxFail
        /\ \A t \in Ticker : job'[t].pc \in Greeting => job'[t].memo.today < Cap
    BY <1>2, LookedType DEF RefreshLook, Phase, Greeting, Job
  <2> QED
    BY <1>2, <2>1 DEF RefreshLook, CountsWithinCap, Job, JobType
<1>3. ASSUME NEW r \in Refresher, RefreshSettle(r)
      PROVE  TypeInv'
  <2>1. /\ job' \in [Job -> JobType]
        /\ \A t \in Ticker : job'[t].pc \in Greeting => job'[t].memo.today < Cap
    BY <1>3, DoneType DEF RefreshSettle, Job
  <2>2. due' \in BOOLEAN /\ seen' \in Currency
    BY <1>3 DEF RefreshSettle, Settled, Currency
  <2> QED
    BY <1>3, <2>1, <2>2 DEF RefreshSettle, CountsWithinCap, Job, JobType
<1>4. CASE Reset
  BY <1>4 DEF Reset, Window, Currency, CountsWithinCap
<1>5. CASE EarlyReset
  BY <1>5 DEF EarlyReset, Currency, CountsWithinCap
<1>6. CASE Serve
  BY <1>6 DEF Serve, Window, Currency, CountsWithinCap
<1>7. CASE Refuse
  <2>1. refused' \in BOOLEAN
    BY <1>7 DEF Refuse
  <2> QED
    BY <1>7, <2>1 DEF Refuse, CountsWithinCap
<1>8. CASE GapElapses
  <2>1. kick' \in KickMemo /\ kick'.today <= Cap
    BY <1>8 DEF GapElapses, KickMemo
  <2>2. saved' \in Persisted /\ saved'.kick.today <= Cap
    BY <1>8 DEF GapElapses, KickMemo, Persisted, CountsWithinCap
  <2> QED
    BY <1>8, <2>1, <2>2 DEF GapElapses, CountsWithinCap
<1>9. CASE IntervalElapses
  <2>1. saved' \in Persisted /\ saved'.kick = saved.kick
    BY <1>9 DEF IntervalElapses, Persisted
  <2> QED
    BY <1>9, <2>1 DEF IntervalElapses, Currency, CountsWithinCap
<1>10. CASE NewDay
  <2>1. kick' \in KickMemo /\ kick'.today <= Cap
    BY <1>10, KickAssumption DEF NewDay, KickMemo
  <2>2. saved' \in Persisted /\ saved'.kick.today <= Cap
    BY <1>10, KickAssumption DEF NewDay, KickMemo, Persisted
  <2> QED
    BY <1>10, <2>1, <2>2 DEF NewDay, CountsWithinCap
<1>11. CASE Flush
  BY <1>11 DEF Flush, Persisted, CountsWithinCap
<1>12. CASE Crash
  <2>1. job' = [j \in Job |-> Idle] /\ crashes' \in 0 .. MaxCrash
    BY <1>12, KickAssumption DEF Crash, Job
  <2>2. kick' \in KickMemo /\ {due', sweepOpen', early'} \subseteq BOOLEAN
    BY <1>12 DEF Crash, Persisted
  <2>3. CountsWithinCap'
    BY <1>12, <2>1 DEF Crash, CountsWithinCap, Idle, Greeting, Job
  <2>4. job' \in [Job -> JobType]
    BY <2>1, IdleType
  <2> QED
    BY <1>12, <2>1, <2>2, <2>3, <2>4 DEF Crash, CountsWithinCap, Currency, Job, JobType
<1>13. CASE UNCHANGED vars
  BY <1>13 DEF vars, CountsWithinCap
<1> QED
  BY <1>1, <1>2, <1>3, <1>4, <1>5, <1>6, <1>7, <1>8, <1>9, <1>10, <1>11, <1>12, <1>13 DEF Next

(* Types, for any tickers, panel refreshes, cap and bounds: the daily      *)
(* count never goes above the cap, even with two tickers.                  *)
THEOREM TypeCorrect == Spec => []TypeOK
<1>1. TypeInv /\ [Next]_vars => TypeInv'
  BY TypeStep
<1>2. TypeInv => TypeOK
  BY DEF TypeInv
<1> QED
  BY <1>1, <1>2, TypeInit, PTL DEF Spec

-----------------------------------------------------------------------------
(* One ticker, no restart: what it reads before it greets is still so when *)
(* the greeting goes out, and the memo counts every greeting but the one   *)
(* in progress.                                                            *)
Booked(t) ==
    /\ job[t].pc \in Greeting => job[t].memo = kick /\ ~kick.recent /\ kick.today < Cap
    /\ IF job[t].pc \in {"sent", "confirm"}
       THEN sent <= kick.today + 1
       ELSE sent <= kick.today /\ (cool => kick.recent)

BookedInv == crashes = 0 => \A t \in Ticker : Booked(t)

LEMMA BookedInit == Init => BookedInv
<1> SUFFICES ASSUME Init, NEW t \in Ticker
             PROVE  Booked(t)
  BY DEF BookedInv
<1>1. job[t] = Idle /\ sent = 0 /\ kick.today = 0 /\ cool = FALSE
  BY DEF Init, NoKick
<1> QED
  BY <1>1 DEF Booked, Idle, Greeting

(* Steps that leave the tick's place, its memo and the ledgers alone.      *)
LEMMA QuietBooked ==
    ASSUME NEW t \in Ticker, Booked(t), UNCHANGED <<kick, sent, cool>>,
           job'[t].pc = job[t].pc, job'[t].memo = job[t].memo
    PROVE  Booked(t)'
  BY DEF Booked

(* Looking moves the tick on, within the greeting or outside it.           *)
LEMMA LookedBooked ==
    ASSUME TypeInv, NEW t \in Ticker, NEW phase \in Phase, Looked(t, phase), Booked(t),
           UNCHANGED <<kick, sent, cool>>,
           job[t].pc \in Greeting <=> phase \in Greeting,
           job[t].pc \in {"sent", "confirm"} <=> phase \in {"sent", "confirm"}
    PROVE  Booked(t)'
<1>1. PICK r : job' = [job EXCEPT ![t].pc = phase, ![t].read = r]
  BY DEF Looked
<1>2. job'[t].pc = phase /\ job'[t].memo = job[t].memo
  BY <1>1 DEF TypeInv, TypeOK
<1> QED
  BY <1>2 DEF Booked

(* The tick's own steps.                                                   *)
LEMMA TickBooked ==
    ASSUME TypeInv, NEW t \in Ticker, Booked(t), TickBegin(t) \/ TickStep(t)
    PROVE  Booked(t)'
<1> USE DEF At, outside, upstream
<1>1. job \in [Job -> JobType] /\ t \in Job
  BY DEF TypeInv, TypeOK, Job, JobType
<1>2. /\ sent \in Nat /\ kick.today \in Nat /\ {cool, kick.recent} \subseteq BOOLEAN
      /\ sent' \in Nat
  <2>1. TypeInv'
    BY TypeTick
  <2> QED
    BY <2>1 DEF TypeInv, TypeOK, KickMemo
<1>3. ASSUME NEW phase, Goto(t, phase)
      PROVE  job'[t].pc = phase /\ job'[t].memo = job[t].memo
  BY <1>1, <1>3 DEF Goto, JobType
<1>4. Done(t) => job'[t].pc = "idle"
  BY <1>1 DEF Done, Idle
<1>5. CASE TickBegin(t)
  <2>1. job'[t].pc \in {"greet", "sweep"} /\ UNCHANGED <<kick, sent, cool>>
    BY <1>3, <1>5 DEF TickBegin
  <2> QED
    BY <1>5, <2>1 DEF TickBegin, Booked, Greeting
<1>6. CASE SweepLook(t)
  BY <1>6, LookedBooked DEF SweepLook, Phase, Greeting
<1>7. CASE SweepSettle(t)
  BY <1>3, <1>7 DEF SweepSettle, Booked, Greeting
<1>8. CASE Greet(t)
  <2>1. UNCHANGED <<kick, sent, cool>> /\ job[t].pc = "greet"
    BY <1>8 DEF Greet
  <2>2. CASE Done(t)
    BY <1>4, <2>1, <2>2 DEF Booked, Greeting
  <2>3. CASE ~Done(t)
    <3>1. /\ job' = [job EXCEPT ![t].pc = "check", ![t].memo = kick]
          /\ ~kick.recent /\ kick.today < Cap
      BY <1>8, <2>3 DEF Greet
    <3>2. job'[t].pc = "check" /\ job'[t].memo = kick
      BY <1>1, <3>1 DEF JobType
    <3> QED
      BY <2>1, <3>1, <3>2 DEF Booked
  <2> QED
    BY <2>2, <2>3
<1>9. CASE CheckLook(t)
  BY <1>9, LookedBooked DEF CheckLook, Phase, Greeting
<1>10. CASE CheckSettle(t)
  <2>1. /\ Booked(t) /\ job[t].pc = "checked" /\ sent <= kick.today /\ (cool => kick.recent)
        /\ job[t].memo = kick
    BY <1>10 DEF CheckSettle, Booked, Greeting
  <2>2. \/ Done(t) /\ kick' = kick
        \/ Done(t) /\ kick' = Kicked(t)
        \/ Goto(t, "send") /\ kick' = kick
    <3>1. job[t].read \in {"running", "waiting", "error"}
      BY <1>1 DEF JobType, Read, Window
    <3> QED
      BY <1>10, <3>1 DEF CheckSettle
  <2>3. UNCHANGED <<sent, cool>>
    BY <1>10 DEF CheckSettle
  <2>4. CASE Done(t) /\ kick' = kick
    BY <1>4, <2>1, <2>3, <2>4 DEF Booked, Greeting
  <2>5. CASE Done(t) /\ kick' = Kicked(t)
    <3>1. kick'.today = kick.today + 1 /\ kick'.recent
      BY <2>1, <2>5 DEF Kicked
    <3>2. sent <= kick.today + 1
      BY <1>2, <2>1
    <3> QED
      BY <1>4, <2>3, <2>5, <3>1, <3>2 DEF Booked, Greeting
  <2>6. CASE Goto(t, "send") /\ kick' = kick
    BY <1>3, <2>1, <2>3, <2>6 DEF Booked, Greeting
  <2> QED
    BY <2>2, <2>4, <2>5, <2>6
<1>11. CASE SendTaken(t)
  <2>1. sent <= kick.today /\ sent' = sent + 1 /\ kick' = kick /\ job[t].pc = "send"
    BY <1>11 DEF SendTaken, Booked
  <2>2. sent' <= kick.today + 1
    BY <1>2, <2>1
  <2> QED
    BY <1>3, <1>11, <2>1, <2>2 DEF SendTaken, Booked, Greeting
<1>12. CASE SendFailed(t)
  <2>1. sent <= kick.today /\ job[t].pc = "send" /\ job[t].memo = kick
    BY <1>12 DEF SendFailed, Booked, Greeting
  <2>2. sent' = sent \/ sent' = sent + 1
    BY <1>12 DEF SendFailed
  <2>3. kick'.today = kick.today + 1 /\ kick'.recent
    BY <1>12, <2>1 DEF SendFailed, Kicked
  <2>4. sent' <= kick'.today
    BY <1>2, <2>1, <2>2, <2>3
  <2> QED
    BY <1>4, <1>12, <2>3, <2>4 DEF SendFailed, Booked, Greeting
<1>13. CASE ConfirmLook(t)
  BY <1>13, LookedBooked DEF ConfirmLook, Phase, Greeting
<1>14. CASE Confirm(t)
  <2>1. sent <= kick.today + 1 /\ job[t].memo = kick /\ sent' = sent
    BY <1>14 DEF Confirm, Booked, Greeting
  <2>2. kick'.today = kick.today + 1 /\ kick'.recent
    BY <1>14, <2>1 DEF Confirm, Kicked
  <2> QED
    BY <1>4, <1>14, <2>1, <2>2 DEF Confirm, Booked, Greeting
<1> QED
  BY <1>5, <1>6, <1>7, <1>8, <1>9, <1>10, <1>11, <1>12, <1>13, <1>14 DEF TickStep

LEMMA BookedStep ==
    ASSUME NEW t, Ticker = {t}, TypeInv, BookedInv, [Next]_vars
    PROVE  BookedInv'
<1> SUFFICES ASSUME crashes' = 0
             PROVE  Booked(t)'
  BY DEF BookedInv
<1> USE DEF At
<1>1. job \in [Job -> JobType] /\ t \in Job /\ t \in Ticker /\ t \notin Refresher
  BY KickAssumption DEF TypeInv, TypeOK, Job, JobType
<1>2. crashes = 0 /\ ~Crash
  <2>1. crashes \in Nat
    BY KickAssumption DEF TypeInv, TypeOK
  <2>2. ~Crash
    BY <2>1 DEF Crash
  <2>3. crashes' = crashes
    BY <2>2 DEF Next, vars, TickBegin, TickStep, SweepLook, SweepSettle, Greet, CheckLook,
       CheckSettle, SendTaken, SendFailed, ConfirmLook, Confirm, RefreshLook, RefreshSettle,
       Reset, EarlyReset, Serve, Refuse, GapElapses, IntervalElapses, NewDay, Flush
  <2> QED
    BY <2>2, <2>3
<1>3. Booked(t)
  BY <1>1, <1>2 DEF BookedInv
<1>4. CASE TickBegin(t) \/ TickStep(t)
  BY <1>1, <1>3, <1>4, TickBooked
<1>5. ASSUME NEW r \in Refresher, RefreshLook(r) \/ RefreshSettle(r)
      PROVE  Booked(t)'
  <2>1. job'[t] = job[t] /\ UNCHANGED <<kick, sent, cool>>
    BY <1>1, <1>5 DEF RefreshLook, RefreshSettle, Looked, Done, outside, upstream
  <2> QED
    BY <1>1, <1>3, <2>1, QuietBooked
<1>6. CASE UNCHANGED <<job, kick, sent, cool>>
  BY <1>1, <1>3, <1>6, QuietBooked
<1>7. CASE GapElapses
  <2>1. /\ job[t].pc = "idle" /\ cool' = FALSE /\ kick'.today = kick.today
        /\ UNCHANGED <<job, sent>>
    BY <1>1, <1>7 DEF GapElapses, BetweenTicks, TypeInv, TypeOK, KickMemo
  <2> QED
    BY <1>3, <2>1 DEF Booked, Greeting
<1>8. CASE NewDay
  <2>1. /\ job[t].pc = "idle" /\ sent' = 0 /\ kick'.today = 0 /\ kick'.recent = kick.recent
        /\ UNCHANGED <<job, cool>>
    BY <1>1, <1>8 DEF NewDay, BetweenTicks, TypeInv, TypeOK, KickMemo
  <2> QED
    BY <1>3, <2>1 DEF Booked, Greeting
<1> QED
  BY <1>1, <1>2, <1>4, <1>5, <1>6, <1>7, <1>8
     DEF Next, vars, Reset, EarlyReset, Serve, Refuse, IntervalElapses, Flush

(* A greeting goes out from "send", where the memo is as the tick read it. *)
LEMMA GreetsFromSend ==
    ASSUME TypeInv, [Next]_vars, sent' > sent
    PROVE  \E t \in Ticker : job[t].pc = "send"
<1>1. sent \in Nat
  BY DEF TypeInv, TypeOK
<1>2. ~NewDay
  BY <1>1 DEF NewDay
<1>3. ASSUME NEW t \in Ticker, SendTaken(t) \/ SendFailed(t)
      PROVE  job[t].pc = "send"
  BY <1>3 DEF SendTaken, SendFailed, At
<1>4. sent' # sent
  BY <1>1
<1> QED
  BY <1>2, <1>3, <1>4
     DEF Next, vars, TickBegin, TickStep, SweepLook, SweepSettle, Greet, CheckLook, CheckSettle,
         ConfirmLook, Confirm, RefreshLook, RefreshSettle, Reset, EarlyReset, Serve, Refuse,
         GapElapses, IntervalElapses, Flush, Crash, outside, upstream

(* README: a greeting "is retried after 30 minutes, at most 3 times a      *)
(* day": for any cap, panel refreshes, refusals, failures and resets, as   *)
(* long as only the loop ticks.                                            *)
THEOREM LoopGreetsWithinBounds ==
    ASSUME NEW t, Ticker = {t}
    PROVE  Spec => GreetingsBounded
<1>1. TypeInv /\ BookedInv /\ [Next]_vars => TypeInv' /\ BookedInv'
  BY TypeStep, BookedStep
<1>2. TypeInv /\ BookedInv /\ [Next]_vars =>
        [sent' > sent => (~cool /\ sent < Cap) \/ crashes > 0]_vars
  <2> SUFFICES ASSUME TypeInv, BookedInv, [Next]_vars, sent' > sent
               PROVE  (~cool /\ sent < Cap) \/ crashes > 0
    OBVIOUS
  <2>1. crashes = 0 \/ crashes > 0
    BY KickAssumption DEF TypeInv, TypeOK
  <2>2. CASE crashes = 0
    <3>1. job[t].pc = "send" /\ Booked(t)
      BY <2>2, GreetsFromSend DEF BookedInv
    <3>2. sent <= kick.today /\ (cool => kick.recent) /\ ~kick.recent /\ kick.today < Cap
      BY <3>1 DEF Booked, Greeting
    <3>3. sent \in Nat /\ kick.today \in Nat /\ Cap \in Nat
      BY KickAssumption DEF TypeInv, TypeOK, KickMemo
    <3> QED
      BY <3>2, <3>3
  <2> QED
    BY <2>1, <2>2
<1> QED
  BY <1>1, <1>2, TypeInit, BookedInit, PTL DEF Spec, GreetingsBounded
=============================================================================
