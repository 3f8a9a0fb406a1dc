------------------------------- MODULE Actor --------------------------------
(***************************************************************************)
(* The actor of infra/actor/actor.go: a buffered mailbox channel of        *)
(* capacity MailboxSize drained by one run goroutine, callers using Tell   *)
(* and Ask, and an owner calling Stop.                                     *)
(*                                                                         *)
(* Go channel semantics are kept: a select picks any ready case; a send on *)
(* a closed channel is ready and panics; a receive from a closed, empty    *)
(* channel is ready and yields the zero value.  Each Ask has its own       *)
(* replyCh and errorCh of capacity 1, closed together by run after the     *)
(* reply.  ProcessMessage's effect is abstracted to its outcome.           *)
(***************************************************************************)
EXTENDS Naturals, Sequences, SequencesExt

CONSTANTS
  Callers,      \* goroutines calling Tell and Ask
  MailboxSize,  \* capacity of the mailbox channel
  MaxOps,       \* bound: Tell/Ask calls made by each caller
  NoMsg         \* no message in hand

ASSUME MailboxSize \in Nat \ {0} /\ MaxOps \in Nat

(* A message is identified by its sender and its sequence number there. *)
MsgIds == Callers \X (1..MaxOps)
Msgs   == [id : MsgIds, ask : BOOLEAN]

(* What an Ask returned: the processor's response, an error taken from    *)
(* errorCh (the processor's, or the drain's "stopped before processing"), *)
(* the zero values read from a closed channel, the caller's ctx error, or *)
(* one of the two "actor stopped" errors.                                 *)
AskAnswers  == {"resp", "procErr", "drainErr", "nilnil", "ctxErr", "stopped"}
TellAnswers == {"nil", "stopped", "full"}

VARIABLES
  mailbox,     \* buffered messages of the mailbox channel
  mboxClosed,  \* close(a.mailbox) has run
  stopClosed,  \* close(a.stopCh) has run
  lpc,         \* run goroutine: "select", "reply", "drain", "exited"
  cur,         \* the Ask message run is replying to
  outcome,     \* ProcessMessage's outcome for cur: "resp" or "err"
  rbuf,        \* replyCh buffer per Ask: "" or "resp"
  ebuf,        \* errorCh buffer per Ask: "", "procErr" or "drainErr"
  chClosed,    \* replyCh and errorCh of the Ask closed
  ctxDone,     \* the Ask's context is done
  kpc,         \* caller: "idle", "askSend", "askWait"
  ops,         \* Tell/Ask calls each caller has made
  spc,         \* owner: "running", "waiting" (in wg.Wait), "returned"
  enqueued,    \* history: ids in the order they entered the mailbox
  processed,   \* history: ids in the order ProcessMessage ran on them
  drained,     \* history: ids discarded by run's deferred drain
  procOut,     \* history: ProcessMessage outcome per id
  answer,      \* history: what each Tell/Ask returned
  panicked     \* "" or the panic that killed the process

vars == <<mailbox, mboxClosed, stopClosed, lpc, cur, outcome, rbuf, ebuf,
          chClosed, ctxDone, kpc, ops, spc, enqueued, processed, drained,
          procOut, answer, panicked>>
chanVars == <<rbuf, ebuf, chClosed>>
histVars == <<enqueued, processed, drained, procOut, answer>>

MsgId(c) == <<c, ops[c]>>
Ids(s) == [i \in DOMAIN s |-> s[i].id]

(* Faulty variant of SendReady: a mailbox without a capacity bound.      *)
SendReadyUnbounded == TRUE

(* A send on the mailbox is ready when it has room, or when it is closed  *)
(* (and then panics).                                                     *)
SendReady == mboxClosed \/ Len(mailbox) < MailboxSize

Enqueue(m) ==
  /\ mailbox' = Append(mailbox, m)
  /\ enqueued' = Append(enqueued, m.id)

-----------------------------------------------------------------------------
Init ==
  /\ mailbox = <<>>
  /\ mboxClosed = FALSE
  /\ stopClosed = FALSE
  /\ lpc = "select"
  /\ cur = NoMsg
  /\ outcome = "resp"
  /\ rbuf = [i \in MsgIds |-> ""]
  /\ ebuf = [i \in MsgIds |-> ""]
  /\ chClosed = [i \in MsgIds |-> FALSE]
  /\ ctxDone = [i \in MsgIds |-> FALSE]
  /\ kpc = [c \in Callers |-> "idle"]
  /\ ops = [c \in Callers |-> 0]
  /\ spc = "running"
  /\ enqueued = <<>>
  /\ processed = <<>>
  /\ drained = <<>>
  /\ procOut = [i \in MsgIds |-> ""]
  /\ answer = [i \in MsgIds |-> ""]
  /\ panicked = ""

-----------------------------------------------------------------------------
(* Callers.                                                                *)
(***************************************************************************)

(* Tell: two non-blocking selects over the send and stopCh; with neither  *)
(* ready it reports a full mailbox.                                       *)
Tell(c) ==
  LET id == <<c, ops[c] + 1>>
      m  == [id |-> id, ask |-> FALSE]
  IN
  /\ panicked = "" /\ kpc[c] = "idle" /\ ops[c] < MaxOps
  /\ ops' = [ops EXCEPT ![c] = @ + 1]
  /\ \/ /\ SendReady /\ mboxClosed
        /\ panicked' = "sendOnClosedMailbox"
        /\ UNCHANGED <<mailbox, histVars>>
     \/ /\ SendReady /\ ~mboxClosed
        /\ Enqueue(m)
        /\ answer' = [answer EXCEPT ![id] = "nil"]
        /\ UNCHANGED <<processed, drained, procOut, panicked>>
     \/ /\ stopClosed
        /\ answer' = [answer EXCEPT ![id] = "stopped"]
        /\ UNCHANGED <<mailbox, enqueued, processed, drained, procOut, panicked>>
     \/ /\ ~SendReady /\ ~stopClosed
        /\ answer' = [answer EXCEPT ![id] = "full"]
        /\ UNCHANGED <<mailbox, enqueued, processed, drained, procOut, panicked>>
  /\ UNCHANGED <<mboxClosed, stopClosed, lpc, cur, outcome, chanVars, ctxDone,
                 kpc, spc>>

(* Ask creates its reply channels and message. *)
Ask(c) ==
  /\ panicked = "" /\ kpc[c] = "idle" /\ ops[c] < MaxOps
  /\ ops' = [ops EXCEPT ![c] = @ + 1]
  /\ kpc' = [kpc EXCEPT ![c] = "askSend"]
  /\ UNCHANGED <<mailbox, mboxClosed, stopClosed, lpc, cur, outcome, chanVars,
                 ctxDone, spc, histVars, panicked>>

(* Ask's first select blocks until the send, stopCh or ctx.Done is ready. *)
AskSend(c) ==
  LET id == MsgId(c) IN
  /\ panicked = "" /\ kpc[c] = "askSend"
  /\ \/ /\ SendReady /\ mboxClosed
        /\ panicked' = "sendOnClosedMailbox"
        /\ UNCHANGED <<kpc, mailbox, histVars>>
     \/ /\ SendReady /\ ~mboxClosed
        /\ Enqueue([id |-> id, ask |-> TRUE])
        /\ kpc' = [kpc EXCEPT ![c] = "askWait"]
        /\ UNCHANGED <<processed, drained, procOut, answer, panicked>>
     \/ /\ stopClosed \/ ctxDone[id]
        /\ \E a \in {"stopped", "ctxErr"} :
             /\ a = "stopped" => stopClosed
             /\ a = "ctxErr" => ctxDone[id]
             /\ answer' = [answer EXCEPT ![id] = a]
        /\ kpc' = [kpc EXCEPT ![c] = "idle"]
        /\ UNCHANGED <<mailbox, enqueued, processed, drained, procOut, panicked>>
  /\ UNCHANGED <<mboxClosed, stopClosed, lpc, cur, outcome, chanVars, ctxDone,
                 ops, spc>>

(* Ask's second select: a value or the closure of replyCh or errorCh,     *)
(* ctx.Done, or stopCh, whichever is ready.                               *)
AskWait(c) ==
  LET id == MsgId(c)
      ready ==
        (IF rbuf[id] # "" THEN {"resp"} ELSE {})
        \cup (IF ebuf[id] # "" THEN {ebuf[id]} ELSE {})
        \cup (IF chClosed[id] /\ rbuf[id] = "" THEN {"nilnil"} ELSE {})
        \cup (IF chClosed[id] /\ ebuf[id] = "" THEN {"nilnil"} ELSE {})
        \cup (IF ctxDone[id] THEN {"ctxErr"} ELSE {})
        \cup (IF stopClosed THEN {"stopped"} ELSE {})
  IN
  /\ panicked = "" /\ kpc[c] = "askWait"
  /\ \E a \in ready :
       /\ answer' = [answer EXCEPT ![id] = a]
       /\ rbuf' = IF a = "resp" THEN [rbuf EXCEPT ![id] = ""] ELSE rbuf
       /\ ebuf' = IF a \in {"procErr", "drainErr"} THEN [ebuf EXCEPT ![id] = ""] ELSE ebuf
  /\ kpc' = [kpc EXCEPT ![c] = "idle"]
  /\ UNCHANGED <<mailbox, mboxClosed, stopClosed, lpc, cur, outcome, chClosed,
                 ctxDone, ops, spc, enqueued, processed, drained, procOut, panicked>>

(* Asks whose context still matters: the caller is inside Ask, or the     *)
(* message waits in the mailbox, or run is replying to it.                *)
PendingAsks ==
  {MsgId(c) : c \in {x \in Callers : kpc[x] # "idle"}}
  \cup {m.id : m \in {x \in ToSet(mailbox) : x.ask}}
  \cup (IF lpc = "reply" THEN {cur.id} ELSE {})

(* Environment: the deadline or cancel of an Ask's context fires, while   *)
(* the caller waits or after it returned (callers defer cancel()).        *)
Cancel ==
  \E id \in PendingAsks :
    /\ panicked = "" /\ ~ctxDone[id]
    /\ ctxDone' = [ctxDone EXCEPT ![id] = TRUE]
    /\ UNCHANGED <<mailbox, mboxClosed, stopClosed, lpc, cur, outcome, chanVars,
                   kpc, ops, spc, histVars, panicked>>

-----------------------------------------------------------------------------
(* The run goroutine.                                                      *)
(***************************************************************************)

(* Faulty variant of LoopReceive: an Ask is processed but never answered *)
(* (the reply select is missing).                                         *)
LoopReceiveNoReply ==
  /\ panicked = "" /\ lpc = "select" /\ mailbox # <<>>
  /\ mailbox' = Tail(mailbox)
  /\ processed' = Append(processed, Head(mailbox).id)
  /\ UNCHANGED <<mboxClosed, stopClosed, lpc, cur, outcome, chanVars, ctxDone,
                 kpc, ops, spc, enqueued, drained, procOut, answer, panicked>>

(* run's select receives the next message, or takes stopCh; any ready     *)
(* case may be chosen.  A received message is processed at once; an Ask   *)
(* then goes on to the reply, a Tell's outcome is only logged.            *)
LoopReceive ==
  LET m == Head(mailbox) IN
  /\ panicked = "" /\ lpc = "select" /\ mailbox # <<>>
  /\ mailbox' = Tail(mailbox)
  /\ processed' = Append(processed, m.id)
  /\ \/ /\ m.ask
        /\ \E o \in {"resp", "err"} :
             /\ procOut' = [procOut EXCEPT ![m.id] = o]
             /\ outcome' = o
        /\ lpc' = "reply"
        /\ cur' = m
     \/ /\ ~m.ask
        /\ UNCHANGED <<procOut, outcome, lpc, cur>>
  /\ UNCHANGED <<mboxClosed, stopClosed, chanVars, ctxDone, kpc, ops, spc,
                 enqueued, drained, answer, panicked>>

(* The stopCh case returns; the deferred function closes the mailbox.     *)
LoopStop ==
  /\ panicked = "" /\ lpc = "select" /\ stopClosed
  /\ mboxClosed' = TRUE
  /\ lpc' = "drain"
  /\ UNCHANGED <<mailbox, stopClosed, cur, outcome, chanVars, ctxDone, kpc, ops,
                 spc, histVars, panicked>>

(* The reply select: the send on the Ask's buffered channel is always     *)
(* ready, stopCh and the message's ctx.Done may be too; then both reply   *)
(* channels are closed.                                                   *)
LoopReply ==
  LET id == cur.id IN
  /\ panicked = "" /\ lpc = "reply"
  /\ \/ /\ outcome = "resp"
        /\ rbuf' = [rbuf EXCEPT ![id] = "resp"]
        /\ UNCHANGED ebuf
     \/ /\ outcome = "err"
        /\ ebuf' = [ebuf EXCEPT ![id] = "procErr"]
        /\ UNCHANGED rbuf
     \/ /\ stopClosed \/ ctxDone[id]
        /\ UNCHANGED <<rbuf, ebuf>>
  /\ chClosed' = [chClosed EXCEPT ![id] = TRUE]
  /\ lpc' = "select"
  /\ cur' = NoMsg
  /\ outcome' = "resp"
  /\ UNCHANGED <<mailbox, mboxClosed, stopClosed, ctxDone, kpc, ops,
                 spc, histVars, panicked>>

(* Faulty variant of LoopDrain: the goroutine never reaches wg.Done.     *)
LoopDrainNoDone ==
  /\ panicked = "" /\ lpc = "drain" /\ mailbox # <<>>
  /\ ebuf' = IF Head(mailbox).ask /\ ebuf[Head(mailbox).id] = ""
               THEN [ebuf EXCEPT ![Head(mailbox).id] = "drainErr"] ELSE ebuf
  /\ drained' = Append(drained, Head(mailbox).id)
  /\ mailbox' = Tail(mailbox)
  /\ UNCHANGED <<mboxClosed, stopClosed, lpc, cur, outcome, rbuf, chClosed, ctxDone,
                 kpc, ops, spc, enqueued, processed, procOut, answer, panicked>>

(* Faulty variant of LoopDrain: the deferred function closes the mailbox  *)
(* but has no range loop over what it still holds.                         *)
LoopDrainNoRange ==
  /\ panicked = "" /\ lpc = "drain"
  /\ lpc' = "exited"
  /\ UNCHANGED <<mailbox, mboxClosed, stopClosed, cur, outcome, chanVars, ctxDone,
                 kpc, ops, spc, histVars, panicked>>

(* The deferred drain ranges over the closed mailbox: each Ask gets the   *)
(* "stopped before processing" error if its errorCh has room; once empty  *)
(* the loop has exited and wg.Done releases Stop.                          *)
LoopDrain ==
  /\ panicked = "" /\ lpc = "drain"
  /\ \/ /\ mailbox # <<>>
        /\ LET m == Head(mailbox) IN
           /\ ebuf' = IF m.ask /\ ebuf[m.id] = ""
                        THEN [ebuf EXCEPT ![m.id] = "drainErr"] ELSE ebuf
           /\ drained' = Append(drained, m.id)
        /\ mailbox' = Tail(mailbox)
        /\ UNCHANGED lpc
     \/ /\ mailbox = <<>>
        /\ lpc' = "exited"
        /\ UNCHANGED <<mailbox, ebuf, drained>>
  /\ UNCHANGED <<mboxClosed, stopClosed, cur, outcome, rbuf, chClosed, ctxDone,
                 kpc, ops, spc, enqueued, processed, procOut, answer, panicked>>

-----------------------------------------------------------------------------
(* The owner.                                                              *)
(***************************************************************************)

(* Stop closes stopCh and waits on the WaitGroup for run to exit. *)
StopSignal ==
  /\ panicked = "" /\ spc = "running"
  /\ stopClosed' = TRUE
  /\ spc' = "waiting"
  /\ UNCHANGED <<mailbox, mboxClosed, lpc, cur, outcome, chanVars, ctxDone, kpc,
                 ops, histVars, panicked>>

(* Faulty variant of StopReturn: Stop returns without wg.Wait.           *)
StopReturnNoWait ==
  /\ panicked = "" /\ spc = "waiting"
  /\ spc' = "returned"
  /\ UNCHANGED <<mailbox, mboxClosed, stopClosed, lpc, cur, outcome, chanVars,
                 ctxDone, kpc, ops, histVars, panicked>>

StopReturn ==
  /\ panicked = "" /\ spc = "waiting" /\ lpc = "exited"
  /\ spc' = "returned"
  /\ UNCHANGED <<mailbox, mboxClosed, stopClosed, lpc, cur, outcome, chanVars,
                 ctxDone, kpc, ops, histVars, panicked>>

(* Nothing is left to do: all calls made and the actor stopped, or the    *)
(* process panicked.                                                      *)
Finished ==
  \/ panicked # ""
  \/ /\ \A c \in Callers : kpc[c] = "idle" /\ ops[c] = MaxOps
     /\ spc = "returned"

LoopStep == LoopReceive \/ LoopStop \/ LoopReply \/ LoopDrain

CallerStep(c) == AskSend(c) \/ AskWait(c)

Next ==
  \/ \E c \in Callers : Tell(c) \/ Ask(c) \/ CallerStep(c)
  \/ Cancel
  \/ LoopStep
  \/ StopSignal \/ StopReturn
  \/ Finished /\ UNCHANGED vars

(* The run goroutine, a caller blocked in Ask's selects and the owner     *)
(* blocked in wg.Wait are runnable whenever a case is ready; Go schedules *)
(* them.  Calling Tell/Ask/Stop and contexts firing are not forced.       *)
Fairness ==
  /\ WF_vars(LoopStep)
  /\ \A c \in Callers : WF_vars(CallerStep(c))
  /\ WF_vars(StopReturn)

Spec == Init /\ [][Next]_vars /\ Fairness

-----------------------------------------------------------------------------
(* Properties.                                                             *)
(***************************************************************************)

TypeOK ==
  /\ mailbox \in Seq(Msgs) /\ Len(mailbox) <= MailboxSize
  /\ lpc \in {"select", "reply", "drain", "exited"}
  /\ cur \in Msgs \cup {NoMsg}
  /\ rbuf \in [MsgIds -> {"", "resp"}]
  /\ ebuf \in [MsgIds -> {"", "procErr", "drainErr"}]
  /\ kpc \in [Callers -> {"idle", "askSend", "askWait"}]
  /\ ops \in [Callers -> 0..MaxOps]
  /\ spc \in {"running", "waiting", "returned"}
  /\ procOut \in [MsgIds -> {"", "resp", "err"}]
  /\ answer \in [MsgIds -> {""} \cup AskAnswers \cup TellAnswers]
  /\ panicked \in {"", "sendOnClosedMailbox"}

(* Stop leaves nothing behind in the mailbox (run's deferred function    *)
(* closes the mailbox and ranges over it before the deferred wg.Done that *)
(* releases Stop's wg.Wait, and a send after the close panics): once Stop *)
(* has returned, every message that entered the mailbox was processed or  *)
(* drained, and none waits there.                                         *)
MailboxDrainedAtStop ==
  spc = "returned" => mailbox = <<>>

(* Stop's join (wg.Wait in Stop, wg.Done deferred in run): once Stop has  *)
(* returned, ProcessMessage never runs again.                             *)
NoProcessingAfterStop ==
  [][spc = "returned" => processed' = processed]_vars

(* Every Ask returns (Ask's two selects include stopCh and ctx.Done, run  *)
(* replies to every processed Ask and the drain answers the rest): a      *)
(* caller inside Ask eventually leaves it, unless the process panicked.   *)
AskTerminates ==
  \A c \in Callers : kpc[c] # "idle" ~> (kpc[c] = "idle" \/ panicked # "")

(* Stop returns (run's select takes stopCh once the mailbox is empty and  *)
(* the drain ends): a caller of Stop is eventually released.              *)
StopTerminates ==
  spc = "waiting" ~> (spc = "returned" \/ panicked # "")

(* Ask reports what the processor produced (spec 8, "exactly one of      *)
(* reply, error, caller-timeout, actor-stop"): an Ask returning a nil     *)
(* error returns the processor's response, and one returning the         *)
(* processor's error saw the processor fail.                              *)
AskAnswerFaithful ==
  \A id \in MsgIds :
    /\ answer[id] \in {"resp", "nilnil"} => answer[id] = "resp" /\ procOut[id] = "resp"
    /\ answer[id] = "procErr" => procOut[id] = "err"

(* Tell and Ask on a stopped actor fail with an error (spec 3, "once     *)
(* closed (on Stop), rejects new sends"): no send on the closed mailbox.  *)
NoSendOnClosedMailbox == panicked # "sendOnClosedMailbox"

(* Stop lets run finish its current message and exit (spec 4.6): after   *)
(* stopCh is closed, ProcessMessage starts on no further message.         *)
NoNewWorkAfterStop ==
  [][stopClosed => processed' = processed]_vars
=============================================================================
