----------------------------- MODULE Approvals -----------------------------
(***************************************************************************)
(* The approval queue: cards that ask the operator for a decision, the     *)
(* requests that decide them, the continuation an approval runs, and the   *)
(* agents that wait for a permission.                                      *)
(*                                                                         *)
(* Sources: src/lib/approvals (store.ts, resolution.ts, expiry.ts,         *)
(* spec-update.ts, spoken-review-guard.ts), the two routes that resolve a  *)
(* card (app/api/panel/approvals, app/api/mobile/action) and the callers   *)
(* that wait on one (lib/pi/permission-bridge.ts, lib/muse/approval.ts).   *)
(*                                                                         *)
(* Grain.  Two processes write the cards: the Next.js server ("next", the  *)
(* requests run there) and the bridge ("bridge", the agents wait there).   *)
(* A synchronous block is one step, except where it reads a row and then   *)
(* writes it back unconditionally: there the other process can come in     *)
(* between, and the process itself is blocked.  A stamp counts the writes  *)
(* of a card: updatedAt with two writes never in one millisecond.          *)
(***************************************************************************)
EXTENDS Naturals, FiniteSets

CONSTANTS
    Cards,     \* card ids
    Kind,      \* Kind[c]: the continuation of the card
    Fingerprint,     \* Fingerprint[c]: the fingerprint of the card
    Requests,  \* resolve requests of the operator
    Routes,    \* the routes the requests take
    Asks,      \* permission requests of agents
    Raisers,   \* <<p, k>>: process p raises cards of kind k
    Sweepers,  \* processes that expire stale cards
    MaxStamp,  \* bound: writes of a card that createApproval may add to
    MaxCards,  \* bound: rows below which a process raises a new card
    None       \* no card, no request, no ask

Processes == {"next", "bridge"}
Kinds == {"lane", "plan", "runtime", "spec", "edit", "chat", "permit"}

ASSUME ApprovalAssumption ==
    /\ Kind \in [Cards -> Kinds]
    /\ DOMAIN Fingerprint = Cards
    /\ \A c \in Cards, d \in Cards : Fingerprint[c] = Fingerprint[d] => Kind[c] = Kind[d]
    /\ Routes \subseteq {"panel", "spoken", "mobile"}
    /\ Raisers \subseteq Processes \X Kinds /\ Sweepers \subseteq Processes
    /\ MaxStamp \in Nat /\ MaxCards \in Nat
    /\ None \notin Cards \cup Requests \cup Asks
    /\ {"direct", "system"} \cap (Requests \cup {None}) = {}

VARIABLES
    card,   \* card[c]: the row of the card
    block,  \* block[p]: the read-then-write block p is in, or None
    req,    \* req[r]: the locals of the request
    ask     \* ask[a]: the card the agent waits on and its answer

vars == <<card, block, req, ask>>

Claimants == Requests \cup {"direct", "system"}
Row == [status : {"none", "pending", "approved", "rejected"}, stamp : Nat,
        text : Nat, claim : Claimants \cup {None},
        cont : {"none", "pending", "completed", "failed", "unknown"}]
Ends == {"none", "completed", "failed", "unknown", "reopen", "left"}
Request == [at : {"new", "viewed", "read", "claimed", "ran", "done"},
            card : Cards \cup {None}, route : Routes \cup {"none"},
            approve : BOOLEAN, screen : Nat, stamp : Nat, text : Nat,
            end : Ends, ran : BOOLEAN]
Block == [print : {Fingerprint[c] : c \in Cards}, seen : Cards \cup {None},
          ask : Asks \cup {None}]

\* The absence of a block is not a block.
ASSUME BlockAssumption == None \notin Block

NoRow == [status |-> "none", stamp |-> 0, text |-> 0,
          claim |-> None, cont |-> "none"]
NoRequest == [at |-> "new", card |-> None, route |-> "none", approve |-> FALSE,
              screen |-> 0, stamp |-> 0, text |-> 0,
              end |-> "none", ran |-> FALSE]

Init ==
    /\ card = [c \in Cards |-> NoRow]
    /\ block = [p \in Processes |-> None]
    /\ req = [r \in Requests |-> NoRequest]
    /\ ask = [a \in Asks |-> [card |-> None, answer |-> "none"]]

Pending(c) == card[c].status = "pending"
\* The event loop of p is not inside a read-then-write block.
Free(p) == block[p] = None

----------------------------------------------------------------------------
(* Raising a card: createApproval *)

\* A permission ask carries its request id: its fingerprint never recurs.
Raisable(f) ==
    \A c \in Cards : Fingerprint[c] = f /\ Kind[c] = "permit" =>
        card[c].status = "none" /\ \A p \in Processes :
            block[p] # None => block[p].print # f

Reusable(f) == {c \in Cards : Fingerprint[c] = f /\ Pending(c)}

Raised == {c \in Cards : card[c].status # "none"}

\* Look up the pending card of the fingerprint; an agent asks once.
BeginCreate(p, f, a) ==
    /\ Free(p) /\ Raisable(f)
    /\ \E c \in Cards :
        /\ Fingerprint[c] = f /\ <<p, Kind[c]>> \in Raisers
        /\ Kind[c] = "permit" <=> a # None
        /\ card[c].stamp < MaxStamp
    /\ Reusable(f) = {} => Cardinality(Raised) < MaxCards
    /\ a # None => ask[a] = [card |-> None, answer |-> "none"]
    /\ \E seen \in Cards \cup {None} :
        /\ IF Reusable(f) = {} THEN seen = None ELSE seen \in Reusable(f)
        /\ block' = [block EXCEPT ![p] = [print |-> f, seen |-> seen,
                                           ask |-> a]]
    /\ UNCHANGED <<card, req, ask>>

\* A new row, or the row that was read with the new content.
Written(c) == [status |-> "pending", stamp |-> card[c].stamp + 1,
                  text |-> card[c].stamp + 1,
                  claim |-> None, cont |-> "none"]

\* Insert a card, or write the whole row that was read back by its id.
EndCreate(p) ==
    /\ block[p] # None
    /\ block' = [block EXCEPT ![p] = None]
    /\ LET b == block[p]
           fresh == {c \in Cards : Fingerprint[c] = b.print /\ card[c].status = "none"}
           written == IF b.seen = None THEN fresh ELSE {b.seen}
       IN IF written = {}     \* bound: no card id left
          THEN UNCHANGED <<card, ask>>
          ELSE \E c \in written :
                /\ card' = [card EXCEPT ![c] = Written(c)]
                /\ ask' = IF b.ask = None THEN ask
                          ELSE [ask EXCEPT ![b.ask] =
                                    [card |-> c, answer |-> "waiting"]]
    /\ UNCHANGED req

----------------------------------------------------------------------------
(* Deciding a card: claimApprovalResolution *)

HasContinuation(c) == Kind[c] # "permit"

Decided(c, approve, who) ==
    [card[c] EXCEPT !.status = IF approve THEN "approved" ELSE "rejected",
                    !.stamp = @ + 1,
                    !.claim = who,
                    !.cont = IF approve /\ HasContinuation(c)
                             THEN "pending" ELSE "none"]

\* The operator sees a card and answers it.
View(r, c, route, approve) ==
    /\ req[r].at = "new"
    /\ Pending(c)
    /\ route \in Routes
    /\ route = "spoken" => Kind[c] = "lane"
    /\ req' = [req EXCEPT ![r].at = "viewed", ![r].card = c, ![r].route = route,
                          ![r].approve = approve, ![r].screen = card[c].text]
    /\ UNCHANGED <<card, block, ask>>

\* The panel reads the card before it verifies the evidence.
Read(r) ==
    /\ req[r].at = "viewed" /\ req[r].route # "mobile" /\ Free("next")
    /\ LET c == req[r].card
       IN req' = [req EXCEPT ![r].at = IF Pending(c) THEN "read" ELSE "done",
                             ![r].stamp = card[c].stamp,
                             ![r].text = card[c].text]
    /\ UNCHANGED <<card, block, ask>>

\* Spoken evidence names the content that was read to the operator.
EvidenceCurrent(r) == req[r].route = "spoken" => req[r].text = req[r].screen

\* Variant: the claim compares the status only.
StatusOnly(r) == TRUE
\* The card the request read, unchanged; the phone reads it in this step.
Unchanged(r) ==
    req[r].route # "mobile" => card[req[r].card].stamp = req[r].stamp

\* Variants: the claim does not compare the status; it compares nothing.
UnchangedOnly(r) == Unchanged(r)
ClaimBlind(r) == TRUE
Claimable(r) == Pending(req[r].card) /\ Unchanged(r)

\* Atomically move the card to the decision; the loser stops here.
Claim(r) ==
    /\ Free("next")
    /\ req[r].at = IF req[r].route = "mobile" THEN "viewed" ELSE "read"
    /\ LET c == req[r].card
       IN IF EvidenceCurrent(r) /\ Claimable(r)
          THEN /\ card' = [card EXCEPT ![c] = Decided(c, req[r].approve, r)]
               /\ req' = [req EXCEPT ![r].at = "claimed",
                                     ![r].text = card[c].text]
          ELSE /\ req' = [req EXCEPT ![r].at = "done"]
               /\ UNCHANGED card
    /\ UNCHANGED <<block, ask>>

\* A stale card expires, or its lane is merged directly.
SystemReject(p, c) ==
    /\ p \in Sweepers /\ Free(p) /\ Pending(c)
    /\ card' = [card EXCEPT ![c] = Decided(c, FALSE, "system")]
    /\ UNCHANGED <<block, req, ask>>

DirectApprove(c) ==
    /\ Free("next") /\ Pending(c) /\ Kind[c] = "lane"
    /\ card' = [card EXCEPT ![c] = Decided(c, TRUE, "direct")]
    /\ UNCHANGED <<block, req, ask>>

----------------------------------------------------------------------------
(* Running the continuation and settling the claim *)

Desktop == {"panel", "spoken"}
Ended(end, ran) == [end |-> end, ran |-> ran]
Refusals == {Ended("reopen", FALSE)}
MayHaveRun(end) == {Ended(end, TRUE), Ended(end, FALSE)}
\* How a continuation ends, and whether its action has run then: drift and a
\* refused edit come before the action, an exception comes at any time.
DesktopEnding(kind) ==
    CASE kind = "lane" -> {Ended("completed", TRUE), Ended("failed", FALSE)}
                          \cup Refusals \cup MayHaveRun("left")
      [] kind = "runtime" -> {Ended("completed", TRUE), Ended("failed", FALSE)}
                             \cup MayHaveRun("left")
      [] kind \in {"plan", "spec"} -> {Ended("completed", TRUE)} \cup MayHaveRun("unknown")
      [] kind = "chat" -> MayHaveRun("completed") \cup MayHaveRun("left")
      [] kind = "edit" -> {Ended("completed", TRUE)} \cup Refusals \cup MayHaveRun("unknown")
      [] OTHER -> {Ended("none", FALSE)}

\* The phone's route does not write a spec or a file.
PhoneEnding(kind) ==
    CASE kind \in {"lane", "runtime"} -> {Ended("completed", TRUE), Ended("failed", FALSE)}
                                         \cup MayHaveRun("unknown")
      [] kind = "plan" -> {Ended("completed", TRUE)} \cup MayHaveRun("unknown")
      [] kind = "chat" -> MayHaveRun("completed") \cup MayHaveRun("left")
      [] kind \in {"spec", "edit"} -> {Ended("completed", FALSE)}
      [] OTHER -> {Ended("none", FALSE)}

Ending(kind, route) == IF route \in Desktop THEN DesktopEnding(kind) ELSE PhoneEnding(kind)

\* The decision is followed: an edit or a spec is written, a lane command,
\* plan, launch or chat turn is started; its audit writes the chat's card.
Continue(r) ==
    /\ req[r].at = "claimed" /\ Free("next")
    /\ LET c == req[r].card
       IN /\ \E e \in IF req[r].approve THEN Ending(Kind[c], req[r].route)
                                       ELSE {Ended("none", FALSE)} :
               req' = [req EXCEPT ![r].at = "ran", ![r].end = e.end, ![r].ran = e.ran]
          /\ card' = IF Kind[c] = "chat"
                     THEN [card EXCEPT ![c].stamp = @ + 1] ELSE card
    /\ UNCHANGED <<block, ask>>

\* Only the claimant settles its claim.
Holds(r) == card[req[r].card].claim = r
Reopened(c) == [card[c] EXCEPT !.status = "pending", !.stamp = @ + 1,
                               !.claim = None, !.cont = "none"]
\* Variant: the outcome of the continuation is not looked at.
FinalizedBlind(r) ==
    [card[req[r].card] EXCEPT !.cont = "completed", !.stamp = @ + 1]
Finalized(r) == [card[req[r].card] EXCEPT !.cont = req[r].end, !.stamp = @ + 1]

\* Finalize the continuation, or reopen the card whose action did not run.
Settle(r) ==
    /\ req[r].at = "ran" /\ Free("next")
    /\ LET c == req[r].card
       IN card' = IF ~Holds(r) \/ req[r].end \in {"none", "left"} THEN card
                  ELSE IF req[r].end = "reopen"
                  THEN [card EXCEPT ![c] = Reopened(c)]
                  ELSE [card EXCEPT ![c] = Finalized(r)]
    /\ req' = [req EXCEPT ![r].at = "done"]
    /\ UNCHANGED <<block, ask>>

----------------------------------------------------------------------------
(* An agent waiting for a permission, in the bridge *)

Waiting(a) == ask[a].answer = "waiting"
Allows(c) == card[c].status = "approved"
\* Variant: only an answered ask expires.
ExpiresAnswered(a) == Waiting(a) /\ ~Pending(ask[a].card)
Expires(a) == Waiting(a)

\* A poll finds the card decided.
AskPoll(a) ==
    /\ Waiting(a) /\ Free("bridge") /\ ~Pending(ask[a].card)
    /\ ask' = [ask EXCEPT ![a].answer =
                   IF Allows(ask[a].card) THEN "allowed" ELSE "denied"]
    /\ UNCHANGED <<card, block, req>>

\* Variant: an expired ask leaves its card in the inbox.
LeaveCard(c) == card[c]
Withdraw(c) == IF Pending(c) THEN Decided(c, FALSE, "system") ELSE card[c]

\* The ask expires: the card is rejected if it is still pending, the agent is
\* denied in any case.
AskTimeout(a) ==
    /\ Expires(a) /\ Free("bridge")
    /\ card' = [card EXCEPT ![ask[a].card] = Withdraw(ask[a].card)]
    /\ ask' = [ask EXCEPT ![a].answer = "denied"]
    /\ UNCHANGED <<block, req>>

----------------------------------------------------------------------------
(* The environment *)

\* A process stops and is started again: its requests or its agents are lost.
Crash(p) ==
    /\ block' = [block EXCEPT ![p] = None]
    /\ req' = [r \in Requests |->
                 IF p = "next" /\ req[r].at \in {"read", "claimed", "ran"}
                 THEN [req[r] EXCEPT !.at = "done"] ELSE req[r]]
    /\ ask' = [a \in Asks |->
                 IF p = "bridge" /\ Waiting(a)
                 THEN [ask[a] EXCEPT !.answer = "lost"] ELSE ask[a]]
    /\ UNCHANGED card

Next ==
    \/ \E p \in Processes, c \in Cards, a \in Asks \cup {None} :
         BeginCreate(p, Fingerprint[c], a)
    \/ \E p \in Processes : EndCreate(p) \/ Crash(p)
    \/ \E p \in Sweepers, c \in Cards : SystemReject(p, c)
    \/ \E r \in Requests, c \in Cards, route \in Routes, approve \in BOOLEAN :
         View(r, c, route, approve)
    \/ \E r \in Requests : Read(r) \/ Claim(r) \/ Continue(r) \/ Settle(r)
    \/ \E c \in Cards : DirectApprove(c)
    \/ \E a \in Asks : AskPoll(a) \/ AskTimeout(a)

Spec == Init /\ [][Next]_vars

\* A block of code ends, and an agent's wait polls or expires.
Fairness ==
    /\ \A p \in Processes : WF_vars(EndCreate(p))
    /\ \A a \in Asks : WF_vars(AskPoll(a) \/ AskTimeout(a))
FairSpec == Spec /\ Fairness

----------------------------------------------------------------------------
(* Properties *)

\* Every variable has its type: rows, blocks, the locals of requests, asks.
TypeOK ==
    /\ card \in [Cards -> Row]
    /\ block \in [Processes -> Block \cup {None}]
    /\ req \in [Requests -> Request]
    /\ ask \in [Asks -> [card : Cards \cup {None},
                         answer : {"none", "waiting", "allowed", "denied", "lost"}]]

\* Why the promises below hold while the server alone refreshes cards: an
\* undecided card has no claim, a request that runs or has run what a card asks for holds its
\* claim, a block that will write a row back has read it pending and it still
\* is, and the card an agent waits on is of its ask alone, never reused.
ClaimInv ==
    /\ \A c \in Cards : card[c].status \in {"none", "pending"} => card[c].claim = None
    /\ \A r \in Requests :
         /\ req[r].at # "new" => req[r].card \in Cards
         /\ req[r].at \in {"claimed", "ran"} => Holds(r)
         /\ req[r].at = "claimed" /\ req[r].approve => Allows(req[r].card)
         /\ req[r].ran => /\ req[r].at \in {"ran", "done"} /\ req[r].end # "reopen"
                          /\ Holds(r) /\ Allows(req[r].card)
    /\ \A p \in Processes :
         /\ block[p] # None /\ block[p].seen # None =>
              Pending(block[p].seen) /\ Kind[block[p].seen] # "permit"
         /\ block[p] # None /\ block[p].ask # None =>
              \A c \in Cards : Fingerprint[c] = block[p].print => Kind[c] = "permit"
    /\ \A a \in Asks : Waiting(a) =>
         ask[a].card \in Cards /\ Kind[ask[a].card] = "permit"

\* claimApprovalResolution: two requests are never both running what one card
\* asks for.
OneExecutor ==
    \A r \in Requests, s \in Requests :
        /\ {req[r].at, req[s].at} \subseteq {"claimed", "ran"}
        /\ req[r].card = req[s].card
        => r = s

\* What a card asks for is executed by one request at most, over all claims,
\* reopenings, crashes and repeated requests.
ExecutedOnce ==
    \A r \in Requests, s \in Requests :
        req[r].ran /\ req[s].ran /\ req[r].card = req[s].card => r = s

\* A card that asks for a decision (again) has not been executed: only drift
\* and refusals before the action reopen it (reopenApprovalAfterEvidenceDrift).
PendingNotExecuted ==
    \A r \in Requests : req[r].ran => ~Pending(req[r].card)

\* The outcome of a lane command, plan or launch is recorded truly: completed
\* if a request carried it out, failed if none did.
OutcomeTrue ==
    \A c \in Cards : Kind[c] \in {"lane", "plan", "runtime"} =>
        LET ran == \E r \in Requests : req[r].card = c /\ req[r].ran
        IN /\ card[c].cont = "completed" => ran
           /\ card[c].cont = "failed" => ~ran

\* A decision is final: only its own claimant reopens it, and only when the
\* approved action was not executed.
TerminalDecision ==
    [][\A c \in Cards :
        card[c].status \in {"approved", "rejected"}
            /\ card'[c].status # card[c].status =>
        \E r \in Requests : /\ card[c].claim = r
                            /\ req[r].end = "reopen" /\ ~req[r].ran]_vars

\* An approval with spoken evidence approves the content that was spoken
\* (verifySpokenReviewMutationEvidence and the claim on updatedAt).
SpokenWasSeen ==
    \A r \in Requests :
        req[r].route = "spoken" /\ req[r].at \in {"claimed", "ran"} =>
            req[r].text = req[r].screen

\* An agent is allowed only by the decision of a request of the operator, and
\* no agent that was denied or has expired leaves a card to decide.
AskAnswers ==
    \A a \in Asks :
        /\ ask[a].answer = "allowed" =>
             /\ card[ask[a].card].status = "approved"
             /\ \E r \in Requests : req[r].card = ask[a].card /\ req[r].approve
        /\ ask[a].answer = "denied" => ~Pending(ask[a].card)

\* Every agent that waits is answered, or lost with its process.
AskersAnswered == \A a \in Asks : Waiting(a) ~> ~Waiting(a)

=============================================================================
