-------------------------- MODULE ApprovalsProofs --------------------------
(***************************************************************************)
(* What the claim on a card promises, proved for any number of cards,      *)
(* requests and agents, any continuations and crashes.                     *)
(*                                                                         *)
(* Type correctness holds for every choice of the constants.  The rest     *)
(* assumes that only the Next.js server raises cards that can be refreshed *)
(* and expires cards: createApproval writes back the row it read, so a     *)
(* second process could undo a decision.                                   *)
(***************************************************************************)
EXTENDS Approvals, TLAPS

OneWriter ==
    /\ \A x \in Raisers : x[1] = "next" \/ x[2] = "permit"
    /\ Sweepers \subseteq {"next"}

\* A block that has read a row is the server's, and the row is one of the
\* fingerprint the block looked up.
BlockInv ==
    \A p \in Processes : block[p] # None /\ block[p].seen # None =>
        p = "next" /\ Fingerprint[block[p].seen] = block[p].print

IInv == TypeOK /\ ClaimInv /\ BlockInv

\* What the types rest on: a request that has been answered names a card, and
\* so does an agent that waits.
RefInv ==
    /\ \A r \in Requests : req[r].at # "new" => req[r].card \in Cards
    /\ \A a \in Asks : Waiting(a) => ask[a].card \in Cards

----------------------------------------------------------------------------
(* Types *)

\* The types hold at first, and nothing refers to a card that is not there.
LEMMA InitType == Init => TypeOK /\ RefInv
  BY ApprovalAssumption
  DEF Init, TypeOK, RefInv, Waiting, NoRow, NoRequest, Row, Request, Ends, Claimants

\* An ending is one of the three, and a continuation that ran is not reopened.
LEMMA EndingType ==
  ASSUME NEW kind, NEW route, NEW e \in Ending(kind, route)
  PROVE  /\ e.end \in Ends /\ e.ran \in BOOLEAN
         /\ e.ran => e.end # "reopen"
  <1> DEFINE Outcomes == {Ended("completed", TRUE), Ended("completed", FALSE),
                       Ended("failed", FALSE), Ended("none", FALSE), Ended("reopen", FALSE),
                       Ended("unknown", TRUE), Ended("unknown", FALSE),
                       Ended("left", TRUE), Ended("left", FALSE)}
  <1>1. Ending(kind, route) \subseteq Outcomes
    <2>1. CASE kind = "lane"
      BY <2>1 DEF Ending, DesktopEnding, PhoneEnding, Refusals, MayHaveRun, Ended
    <2>2. CASE kind = "runtime"
      BY <2>2 DEF Ending, DesktopEnding, PhoneEnding, Refusals, MayHaveRun, Ended
    <2>3. CASE kind = "plan"
      BY <2>3 DEF Ending, DesktopEnding, PhoneEnding, Refusals, MayHaveRun, Ended
    <2>4. CASE kind = "chat"
      BY <2>4 DEF Ending, DesktopEnding, PhoneEnding, Refusals, MayHaveRun, Ended
    <2>5. CASE kind = "spec"
      BY <2>5 DEF Ending, DesktopEnding, PhoneEnding, Refusals, MayHaveRun, Ended
    <2>6. CASE kind = "edit"
      BY <2>6 DEF Ending, DesktopEnding, PhoneEnding, Refusals, MayHaveRun, Ended
    <2>7. CASE kind \notin {"lane", "runtime", "plan", "chat", "spec", "edit"}
      BY <2>7 DEF Ending, DesktopEnding, PhoneEnding, Ended
    <2> QED BY <2>1, <2>2, <2>3, <2>4, <2>5, <2>6, <2>7
  <1>2. Outcomes \subseteq [end : Ends, ran : BOOLEAN]
    BY DEF Ends, Ended
  <1>3. e \in Outcomes
    BY <1>1
  <1>4. e.ran => e.end # "reopen"
    BY <1>3 DEF Ended
  <1> QED BY <1>2, <1>3, <1>4

\* A decision makes a row of the table.
LEMMA DecidedType ==
  ASSUME TypeOK, NEW c \in Cards, NEW b \in BOOLEAN, NEW w \in Claimants
  PROVE  Decided(c, b, w) \in Row
  <1>1. card[c] \in Row
    BY DEF TypeOK
  <1>2. card[c].stamp + 1 \in Nat
    BY <1>1 DEF Row
  <1> QED BY <1>1, <1>2 DEF Decided, Row

\* Every step keeps the types and the references.
LEMMA StepType == TypeOK /\ RefInv /\ [Next]_vars => TypeOK' /\ RefInv'
  <1> SUFFICES ASSUME TypeOK, RefInv, [Next]_vars PROVE TypeOK' /\ RefInv'
    OBVIOUS
  <1> USE DEF TypeOK, RefInv, Waiting
  <1>1. ASSUME NEW p \in Processes, NEW c \in Cards, NEW a \in Asks \cup {None},
               BeginCreate(p, Fingerprint[c], a)
        PROVE  TypeOK' /\ RefInv'
    <2>1. PICK seen \in Cards \cup {None} :
            block' = [block EXCEPT ![p] = [print |-> Fingerprint[c], seen |-> seen,
                                           ask |-> a]]
      BY <1>1 DEF BeginCreate, Reusable
    <2>2. [print |-> Fingerprint[c], seen |-> seen, ask |-> a]
            \in Block
      BY DEF Block
    <2> QED BY <1>1, <2>1, <2>2 DEF BeginCreate
  <1>2. ASSUME NEW p \in Processes, EndCreate(p)
        PROVE  TypeOK' /\ RefInv'
    <2>1. block[p] \in Block
      BY <1>2 DEF EndCreate
    <2>2. \A c \in Cards : Written(c) \in Row
      BY <2>1 DEF Written, Row, Block
    <2> DEFINE fresh == {c \in Cards : Fingerprint[c] = block[p].print
                                       /\ card[c].status = "none"}
               written == IF block[p].seen = None THEN fresh ELSE {block[p].seen}
    <2>3. written \subseteq Cards
      BY <2>1 DEF Block
    <2>4. block' \in [Processes -> Block \cup {None}]
      BY <1>2 DEF EndCreate
    <2>5. CASE written = {}
      BY <1>2, <2>4, <2>5 DEF EndCreate
    <2>6. CASE written # {}
      <3>1. PICK c \in written :
              /\ card' = [card EXCEPT ![c] = Written(c)]
              /\ ask' = IF block[p].ask = None THEN ask
                        ELSE [ask EXCEPT ![block[p].ask] =
                                  [card |-> c, answer |-> "waiting"]]
        BY <1>2, <2>6 DEF EndCreate
      <3>2. card' \in [Cards -> Row]
        BY <2>2, <2>3, <3>1
      <3>3. ask' \in [Asks -> [card : Cards \cup {None},
                   answer : {"none", "waiting", "allowed", "denied", "lost"}]]
        BY <2>1, <2>3, <3>1 DEF Block
      <3>4. \A a \in Asks : ask'[a].answer = "waiting" => ask'[a].card \in Cards
        BY <2>1, <2>3, <3>1 DEF Block
      <3> QED BY <1>2, <2>4, <3>2, <3>3, <3>4 DEF EndCreate
    <2> QED BY <2>5, <2>6
  <1>3. ASSUME NEW p \in Processes, Crash(p)
        PROVE  TypeOK' /\ RefInv'
    <2>1. req' \in [Requests -> Request]
      BY <1>3 DEF Crash, Request
    <2>2. block' \in [Processes -> Block \cup {None}]
      BY <1>3 DEF Crash
    <2>3. /\ ask' \in [Asks -> [card : Cards \cup {None},
                   answer : {"none", "waiting", "allowed", "denied", "lost"}]]
          /\ \A a \in Asks : ask'[a].answer = "waiting" => ask'[a] = ask[a]
      BY <1>3 DEF Crash, Waiting
    <2> QED BY <1>3, <2>1, <2>2, <2>3 DEF Crash
  <1>4. ASSUME NEW p \in Sweepers, NEW c \in Cards, SystemReject(p, c)
        PROVE  TypeOK' /\ RefInv'
    <2>1. Decided(c, FALSE, "system") \in Row
      BY DecidedType DEF Claimants
    <2> QED BY <1>4, <2>1 DEF SystemReject
  <1>5. ASSUME NEW r \in Requests, NEW c \in Cards, NEW route \in Routes,
               NEW approve \in BOOLEAN, View(r, c, route, approve)
        PROVE  TypeOK' /\ RefInv'
    <2>1. req[r] \in Request /\ card[c].text \in Nat
      BY DEF Row
    <2>2. req' \in [Requests -> Request]
      BY <1>5, <2>1 DEF View, Request
    <2> QED BY <1>5, <2>2 DEF View
  <1>6. ASSUME NEW r \in Requests, Read(r)
        PROVE  TypeOK' /\ RefInv'
    <2>1. req[r] \in Request /\ card[req[r].card] \in Row
      BY <1>6 DEF Read
    <2>2. req'[r] \in Request /\ req'[r].card = req[r].card
      BY <1>6, <2>1 DEF Read, Request, Row
    <2>3. \A s \in Requests \ {r} : req'[s] = req[s]
      BY <1>6 DEF Read
    <2>4. req' = [s \in Requests |-> req'[s]]
      BY <1>6 DEF Read
    <2> QED BY <1>6, <2>1, <2>2, <2>3, <2>4 DEF Read
  <1>7. ASSUME NEW r \in Requests, Claim(r)
        PROVE  TypeOK' /\ RefInv'
    <2>1. req[r] \in Request /\ req[r].card \in Cards /\ card[req[r].card] \in Row
      BY <1>7 DEF Claim
    <2>2. Decided(req[r].card, req[r].approve, r) \in Row
      BY <2>1, DecidedType DEF Claimants, Request
    <2>3. card' \in [Cards -> Row]
      BY <1>7, <2>1, <2>2 DEF Claim
    <2>4. /\ req' \in [Requests -> Request]
          /\ \A s \in Requests : req'[s].card = req[s].card
          /\ \A s \in Requests \ {r} : req'[s] = req[s]
      <3>1. CASE EvidenceCurrent(r) /\ Claimable(r)
        <4>1. req' = [req EXCEPT ![r].at = "claimed",
                                 ![r].text = card[req[r].card].text]
          BY <1>7, <3>1 DEF Claim
        <4> QED BY <2>1, <4>1 DEF Request, Row
      <3>2. CASE ~(EvidenceCurrent(r) /\ Claimable(r))
        <4>1. req' = [req EXCEPT ![r].at = "done"]
          BY <1>7, <3>2 DEF Claim
        <4> QED BY <2>1, <4>1 DEF Request
      <3> QED BY <3>1, <3>2
    <2> QED BY <1>7, <2>1, <2>3, <2>4 DEF Claim
  <1>8. ASSUME NEW r \in Requests, Continue(r)
        PROVE  TypeOK' /\ RefInv'
    <2>1. req[r] \in Request /\ req[r].card \in Cards /\ card[req[r].card] \in Row
      BY <1>8 DEF Continue
    <2>2. PICK e : /\ e \in Ending(Kind[req[r].card], req[r].route)
                        \cup {Ended("none", FALSE)}
                   /\ req' = [req EXCEPT ![r].at = "ran", ![r].end = e.end,
                                         ![r].ran = e.ran]
      BY <1>8 DEF Continue
    <2>3. e.end \in Ends /\ e.ran \in BOOLEAN
      <3>1. CASE e \in Ending(Kind[req[r].card], req[r].route)
        BY <3>1, EndingType
      <3>2. CASE e = Ended("none", FALSE)
        BY <3>2 DEF Ends, Ended
      <3> QED BY <2>2, <3>1, <3>2
    <2>4. card' \in [Cards -> Row]
      <3>1. card[req[r].card].stamp + 1 \in Nat
        BY <2>1 DEF Row
      <3>2. \A s \in Cards : card[s] \in Row
        OBVIOUS
      <3> QED BY <1>8, <2>1, <3>1, <3>2 DEF Continue, Row
    <2>5. /\ req' \in [Requests -> Request]
          /\ \A s \in Requests : req'[s].card = req[s].card
          /\ \A s \in Requests \ {r} : req'[s] = req[s]
      BY <2>1, <2>2, <2>3 DEF Request
    <2> QED BY <1>8, <2>1, <2>2, <2>4, <2>5 DEF Continue
  <1>9. ASSUME NEW r \in Requests, Settle(r)
        PROVE  TypeOK' /\ RefInv'
    <2>1. req[r] \in Request /\ req[r].card \in Cards /\ card[req[r].card] \in Row
      BY <1>9 DEF Settle
    <2>2. card' \in [Cards -> Row]
      <3>1. Reopened(req[r].card) \in Row
        <4>1. card[req[r].card].stamp + 1 \in Nat
          BY <2>1 DEF Row
        <4> QED BY <2>1, <4>1 DEF Reopened, Row
      <3>2. req[r].end \notin {"none", "left", "reopen"} => Finalized(r) \in Row
        <4>1. card[req[r].card].stamp + 1 \in Nat
          BY <2>1 DEF Row
        <4>2. req[r].end \in Ends
          BY <2>1 DEF Request
        <4> QED BY <2>1, <4>1, <4>2 DEF Finalized, Row, Ends
      <3> QED BY <1>9, <2>1, <3>1, <3>2 DEF Settle
    <2>3. /\ req' \in [Requests -> Request]
          /\ \A s \in Requests : req'[s].card = req[s].card
          /\ \A s \in Requests \ {r} : req'[s] = req[s]
      BY <1>9, <2>1 DEF Settle, Request
    <2> QED BY <1>9, <2>1, <2>2, <2>3 DEF Settle
  <1>10. ASSUME NEW c \in Cards, DirectApprove(c)
         PROVE  TypeOK' /\ RefInv'
    <2>1. Decided(c, TRUE, "direct") \in Row
      BY DecidedType DEF Claimants
    <2> QED BY <1>10, <2>1 DEF DirectApprove
  <1>11. ASSUME NEW a \in Asks, AskPoll(a)
         PROVE  TypeOK' /\ RefInv'
    BY <1>11 DEF AskPoll
  <1>12. ASSUME NEW a \in Asks, AskTimeout(a)
         PROVE  TypeOK' /\ RefInv'
    <2>1. ask[a].card \in Cards
      BY <1>12 DEF AskTimeout, Expires
    <2>2. Decided(ask[a].card, FALSE, "system") \in Row
      BY <2>1, DecidedType DEF Claimants
    <2>3. Withdraw(ask[a].card) \in Row
      BY <2>1, <2>2 DEF Withdraw
    <2> QED BY <1>12, <2>1, <2>3 DEF AskTimeout
  <1>14. CASE UNCHANGED vars
    BY <1>14 DEF vars
  <1> QED BY <1>1, <1>2, <1>3, <1>4, <1>5, <1>6, <1>7, <1>8, <1>9, <1>10,
             <1>11, <1>12, <1>14 DEF Next
----------------------------------------------------------------------------
(* Claims, with one process that writes cards *)

\* The invariant holds at first.
LEMMA InitInv == Init => IInv
  <1> SUFFICES ASSUME Init PROVE IInv
    OBVIOUS
  <1>1. TypeOK
    BY InitType
  <1>2. ClaimInv
    BY DEF Init, ClaimInv, NoRow, NoRequest, Waiting
  <1>3. BlockInv
    BY DEF Init, BlockInv
  <1> QED BY <1>1, <1>2, <1>3 DEF IInv

\* The parts of the invariant, each about one card, request, process or agent.
RowClaim(c) == card[c].status \in {"none", "pending"} => card[c].claim = None
RequestClaim(r) ==
    /\ req[r].at # "new" => req[r].card \in Cards
    /\ req[r].at \in {"claimed", "ran"} => Holds(r)
    /\ req[r].at = "claimed" /\ req[r].approve => Allows(req[r].card)
    /\ req[r].ran => /\ req[r].at \in {"ran", "done"} /\ req[r].end # "reopen"
                     /\ Holds(r) /\ Allows(req[r].card)
BlockClaim(p) == block[p] # None =>
    /\ block[p].seen # None =>
         /\ p = "next"
         /\ Pending(block[p].seen) /\ Kind[block[p].seen] # "permit"
         /\ Fingerprint[block[p].seen] = block[p].print
    /\ block[p].ask # None =>
         \A c \in Cards : Fingerprint[c] = block[p].print => Kind[c] = "permit"
AskClaim(a) == Waiting(a) =>
    ask[a].card \in Cards /\ Kind[ask[a].card] = "permit"

\* The invariant by card, request, process and ask,
LEMMA Parts ==
  ClaimInv /\ BlockInv <=>
    /\ \A c \in Cards : RowClaim(c)
    /\ \A r \in Requests : RequestClaim(r)
    /\ \A p \in Processes : BlockClaim(p)
    /\ \A a \in Asks : AskClaim(a)
  BY DEF ClaimInv, BlockInv, RowClaim, RequestClaim, BlockClaim, AskClaim

\* and after a step.
LEMMA PartsNext ==
  ASSUME \A c \in Cards : RowClaim(c)',
         \A r \in Requests : RequestClaim(r)',
         \A p \in Processes : BlockClaim(p)',
         \A a \in Asks : AskClaim(a)'
  PROVE  ClaimInv' /\ BlockInv'
  BY DEF ClaimInv, BlockInv, RowClaim, RequestClaim, BlockClaim, AskClaim

\* No row is about to be written back while the server decides.
LEMMA NoBlock ==
  ASSUME OneWriter, BlockInv, Free("next")
  PROVE  \A p \in Processes : block[p] # None => block[p].seen = None
  BY DEF OneWriter, BlockInv, Free, Processes

\* A pending card is held by nobody, and nobody has executed it.
LEMMA PendingFree ==
  ASSUME IInv, NEW c \in Cards, card[c].status \in {"none", "pending"},
         NEW r \in Requests, req[r].at # "new", req[r].card = c
  PROVE  req[r].at \notin {"claimed", "ran"} /\ ~req[r].ran
  BY ApprovalAssumption DEF IInv, ClaimInv, Holds, Allows

\* A request that has not been answered has done nothing.
LEMMA NewIdle ==
  ASSUME IInv, NEW r \in Requests, req[r].at \notin {"ran", "done"}
  PROVE  ~req[r].ran
  BY DEF IInv, ClaimInv

\* A step that moves one card nobody holds, no request, block or ask.
LEMMA CardStep ==
  ASSUME IInv, NEW c \in Cards, NEW row \in Row,
         card[c].status \in {"none", "pending"},
         row.status \in {"none", "pending"} => row.claim = None,
         card' = [card EXCEPT ![c] = row], req' = req,
         \A p \in Processes : block'[p] # None =>
            block'[p] = block[p] /\ block[p].seen # c,
         \A a \in Asks : AskClaim(a)'
  PROVE  ClaimInv' /\ BlockInv'
  <1>1. \A d \in Cards : RowClaim(d)'
    BY Parts DEF IInv, TypeOK, RowClaim
  <1>2. ASSUME NEW r \in Requests PROVE RequestClaim(r)'
    <2>1. RequestClaim(r)
      BY Parts DEF IInv
    <2>2. CASE req[r].at # "new" /\ req[r].card = c
      BY <2>1, <2>2, PendingFree DEF RequestClaim
    <2>3. CASE req[r].at = "new"
      BY <2>1, <2>3 DEF RequestClaim
    <2>4. CASE req[r].at # "new" /\ req[r].card # c
      <3>1. card'[req[r].card] = card[req[r].card]
        BY <2>4 DEF IInv, TypeOK
      <3> QED BY <2>1, <3>1 DEF RequestClaim, Holds, Allows
    <2> QED BY <2>2, <2>3, <2>4
  <1>3. ASSUME NEW p \in Processes PROVE BlockClaim(p)'
    <2>1. SUFFICES ASSUME block'[p] # None PROVE BlockClaim(p)'
      BY DEF BlockClaim
    <2>2. BlockClaim(p) /\ block'[p] = block[p] /\ block[p].seen # c
      BY <2>1, Parts DEF IInv
    <2>3. block[p].seen # None => block[p].seen \in Cards
      BY <2>1, <2>2 DEF IInv, TypeOK, Block
    <2>4. block[p].seen # None => card'[block[p].seen] = card[block[p].seen]
      BY <2>2, <2>3 DEF IInv, TypeOK
    <2> QED BY <2>1, <2>2, <2>4 DEF BlockClaim, Pending
  <1> QED BY <1>1, <1>2, <1>3, PartsNext

\* A step of one request that leaves the cards alone, blocks and asks too.
LEMMA RequestStep ==
  ASSUME IInv, NEW r \in Requests,
         \A c \in Cards : card'[c].status = card[c].status
                          /\ card'[c].claim = card[c].claim,
         block' = block, ask' = ask,
         \A s \in Requests \ {r} : req'[s] = req[s],
         RequestClaim(r)'
  PROVE  ClaimInv' /\ BlockInv'
  <1>1. \A d \in Cards : RowClaim(d)'
    BY Parts DEF IInv, RowClaim
  <1>2. ASSUME NEW s \in Requests, s # r PROVE RequestClaim(s)'
    <2>1. RequestClaim(s) /\ req'[s] = req[s]
      BY <1>2, Parts DEF IInv
    <2>2. req[s].at = "new" => ~req[s].ran
      BY NewIdle
    <2> QED BY <2>1, <2>2 DEF RequestClaim, Holds, Allows
  <1>3. ASSUME NEW p \in Processes PROVE BlockClaim(p)'
    <2>1. BlockClaim(p) /\ block'[p] = block[p]
      BY Parts DEF IInv
    <2>2. block[p] # None /\ block[p].seen # None => block[p].seen \in Cards
      BY DEF IInv, TypeOK, Block
    <2> QED BY <2>1, <2>2 DEF BlockClaim, Pending
  <1>4. \A a \in Asks : AskClaim(a)'
    BY Parts DEF IInv, AskClaim, Waiting
  <1> QED BY <1>1, <1>2, <1>3, <1>4, PartsNext
----------------------------------------------------------------------------
(* The actions *)

\* BeginCreate keeps the invariant.
LEMMA BeginCreateInv ==
  ASSUME IInv, OneWriter, NEW p \in Processes, NEW c \in Cards,
         NEW a \in Asks \cup {None}, BeginCreate(p, Fingerprint[c], a)
  PROVE  ClaimInv' /\ BlockInv'
  <1>1. PICK seen \in Cards \cup {None} :
          /\ IF Reusable(Fingerprint[c]) = {} THEN seen = None
             ELSE seen \in Reusable(Fingerprint[c])
          /\ block' = [block EXCEPT ![p] = [print |-> Fingerprint[c], seen |-> seen,
                                            ask |-> a]]
    BY DEF BeginCreate
  <1>2. UNCHANGED <<card, req, ask>> /\ Raisable(Fingerprint[c])
    BY DEF BeginCreate
  <1>3. \A d \in Cards : RowClaim(d)'
    BY <1>2, Parts DEF IInv, RowClaim
  <1>4. \A r \in Requests : RequestClaim(r)'
    BY <1>2, Parts DEF IInv, RequestClaim, Holds, Allows
  <1>5. \A b \in Asks : AskClaim(b)'
    BY <1>2, Parts DEF IInv, AskClaim, Waiting
  <1>6. BlockClaim(p)'
    <2>1. block'[p] = [print |-> Fingerprint[c], seen |-> seen,
                       ask |-> a]
      BY <1>1, ApprovalAssumption DEF IInv, TypeOK
    <2>2. seen # None => /\ seen \in Cards /\ Pending(seen)
                         /\ Fingerprint[seen] = Fingerprint[c]
      BY <1>1 DEF Reusable
    <2>3. seen # None => Kind[seen] # "permit"
      BY <1>2, <2>2 DEF Raisable, Pending
    <2>4. a # None =>
            \A d \in Cards : Fingerprint[d] = Fingerprint[c] => Kind[d] = "permit"
      BY ApprovalAssumption DEF BeginCreate
    <2>5. seen # None => p = "next"
      <3>1. PICK e \in Cards : Fingerprint[e] = Fingerprint[c]
                               /\ <<p, Kind[e]>> \in Raisers
        BY DEF BeginCreate
      <3>2. p = "next" \/ Kind[e] = "permit"
        BY <3>1 DEF OneWriter
      <3> QED BY <2>2, <2>3, <3>1, <3>2, ApprovalAssumption
    <2> QED BY <1>2, <2>1, <2>2, <2>3, <2>4, <2>5 DEF BlockClaim, Pending
  <1>7. ASSUME NEW q \in Processes, q # p PROVE BlockClaim(q)'
    <2>1. BlockClaim(q) /\ block'[q] = block[q]
      BY <1>1, <1>7, Parts DEF IInv, TypeOK
    <2> QED BY <1>2, <2>1 DEF BlockClaim, Pending
  <1> QED BY <1>3, <1>4, <1>5, <1>6, <1>7, PartsNext

\* EndCreate keeps the invariant.
LEMMA EndCreateInv ==
  ASSUME IInv, OneWriter, NEW p \in Processes, EndCreate(p)
  PROVE  ClaimInv' /\ BlockInv'
  <1> DEFINE fresh == {c \in Cards : Fingerprint[c] = block[p].print
                                     /\ card[c].status = "none"}
             written == IF block[p].seen = None THEN fresh ELSE {block[p].seen}
  <1>1. block[p] # None /\ block[p] \in Block /\ BlockClaim(p)
    BY Parts DEF EndCreate, IInv, TypeOK
  <1>2. block' = [block EXCEPT ![p] = None] /\ req' = req
    BY DEF EndCreate
  <1>3. \A q \in Processes : block'[q] # None =>
          q # p /\ block'[q] = block[q] /\ BlockClaim(q)
    BY <1>1, <1>2, Parts DEF IInv, TypeOK
  <1>4. CASE written = {}
    <2>1. card' = card /\ ask' = ask
      BY <1>4 DEF EndCreate
    <2>2. \A d \in Cards : RowClaim(d)'
      BY <2>1, Parts DEF IInv, RowClaim
    <2>3. \A r \in Requests : RequestClaim(r)'
      BY <1>2, <2>1, Parts DEF IInv, RequestClaim, Holds, Allows
    <2>4. \A a \in Asks : AskClaim(a)'
      BY <2>1, Parts DEF IInv, AskClaim, Waiting
    <2>5. \A q \in Processes : BlockClaim(q)'
      BY <1>3, <2>1 DEF BlockClaim, Pending
    <2> QED BY <2>2, <2>3, <2>4, <2>5, PartsNext
  <1>5. CASE written # {}
    <2>1. PICK c \in written :
            /\ card' = [card EXCEPT ![c] = Written(c)]
            /\ ask' = IF block[p].ask = None THEN ask
                      ELSE [ask EXCEPT ![block[p].ask] =
                                [card |-> c, answer |-> "waiting"]]
      BY <1>5 DEF EndCreate
    <2>2. /\ c \in Cards /\ Fingerprint[c] = block[p].print
          /\ card[c].status \in {"none", "pending"}
      BY <1>1 DEF BlockClaim, Block, Pending
    <2>3. Written(c) \in Row
      BY <1>1, <2>2 DEF IInv, TypeOK, Written, Row, Block
    <2>4. Written(c).claim = None
      BY DEF Written
    <2>5. ASSUME NEW a \in Asks PROVE AskClaim(a)'
      <3>1. AskClaim(a)
        BY Parts DEF IInv
      <3>2. CASE a = block[p].ask
        <4>1. ask'[a].card = c
          BY <2>1, <3>2, ApprovalAssumption DEF IInv, TypeOK
        <4>2. Kind[c] = "permit"
          BY <1>1, <2>2, <3>2, ApprovalAssumption DEF BlockClaim
        <4> QED BY <2>2, <4>1, <4>2 DEF AskClaim
      <3>3. CASE a # block[p].ask
        BY <2>1, <3>1, <3>3 DEF IInv, TypeOK, AskClaim, Waiting
      <3> QED BY <3>2, <3>3
    <2>6. ASSUME NEW q \in Processes, block'[q] # None
          PROVE  block'[q] = block[q] /\ block[q].seen # c
      <3>1. q # p /\ block'[q] = block[q] /\ block[q] # None /\ BlockClaim(q)
        BY <1>3, <2>6
      <3>2. CASE block[q].seen = None
        BY <2>2, <3>1, <3>2, ApprovalAssumption
      <3>3. CASE block[q].seen # None
        <4>1. q = "next" /\ card[block[q].seen].status = "pending"
          BY <3>1, <3>3 DEF BlockClaim, Pending
        <4>2. block[p].seen = None
          BY <1>1, <3>1, <4>1 DEF BlockClaim
        <4>3. card[c].status = "none"
          BY <2>1, <4>2
        <4> QED BY <3>1, <4>1, <4>3
      <3> QED BY <3>2, <3>3
    <2> QED BY <1>2, <2>1, <2>2, <2>3, <2>4, <2>5, <2>6, CardStep
  <1> QED BY <1>4, <1>5

\* Crash keeps the invariant.
LEMMA CrashInv ==
  ASSUME IInv, NEW p \in Processes, Crash(p)
  PROVE  ClaimInv' /\ BlockInv'
  <1>1. \A d \in Cards : RowClaim(d)'
    BY Parts DEF IInv, RowClaim, Crash
  <1>2. ASSUME NEW r \in Requests PROVE RequestClaim(r)'
    <2>1. RequestClaim(r) /\ req[r] \in Request
      BY Parts DEF IInv, TypeOK
    <2>2. \/ req'[r] = req[r]
          \/ /\ req'[r] = [req[r] EXCEPT !.at = "done"]
             /\ req[r].at \in {"read", "claimed", "ran"}
      BY DEF Crash
    <2>3. card' = card
      BY DEF Crash
    <2>4. CASE req'[r] = req[r]
      BY <2>1, <2>3, <2>4 DEF RequestClaim, Holds, Allows
    <2>5. CASE /\ req'[r] = [req[r] EXCEPT !.at = "done"]
               /\ req[r].at \in {"read", "claimed", "ran"}
      <3>1. /\ req'[r].at = "done" /\ req'[r].card = req[r].card
            /\ req'[r].ran = req[r].ran /\ req'[r].end = req[r].end
        BY <2>1, <2>5 DEF Request
      <3> QED BY <2>1, <2>3, <2>5, <3>1 DEF RequestClaim, Holds, Allows
    <2> QED BY <2>2, <2>4, <2>5
  <1>3. ASSUME NEW q \in Processes PROVE BlockClaim(q)'
    <2>1. BlockClaim(q) /\ (block'[q] = block[q] \/ block'[q] = None)
      BY Parts DEF IInv, TypeOK, Crash
    <2> QED BY <2>1 DEF BlockClaim, Pending, Crash
  <1>4. ASSUME NEW a \in Asks PROVE AskClaim(a)'
    <2>1. AskClaim(a) /\ ask[a] \in [card : Cards \cup {None},
                 answer : {"none", "waiting", "allowed", "denied", "lost"}]
      BY Parts DEF IInv, TypeOK
    <2>2. ask'[a] = ask[a] \/ ask'[a].answer = "lost"
      BY <2>1 DEF Crash
    <2> QED BY <2>1, <2>2 DEF AskClaim, Waiting
  <1> QED BY <1>1, <1>2, <1>3, <1>4, PartsNext

\* SystemReject keeps the invariant.
LEMMA SystemRejectInv ==
  ASSUME IInv, OneWriter, NEW p \in Sweepers, NEW c \in Cards, SystemReject(p, c)
  PROVE  ClaimInv' /\ BlockInv'
  <1>1. Free("next") /\ card[c].status = "pending"
    BY DEF SystemReject, OneWriter, Pending
  <1>2. \A q \in Processes : block'[q] # None =>
          block'[q] = block[q] /\ block[q].seen # c
    BY <1>1, NoBlock, ApprovalAssumption DEF SystemReject, IInv
  <1>3. Decided(c, FALSE, "system") \in Row
    BY DecidedType DEF IInv, Claimants
  <1>4. Decided(c, FALSE, "system").status = "rejected"
    BY DEF Decided, IInv, TypeOK, Row
  <1>5. \A a \in Asks : AskClaim(a)'
    BY Parts DEF SystemReject, IInv, AskClaim, Waiting
  <1> QED BY <1>1, <1>2, <1>3, <1>4, <1>5, CardStep DEF SystemReject

\* DirectApprove keeps the invariant.
LEMMA DirectApproveInv ==
  ASSUME IInv, OneWriter, NEW c \in Cards, DirectApprove(c)
  PROVE  ClaimInv' /\ BlockInv'
  <1>1. Free("next") /\ card[c].status = "pending"
    BY DEF DirectApprove, Pending
  <1>2. \A q \in Processes : block'[q] # None =>
          block'[q] = block[q] /\ block[q].seen # c
    BY <1>1, NoBlock, ApprovalAssumption DEF DirectApprove, IInv
  <1>3. Decided(c, TRUE, "direct") \in Row
    BY DecidedType DEF IInv, Claimants
  <1>4. Decided(c, TRUE, "direct").status = "approved"
    BY DEF Decided, IInv, TypeOK, Row
  <1>5. \A a \in Asks : AskClaim(a)'
    BY Parts DEF DirectApprove, IInv, AskClaim, Waiting
  <1> QED BY <1>1, <1>2, <1>3, <1>4, <1>5, CardStep DEF DirectApprove

\* The bridge rejects a card while the server may be writing another one: the
\* card of an ask is never the row the server has read.
LEMMA AskTimeoutInv ==
  ASSUME IInv, NEW a \in Asks, AskTimeout(a)
  PROVE  ClaimInv' /\ BlockInv'
  <1> DEFINE c == ask[a].card
  <1>1. c \in Cards /\ Kind[c] = "permit"
    BY Parts DEF AskTimeout, Expires, IInv, AskClaim
  <1>2. \A b \in Asks : AskClaim(b)'
    BY Parts DEF AskTimeout, IInv, TypeOK, AskClaim, Waiting
  <1>3. CASE Pending(c)
    <2>1. Decided(c, FALSE, "system") \in Row
      BY <1>1, DecidedType DEF IInv, Claimants
    <2>2. Decided(c, FALSE, "system").status = "rejected"
      BY <1>1 DEF Decided, IInv, TypeOK, Row
    <2>3. \A p \in Processes : block'[p] # None =>
            block'[p] = block[p] /\ block[p].seen # c
      <3>1. ASSUME NEW p \in Processes, block[p] # None PROVE block[p].seen # c
        BY <1>1, <3>1, Parts, ApprovalAssumption DEF IInv, BlockClaim
      <3> QED BY <3>1 DEF AskTimeout
    <2>4. /\ card' = [card EXCEPT ![c] = Decided(c, FALSE, "system")]
          /\ req' = req /\ card[c].status = "pending"
      BY <1>3 DEF AskTimeout, Withdraw, Pending
    <2> QED BY <1>1, <1>2, <2>1, <2>2, <2>3, <2>4, CardStep
  <1>4. CASE ~Pending(c)
    <2>1. card' = card
      BY <1>1, <1>4 DEF AskTimeout, Withdraw, IInv, TypeOK
    <2>2. req' = req /\ block' = block
      BY DEF AskTimeout
    <2>3. \A d \in Cards : RowClaim(d)'
      BY <2>1, Parts DEF IInv, RowClaim
    <2>4. \A r \in Requests : RequestClaim(r)'
      BY <2>1, <2>2, Parts DEF IInv, RequestClaim, Holds, Allows
    <2>5. \A p \in Processes : BlockClaim(p)'
      BY <2>1, <2>2, Parts DEF IInv, BlockClaim, Pending
    <2> QED BY <1>2, <2>3, <2>4, <2>5, PartsNext
  <1> QED BY <1>3, <1>4

\* View keeps the invariant.
LEMMA ViewInv ==
  ASSUME IInv, NEW r \in Requests, NEW c \in Cards, NEW route \in Routes,
         NEW approve \in BOOLEAN, View(r, c, route, approve)
  PROVE  ClaimInv' /\ BlockInv'
  <1>1. /\ req'[r].at = "viewed" /\ req'[r].card = c /\ req'[r].ran = req[r].ran
        /\ \A s \in Requests \ {r} : req'[s] = req[s]
    BY DEF View, IInv, TypeOK, Request
  <1>2. ~req[r].ran
    BY NewIdle DEF View
  <1>3. RequestClaim(r)'
    BY <1>1, <1>2 DEF RequestClaim
  <1> QED BY <1>1, <1>3, RequestStep DEF View

\* Read keeps the invariant.
LEMMA ReadInv ==
  ASSUME IInv, NEW r \in Requests, Read(r)
  PROVE  ClaimInv' /\ BlockInv'
  <1>1. /\ req'[r].at \in {"read", "done"} /\ req'[r].card = req[r].card
        /\ req'[r].ran = req[r].ran
        /\ \A s \in Requests \ {r} : req'[s] = req[s]
    BY DEF Read, IInv, TypeOK, Request
  <1>2. ~req[r].ran /\ req[r].card \in Cards
    BY NewIdle, Parts DEF Read, IInv, RequestClaim
  <1>3. RequestClaim(r)'
    BY <1>1, <1>2 DEF RequestClaim
  <1> QED BY <1>1, <1>3, RequestStep DEF Read

\* The heart of it: the card is pending, so nobody holds it; now r does.
LEMMA ClaimStepInv ==
  ASSUME IInv, OneWriter, NEW r \in Requests, Claim(r)
  PROVE  ClaimInv' /\ BlockInv'
  <1> DEFINE c == req[r].card
  <1>1. /\ req[r] \in Request /\ c \in Cards /\ ~req[r].ran
        /\ req[r].at # "new" /\ card[c] \in Row
    BY NewIdle, Parts DEF Claim, IInv, TypeOK, RequestClaim
  <1>2. \A p \in Processes : BlockClaim(p)'
    <2>1. \A p \in Processes : block[p] # None => block[p].seen = None
      BY NoBlock DEF Claim, IInv
    <2> QED BY <2>1, Parts DEF Claim, IInv, BlockClaim
  <1>3. \A a \in Asks : AskClaim(a)'
    BY Parts DEF Claim, IInv, AskClaim, Waiting
  <1>4. CASE EvidenceCurrent(r) /\ Claimable(r)
    <2>1. /\ card' = [card EXCEPT ![c] = Decided(c, req[r].approve, r)]
          /\ req' = [req EXCEPT ![r].at = "claimed", ![r].text = card[c].text]
      BY <1>4 DEF Claim
    <2>2. card[c].status = "pending" /\ card[c].claim = None
      BY <1>1, <1>4, Parts DEF Claimable, Pending, IInv, RowClaim
    <2>3. /\ card'[c].claim = r
          /\ card'[c].status = IF req[r].approve THEN "approved" ELSE "rejected"
          /\ \A d \in Cards \ {c} : card'[d] = card[d]
      BY <1>1, <2>1 DEF IInv, TypeOK, Decided, Row
    <2>4. /\ req'[r].at = "claimed" /\ req'[r].card = c
          /\ req'[r].approve = req[r].approve /\ req'[r].ran = req[r].ran
          /\ \A s \in Requests \ {r} : req'[s] = req[s]
      BY <1>1, <2>1 DEF IInv, TypeOK, Request
    <2>5. \A d \in Cards : RowClaim(d)'
      BY <2>3, Parts DEF IInv, RowClaim
    <2>6. RequestClaim(r)'
      BY <1>1, <2>3, <2>4 DEF RequestClaim, Holds, Allows
    <2>7. ASSUME NEW s \in Requests, s # r PROVE RequestClaim(s)'
      <3>1. RequestClaim(s) /\ req'[s] = req[s]
        BY <2>4, <2>7, Parts DEF IInv
      <3>2. CASE req[s].at # "new" /\ req[s].card = c
        BY <1>1, <2>2, <3>1, <3>2, PendingFree DEF RequestClaim
      <3>3. CASE req[s].at # "new" /\ req[s].card # c
        BY <2>3, <3>1, <3>3 DEF RequestClaim, Holds, Allows
      <3>4. CASE req[s].at = "new"
        BY <3>1, <3>4 DEF RequestClaim
      <3> QED BY <3>2, <3>3, <3>4
    <2> QED BY <1>2, <1>3, <2>5, <2>6, <2>7, PartsNext
  <1>5. CASE ~(EvidenceCurrent(r) /\ Claimable(r))
    <2>1. req' = [req EXCEPT ![r].at = "done"] /\ card' = card
      BY <1>5 DEF Claim
    <2>2. /\ req'[r].at = "done" /\ req'[r].card = c /\ req'[r].ran = req[r].ran
          /\ \A s \in Requests \ {r} : req'[s] = req[s]
      BY <1>1, <2>1 DEF IInv, TypeOK, Request
    <2>3. RequestClaim(r)'
      BY <1>1, <2>2 DEF RequestClaim
    <2> QED BY <2>1, <2>2, <2>3, RequestStep DEF Claim
  <1> QED BY <1>4, <1>5

\* Continue keeps the invariant.
LEMMA ContinueInv ==
  ASSUME IInv, NEW r \in Requests, Continue(r)
  PROVE  ClaimInv' /\ BlockInv'
  <1> DEFINE c == req[r].card
  <1>1. /\ req[r] \in Request /\ c \in Cards /\ card[c] \in Row
        /\ Holds(r) /\ (req[r].approve => Allows(c))
    BY Parts DEF Continue, IInv, TypeOK, RequestClaim
  <1>2. PICK e : /\ e \in IF req[r].approve THEN Ending(Kind[c], req[r].route)
                                           ELSE {Ended("none", FALSE)}
                 /\ req' = [req EXCEPT ![r].at = "ran", ![r].end = e.end,
                                       ![r].ran = e.ran]
    BY DEF Continue
  <1>3. e.ran => req[r].approve /\ e.end # "reopen"
    BY <1>2, EndingType DEF Ended
  <1>4. /\ req'[r].at = "ran" /\ req'[r].card = c /\ req'[r].end = e.end
        /\ req'[r].ran = e.ran
        /\ \A s \in Requests \ {r} : req'[s] = req[s]
    BY <1>1, <1>2 DEF IInv, TypeOK, Request
  <1>5. \A d \in Cards : card'[d].status = card[d].status
                         /\ card'[d].claim = card[d].claim
    BY <1>1 DEF Continue, IInv, TypeOK, Row
  <1>6. RequestClaim(r)'
    BY <1>1, <1>3, <1>4, <1>5 DEF RequestClaim, Holds, Allows
  <1> QED BY <1>4, <1>5, <1>6, RequestStep DEF Continue

\* A claimant reopens its own card only, and not after it has executed it.
LEMMA SettleInv ==
  ASSUME IInv, OneWriter, NEW r \in Requests, Settle(r)
  PROVE  ClaimInv' /\ BlockInv'
  <1> DEFINE c == req[r].card
  <1>1. /\ req[r] \in Request /\ c \in Cards /\ card[c] \in Row /\ RequestClaim(r)
    BY Parts DEF Settle, IInv, TypeOK, RequestClaim
  <1>2. /\ req'[r].at = "done" /\ req'[r].card = c /\ req'[r].ran = req[r].ran
        /\ req'[r].end = req[r].end
        /\ \A s \in Requests \ {r} : req'[s] = req[s]
    BY <1>1 DEF Settle, IInv, TypeOK, Request
  <1>3. CASE ~Holds(r) \/ req[r].end # "reopen"
    <2>1. \A d \in Cards : card'[d].status = card[d].status
                           /\ card'[d].claim = card[d].claim
      BY <1>1, <1>3 DEF Settle, Finalized, IInv, TypeOK, Row
    <2>2. RequestClaim(r)'
      BY <1>1, <1>2, <2>1 DEF RequestClaim, Holds, Allows
    <2> QED BY <1>2, <2>1, <2>2, RequestStep DEF Settle
  <1>4. CASE Holds(r) /\ req[r].end = "reopen"
    <2>1. card' = [card EXCEPT ![c] = Reopened(c)]
      BY <1>4 DEF Settle
    <2>2. /\ card'[c].claim = None
          /\ \A d \in Cards \ {c} : card'[d] = card[d]
      BY <1>1, <2>1 DEF IInv, TypeOK, Reopened, Row
    <2>3. \A d \in Cards : RowClaim(d)'
      BY <2>2, Parts DEF IInv, RowClaim
    <2>4. RequestClaim(r)'
      BY <1>1, <1>2, <1>4 DEF RequestClaim
    <2>5. ASSUME NEW s \in Requests, s # r PROVE RequestClaim(s)'
      <3>1. RequestClaim(s) /\ req'[s] = req[s]
        BY <1>2, <2>5, Parts DEF IInv
      <3>2. CASE req[s].at # "new" /\ req[s].card = c
        <4>1. ~Holds(s)
          BY <1>4, <2>5, <3>2 DEF Holds
        <4> QED BY <1>1, <3>1, <3>2, <4>1 DEF RequestClaim
      <3>3. CASE req[s].at # "new" /\ req[s].card # c
        BY <2>2, <3>1, <3>3 DEF RequestClaim, Holds, Allows
      <3>4. CASE req[s].at = "new"
        BY <3>1, <3>4 DEF RequestClaim
      <3> QED BY <3>2, <3>3, <3>4
    <2>6. \A p \in Processes : BlockClaim(p)'
      <3>1. \A p \in Processes : block[p] # None => block[p].seen = None
        BY NoBlock DEF Settle, IInv
      <3> QED BY <3>1, Parts DEF Settle, IInv, BlockClaim
    <2>7. \A a \in Asks : AskClaim(a)'
      BY Parts DEF Settle, IInv, AskClaim, Waiting
    <2> QED BY <2>3, <2>4, <2>5, <2>6, <2>7, PartsNext
  <1> QED BY <1>3, <1>4

\* AskPoll keeps the invariant.
LEMMA AskPollInv ==
  ASSUME IInv, NEW a \in Asks, AskPoll(a)
  PROVE  ClaimInv' /\ BlockInv'
  <1>1. \A b \in Asks : AskClaim(b)'
    BY Parts DEF AskPoll, IInv, TypeOK, AskClaim, Waiting
  <1>2. UNCHANGED <<card, block, req>>
    BY DEF AskPoll
  <1>3. \A d \in Cards : RowClaim(d)'
    BY <1>2, Parts DEF IInv, RowClaim
  <1>4. \A r \in Requests : RequestClaim(r)'
    BY <1>2, Parts DEF IInv, RequestClaim, Holds, Allows
  <1>5. \A p \in Processes : BlockClaim(p)'
    BY <1>2, Parts DEF IInv, BlockClaim, Pending
  <1> QED BY <1>1, <1>3, <1>4, <1>5, PartsNext

\* Steps that leave cards, requests, blocks and asks alone.
LEMMA QuietInv ==
  ASSUME IInv, UNCHANGED <<card, block, req, ask>>
  PROVE  ClaimInv' /\ BlockInv'
  BY DEF IInv, ClaimInv, BlockInv, Holds, Allows, Pending, Waiting

\* Every step keeps the invariant.
LEMMA NextInv == OneWriter /\ IInv /\ RefInv /\ [Next]_vars => IInv'
  <1> SUFFICES ASSUME OneWriter, IInv, RefInv, [Next]_vars PROVE IInv'
    OBVIOUS
  <1>1. TypeOK'
    BY StepType DEF IInv
  <1>2. ClaimInv' /\ BlockInv'
    <2>1. ASSUME NEW p \in Processes, NEW c \in Cards, NEW a \in Asks \cup {None},
                 BeginCreate(p, Fingerprint[c], a)
          PROVE  ClaimInv' /\ BlockInv'
      BY <2>1, BeginCreateInv
    <2>2. ASSUME NEW p \in Processes, EndCreate(p)
          PROVE  ClaimInv' /\ BlockInv'
      BY <2>2, EndCreateInv
    <2>3. ASSUME NEW p \in Processes, Crash(p)
          PROVE  ClaimInv' /\ BlockInv'
      BY <2>3, CrashInv
    <2>4. ASSUME NEW p \in Sweepers, NEW c \in Cards, SystemReject(p, c)
          PROVE  ClaimInv' /\ BlockInv'
      BY <2>4, SystemRejectInv
    <2>5. ASSUME NEW r \in Requests, NEW c \in Cards, NEW route \in Routes,
                 NEW approve \in BOOLEAN, View(r, c, route, approve)
          PROVE  ClaimInv' /\ BlockInv'
      BY <2>5, ViewInv
    <2>6. ASSUME NEW r \in Requests, Read(r)
          PROVE  ClaimInv' /\ BlockInv'
      BY <2>6, ReadInv
    <2>7. ASSUME NEW r \in Requests, Claim(r)
          PROVE  ClaimInv' /\ BlockInv'
      BY <2>7, ClaimStepInv
    <2>8. ASSUME NEW r \in Requests, Continue(r)
          PROVE  ClaimInv' /\ BlockInv'
      BY <2>8, ContinueInv
    <2>9. ASSUME NEW r \in Requests, Settle(r)
          PROVE  ClaimInv' /\ BlockInv'
      BY <2>9, SettleInv
    <2>10. ASSUME NEW c \in Cards, DirectApprove(c)
           PROVE  ClaimInv' /\ BlockInv'
      BY <2>10, DirectApproveInv
    <2>11. ASSUME NEW a \in Asks, AskPoll(a)
           PROVE  ClaimInv' /\ BlockInv'
      BY <2>11, AskPollInv
    <2>12. ASSUME NEW a \in Asks, AskTimeout(a)
           PROVE  ClaimInv' /\ BlockInv'
      BY <2>12, AskTimeoutInv
    <2>14. CASE UNCHANGED vars
      BY <2>14, QuietInv DEF vars
    <2> QED BY <2>1, <2>2, <2>3, <2>4, <2>5, <2>6, <2>7, <2>8, <2>9, <2>10,
               <2>11, <2>12, <2>14 DEF Next
  <1> QED BY <1>1, <1>2 DEF IInv

----------------------------------------------------------------------------
(* Theorems *)

\* Every variable keeps its type, for every choice of the constants.
THEOREM TypeCorrectness == Spec => []TypeOK
  <1>1. Init => TypeOK /\ RefInv
    BY InitType
  <1>2. (TypeOK /\ RefInv) /\ [Next]_vars => (TypeOK /\ RefInv)'
    BY StepType
  <1>3. TypeOK /\ RefInv => TypeOK
    OBVIOUS
  <1> QED BY <1>1, <1>2, <1>3, PTL DEF Spec

\* With one process that raises and expires cards, the invariant of the claims
\* of createApproval, claimApprovalResolution and the two settling functions
\* holds in every reachable state.
THEOREM Invariance == ASSUME OneWriter PROVE Spec => [](IInv /\ RefInv)
  <1>1. Init => IInv /\ RefInv
    BY InitInv, InitType
  <1>2. (IInv /\ RefInv) /\ [Next]_vars => (IInv /\ RefInv)'
    BY NextInv, StepType DEF IInv
  <1> QED BY <1>1, <1>2, PTL DEF Spec

\* ClaimInv is the part of it that names the program's state.
THEOREM ClaimsHeld == ASSUME OneWriter PROVE Spec => []ClaimInv
  <1>1. IInv /\ RefInv => ClaimInv
    BY DEF IInv
  <1> QED BY <1>1, Invariance, PTL

\* Two requests never run what one card asks for at the same time
\* (claimApprovalResolution lets one through).
THEOREM SingleExecutor == ASSUME OneWriter PROVE Spec => []OneExecutor
  <1>1. ClaimInv => OneExecutor
    BY DEF ClaimInv, OneExecutor, Holds
  <1> QED BY <1>1, ClaimsHeld, PTL

\* What a card asks for is executed at most once, over any sequence of claims,
\* reopenings, crashes and requests.
THEOREM AtMostOnce == ASSUME OneWriter PROVE Spec => []ExecutedOnce
  <1>1. ClaimInv => ExecutedOnce
    BY DEF ClaimInv, ExecutedOnce, Holds
  <1> QED BY <1>1, ClaimsHeld, PTL

\* The operator is never asked about a card that has been executed.
THEOREM PendingIsUnexecuted == ASSUME OneWriter PROVE Spec => []PendingNotExecuted
  <1>1. ClaimInv => PendingNotExecuted
    BY DEF ClaimInv, PendingNotExecuted, Allows, Pending
  <1> QED BY <1>1, ClaimsHeld, PTL
\* A decided card changes its status only in the settling step of the claimant.
LEMMA TerminalStep ==
  ASSUME IInv, [Next]_vars, NEW c \in Cards,
         card[c].status \in {"approved", "rejected"},
         card'[c].status # card[c].status
  PROVE  \E r \in Requests : /\ card[c].claim = r
                             /\ req[r].end = "reopen" /\ ~req[r].ran
  <1> USE DEF IInv, TypeOK
  <1>1. ASSUME NEW p \in Processes, NEW d \in Cards, NEW a \in Asks \cup {None},
               BeginCreate(p, Fingerprint[d], a)
        PROVE  FALSE
    BY <1>1 DEF BeginCreate
  <1>2. ASSUME NEW p \in Processes, EndCreate(p)
        PROVE  FALSE
    <2>1. \A d \in Cards : card'[d] # card[d] =>
              card[d].status = "none" \/ d = block[p].seen
      BY <1>2 DEF EndCreate
    <2>2. block[p].seen = c /\ block[p] # None
      BY <1>2, <2>1 DEF EndCreate
    <2>3. Pending(c)
      BY <2>2, Parts, ApprovalAssumption DEF BlockClaim
    <2> QED BY <2>3 DEF Pending
  <1>3. ASSUME NEW p \in Processes, Crash(p)
        PROVE  FALSE
    BY <1>3 DEF Crash
  <1>4. ASSUME NEW p \in Sweepers, NEW d \in Cards, SystemReject(p, d)
        PROVE  FALSE
    BY <1>4 DEF SystemReject, Pending
  <1>5. ASSUME NEW r \in Requests, NEW d \in Cards, NEW route \in Routes,
               NEW approve \in BOOLEAN, View(r, d, route, approve)
        PROVE  FALSE
    BY <1>5 DEF View
  <1>6. ASSUME NEW r \in Requests, Read(r)
        PROVE  FALSE
    BY <1>6 DEF Read
  <1>7. ASSUME NEW r \in Requests, Claim(r)
        PROVE  FALSE
    BY <1>7 DEF Claim, Claimable, Pending
  <1>8. ASSUME NEW r \in Requests, Continue(r)
        PROVE  FALSE
    BY <1>8 DEF Continue, Row
  <1>9. ASSUME NEW r \in Requests, Settle(r)
        PROVE  /\ card[c].claim = r
               /\ req[r].end = "reopen" /\ ~req[r].ran
    <2>1. req[r].at = "ran" /\ req[r].card \in Cards /\ RequestClaim(r)
      BY <1>9, Parts DEF Settle, RequestClaim
    <2>2. Holds(r) /\ req[r].end = "reopen" /\ req[r].card = c
      <3>1. ASSUME req[r].end # "reopen" PROVE FALSE
        BY <1>9, <2>1, <3>1 DEF Settle, Finalized, Row
      <3>2. card' = [card EXCEPT ![req[r].card] = Reopened(req[r].card)]
        BY <1>9, <2>1, <3>1 DEF Settle, RequestClaim
      <3> QED BY <2>1, <3>1, <3>2 DEF RequestClaim
    <2> QED BY <2>1, <2>2 DEF Holds, RequestClaim
  <1>10. ASSUME NEW d \in Cards, DirectApprove(d)
         PROVE  FALSE
    BY <1>10 DEF DirectApprove, Pending
  <1>11. ASSUME NEW a \in Asks, AskPoll(a)
         PROVE  FALSE
    BY <1>11 DEF AskPoll
  <1>12. ASSUME NEW a \in Asks, AskTimeout(a)
         PROVE  FALSE
    BY <1>12 DEF AskTimeout, Withdraw, Pending
  <1>14. CASE UNCHANGED vars
    BY <1>14 DEF vars
  <1> QED BY <1>1, <1>2, <1>3, <1>4, <1>5, <1>6, <1>7, <1>8, <1>9, <1>10,
             <1>11, <1>12, <1>14 DEF Next

\* A decision is final: only its claimant reopens it, and only when the action
\* it approved has not been executed (reopenApprovalAfterEvidenceDrift).
THEOREM DecisionIsFinal == ASSUME OneWriter PROVE Spec => TerminalDecision
  <1> DEFINE Kept ==
        \A c \in Cards :
          card[c].status \in {"approved", "rejected"}
              /\ card'[c].status # card[c].status =>
          \E r \in Requests : /\ card[c].claim = r
                              /\ req[r].end = "reopen" /\ ~req[r].ran
  <1>1. (IInv /\ RefInv) /\ [Next]_vars => [Kept]_vars
    BY TerminalStep
  <1>2. Spec => [][Kept]_vars
    BY <1>1, Invariance, PTL DEF Spec
  <1> QED BY <1>2 DEF TerminalDecision

----------------------------------------------------------------------------
(* What a step does to one card, request, block or ask, whoever takes it *)

\* The steps of a card: it is raised or refreshed,
Raises(c) ==
    /\ card'[c] = Written(c)
    /\ \E p \in Processes : block[p] # None /\
         \/ block[p].seen = c
         \/ block[p].seen = None /\ card[c].status = "none"
\* decided,
Decides(c) ==
    /\ Pending(c)
    /\ \E b \in BOOLEAN, w \in Claimants : card'[c] = Decided(c, b, w) /\
         (b /\ Kind[c] # "lane" =>
            w \in Requests /\ req[w].at # "new" /\ req[w].card = c /\ req[w].approve)
\* audited,
Audits(c) == Kind[c] = "chat" /\ card'[c] = [card[c] EXCEPT !.stamp = @ + 1]
\* reopened, or its outcome recorded.
Reopens(c) ==
    /\ card'[c] = Reopened(c)
    /\ \E r \in Requests : /\ req[r].at = "ran" /\ req[r].card = c
                           /\ card[c].claim = r /\ req[r].end = "reopen"
Finalizes(c, r) ==
    /\ req[r].at = "ran" /\ req[r].card = c /\ card[c].claim = r
    /\ req[r].end \in {"completed", "failed", "unknown"}
    /\ card'[c] = Finalized(r)

\* What each action leaves alone.
LEMMA Untouched ==
  /\ \A p, f, a : BeginCreate(p, f, a) => card' = card /\ req' = req /\ ask' = ask
  /\ \A p : EndCreate(p) => req' = req
  /\ \A p : Crash(p) => card' = card
  /\ \A p, c : SystemReject(p, c) => block' = block /\ req' = req /\ ask' = ask
  /\ \A c : DirectApprove(c) => block' = block /\ req' = req /\ ask' = ask
  /\ \A r, c, route, approve : View(r, c, route, approve) =>
        card' = card /\ block' = block /\ ask' = ask
  /\ \A r : Read(r) => card' = card /\ block' = block /\ ask' = ask
  /\ \A r : Claim(r) \/ Continue(r) \/ Settle(r) => block' = block /\ ask' = ask
  /\ \A a : AskPoll(a) => card' = card /\ block' = block /\ req' = req
  /\ \A a : AskTimeout(a) => block' = block /\ req' = req
  /\ UNCHANGED vars => card' = card /\ block' = block /\ req' = req /\ ask' = ask
  <1>1. \A p, f, a : BeginCreate(p, f, a) => card' = card /\ req' = req /\ ask' = ask
    BY DEF BeginCreate
  <1>2. \A p : EndCreate(p) => req' = req
    BY DEF EndCreate
  <1>3. \A p : Crash(p) => card' = card
    BY DEF Crash
  <1>4. \A p, c : SystemReject(p, c) => block' = block /\ req' = req /\ ask' = ask
    BY DEF SystemReject
  <1>5. \A c : DirectApprove(c) => block' = block /\ req' = req /\ ask' = ask
    BY DEF DirectApprove
  <1>6. \A r, c, route, approve : View(r, c, route, approve) =>
      card' = card /\ block' = block /\ ask' = ask
    BY DEF View
  <1>7. \A r : Read(r) => card' = card /\ block' = block /\ ask' = ask
    BY DEF Read
  <1>8. \A r : Claim(r) \/ Continue(r) \/ Settle(r) => block' = block /\ ask' = ask
    BY DEF Claim, Continue, Settle
  <1>9. \A a : AskPoll(a) => card' = card /\ block' = block /\ req' = req
    BY DEF AskPoll
  <1>10. \A a : AskTimeout(a) => block' = block /\ req' = req
    BY DEF AskTimeout
  <1>11. UNCHANGED vars => card' = card /\ block' = block /\ req' = req /\ ask' = ask
    BY DEF vars
  <1> QED BY <1>1, <1>2, <1>3, <1>4, <1>5, <1>6,
             <1>7, <1>8, <1>9, <1>10, <1>11

\* What a step may do to a card.
LEMMA CardShape ==
  ASSUME TypeOK, RefInv, [Next]_vars, NEW c \in Cards
  PROVE  \/ card'[c] = card[c] \/ Raises(c) \/ Decides(c) \/ Audits(c) \/ Reopens(c)
         \/ \E r \in Requests : Finalizes(c, r)
  <1> USE DEF TypeOK
  <1>1. ASSUME NEW p \in Processes, EndCreate(p), card'[c] # card[c] PROVE Raises(c)
    BY <1>1 DEF EndCreate, Raises
  <1>2. ASSUME NEW p \in Sweepers, NEW d \in Cards, SystemReject(p, d), card'[c] # card[c]
        PROVE  Decides(c)
    BY <1>2 DEF SystemReject, Decides, Claimants
  <1>3. ASSUME NEW d \in Cards, DirectApprove(d), card'[c] # card[c] PROVE Decides(c)
    BY <1>3 DEF DirectApprove, Decides, Claimants
  <1>4. ASSUME NEW r \in Requests, Claim(r), card'[c] # card[c] PROVE Decides(c)
    <2>1. /\ card' = [card EXCEPT ![req[r].card] = Decided(req[r].card, req[r].approve, r)]
          /\ Pending(req[r].card) /\ req[r].at # "new"
      BY <1>4 DEF Claim, Claimable
    <2>2. req[r].card = c /\ req[r].approve \in BOOLEAN /\ r \in Claimants
      BY <1>4, <2>1 DEF Request, Claimants
    <2> QED BY <2>1, <2>2 DEF Decides
  <1>5. ASSUME NEW r \in Requests, Continue(r), card'[c] # card[c] PROVE Audits(c)
    <2>1. Kind[req[r].card] = "chat" /\ card' = [card EXCEPT ![req[r].card].stamp = @ + 1]
      BY <1>5 DEF Continue
    <2>2. req[r].card = c
      BY <1>5, <2>1
    <2> QED BY <2>1, <2>2 DEF Audits
  <1>6. ASSUME NEW r \in Requests, Settle(r), card'[c] # card[c]
        PROVE  Reopens(c) \/ Finalizes(c, r)
    <2> DEFINE d == req[r].card
    <2>1. /\ req[r].at = "ran" /\ Holds(r) /\ req[r].end \notin {"none", "left"}
          /\ card' = [card EXCEPT ![d] = IF req[r].end = "reopen" THEN Reopened(d)
                                         ELSE Finalized(r)]
      BY <1>6 DEF Settle
    <2>2. d = c
      BY <1>6, <2>1
    <2>3. req[r].end \in Ends
      BY DEF Request
    <2>4. CASE req[r].end = "reopen"
      BY <2>1, <2>2, <2>4 DEF Reopens, Holds
    <2>5. CASE req[r].end # "reopen"
      BY <2>1, <2>2, <2>3, <2>5 DEF Finalizes, Holds, Ends
    <2> QED BY <2>4, <2>5
  <1>7. ASSUME NEW a \in Asks, AskTimeout(a), card'[c] # card[c] PROVE Decides(c)
    <2>1. card' = [card EXCEPT ![ask[a].card] = Withdraw(ask[a].card)]
      BY <1>7 DEF AskTimeout
    <2>2. ask[a].card = c
      BY <1>7, <2>1
    <2>3. card'[c] = Withdraw(c)
      BY <2>1, <2>2
    <2>4. Pending(c) /\ card'[c] = Decided(c, FALSE, "system")
      BY <1>7, <2>3 DEF Withdraw
    <2> QED BY <2>4 DEF Decides, Claimants
  <1>8. CASE card' = card
    BY <1>8
  <1> HIDE DEF TypeOK
  <1>9. \/ \E p \in Processes : EndCreate(p)
        \/ \E p \in Sweepers, d \in Cards : SystemReject(p, d)
        \/ \E r \in Requests : Claim(r) \/ Continue(r) \/ Settle(r)
        \/ \E d \in Cards : DirectApprove(d)
        \/ \E a \in Asks : AskTimeout(a)
        \/ card' = card
    BY Untouched DEF Next
  <1> QED BY <1>1, <1>2, <1>3, <1>4, <1>5, <1>6, <1>7, <1>8, <1>9

\* What a step may do to a request.
LEMMA RequestShape ==
  ASSUME TypeOK, [Next]_vars, NEW r \in Requests
  PROVE  \/ req'[r] = req[r]
         \/ \E c \in Cards, route \in Routes, approve \in BOOLEAN : View(r, c, route, approve)
         \/ Read(r) \/ Claim(r) \/ Continue(r)
         \/ Settle(r) /\ req'[r] = [req[r] EXCEPT !.at = "done"]
         \/ req[r].at # "new" /\ req'[r] = [req[r] EXCEPT !.at = "done"]
  <1> USE DEF TypeOK
  <1>1. ASSUME NEW s \in Requests, s # r,
               \/ \E c \in Cards, route \in Routes, approve \in BOOLEAN :
                    View(s, c, route, approve)
               \/ Read(s) \/ Claim(s) \/ Continue(s) \/ Settle(s)
        PROVE  req'[r] = req[r]
    BY <1>1 DEF View, Read, Claim, Continue, Settle
  <1>2. ASSUME NEW p \in Processes, Crash(p)
        PROVE  \/ req'[r] = req[r]
               \/ req[r].at # "new" /\ req'[r] = [req[r] EXCEPT !.at = "done"]
    BY <1>2 DEF Crash
  <1>3. ASSUME Settle(r) PROVE req'[r] = [req[r] EXCEPT !.at = "done"]
    BY <1>3 DEF Settle
  <1>4. CASE req' = req
    BY <1>4
  <1> HIDE DEF TypeOK
  <1>5. \/ \E s \in Requests :
             \/ \E c \in Cards, route \in Routes, approve \in BOOLEAN :
                  View(s, c, route, approve)
             \/ Read(s) \/ Claim(s) \/ Continue(s) \/ Settle(s)
        \/ \E p \in Processes : Crash(p)
        \/ req' = req
    BY Untouched DEF Next
  <1>6. ASSUME NEW s \in Requests,
               \/ \E c \in Cards, route \in Routes, approve \in BOOLEAN :
                    View(s, c, route, approve)
               \/ Read(s) \/ Claim(s) \/ Continue(s) \/ Settle(s)
        PROVE  \/ req'[r] = req[r]
               \/ \E c \in Cards, route \in Routes, approve \in BOOLEAN :
                    View(r, c, route, approve)
               \/ Read(r) \/ Claim(r) \/ Continue(r)
               \/ Settle(r) /\ req'[r] = [req[r] EXCEPT !.at = "done"]
    <2>1. CASE s = r
      BY <1>3, <1>6, <2>1
    <2>2. CASE s # r
      BY <1>1, <1>6, <2>2
    <2> QED BY <2>1, <2>2
  <1> QED BY <1>2, <1>4, <1>5, <1>6

\* The step of a request after which it keeps what it was asked.
LEMMA RequestFields ==
  ASSUME TypeOK, [Next]_vars, NEW r \in Requests, req[r].at # "new"
  PROVE  /\ req'[r].at # "new" /\ req'[r].card = req[r].card
         /\ req'[r].approve = req[r].approve /\ req'[r].route = req[r].route
         /\ req'[r].screen = req[r].screen
         /\ ~Continue(r) => req'[r].end = req[r].end /\ req'[r].ran = req[r].ran
  <1>1. req[r] \in Request /\ req \in [Requests -> Request]
    BY DEF TypeOK
  <1>2. CASE Continue(r)
    <2>1. PICK e : req' = [req EXCEPT ![r].at = "ran", ![r].end = e.end, ![r].ran = e.ran]
      BY <1>2 DEF Continue
    <2> QED BY <1>1, <1>2, <2>1 DEF Request
  <1>3. CASE Claim(r) \/ Read(r)
    BY <1>1, <1>3 DEF Claim, Read, Request
  <1>4. CASE req'[r] = [req[r] EXCEPT !.at = "done"]
    BY <1>1, <1>4 DEF Request
  <1> QED BY <1>2, <1>3, <1>4, RequestShape DEF View

\* Every write of a row counts.
LEMMA StampCounts ==
  ASSUME TypeOK, RefInv, [Next]_vars, NEW c \in Cards
  PROVE  card'[c] = card[c] \/ card'[c].stamp = card[c].stamp + 1
  <1>1. card[c] \in Row
    BY DEF TypeOK
  <1>2. Raises(c) => card'[c].stamp = card[c].stamp + 1
    BY DEF Raises, Written
  <1>3. Decides(c) => card'[c].stamp = card[c].stamp + 1
    BY <1>1 DEF Decides, Decided, Row
  <1>4. Audits(c) \/ Reopens(c) => card'[c].stamp = card[c].stamp + 1
    BY <1>1 DEF Audits, Reopens, Reopened, Row
  <1>5. ASSUME NEW r \in Requests, Finalizes(c, r)
        PROVE  card'[c].stamp = card[c].stamp + 1
    BY <1>1, <1>5 DEF Finalizes, Finalized, Row
  <1> QED BY <1>2, <1>3, <1>4, <1>5, CardShape

----------------------------------------------------------------------------
(* Spoken evidence *)

\* While the stamp is the one that was read, so is the content; and what a
\* spoken approval has claimed is what was on the screen.
SpokenReq(r) ==
    /\ req[r].at = "read" =>
         /\ req[r].stamp <= card[req[r].card].stamp
         /\ req[r].stamp = card[req[r].card].stamp => req[r].text = card[req[r].card].text
    /\ req[r].route = "spoken" /\ req[r].at \in {"claimed", "ran"} =>
         req[r].text = req[r].screen

\* Every step keeps what a spoken approval approved.
LEMMA SpokenStep ==
  ASSUME TypeOK, RefInv, [Next]_vars, NEW r \in Requests, SpokenReq(r)
  PROVE  SpokenReq(r)'
  <1> DEFINE c == req[r].card
  <1>1. req[r] \in Request /\ req \in [Requests -> Request] /\ (req[r].at # "new" => c \in Cards)
    BY DEF TypeOK, RefInv
  <1>2. CASE req'[r] = req[r]
    <2>1. CASE req[r].at = "read"
      <3>1. /\ card[c].stamp \in Nat /\ req[r].stamp \in Nat
            /\ card'[c] = card[c] \/ card'[c].stamp = card[c].stamp + 1
        BY <1>1, <2>1, StampCounts DEF TypeOK, Row, Request
      <3> QED BY <1>2, <2>1, <3>1 DEF SpokenReq
    <2>2. CASE req[r].at # "read"
      BY <1>2, <2>2 DEF SpokenReq
    <2> QED BY <2>1, <2>2
  <1>3. ASSUME NEW d \in Cards, NEW route \in Routes, NEW approve \in BOOLEAN,
               View(r, d, route, approve)
        PROVE  SpokenReq(r)'
    <2>1. req'[r].at = "viewed"
      BY <1>1, <1>3 DEF View, Request
    <2> QED BY <2>1 DEF SpokenReq
  <1>4. CASE Read(r)
    <2>1. /\ req'[r].at \in {"read", "done"} /\ req'[r].card = c /\ card' = card
          /\ req'[r].stamp = card[c].stamp /\ req'[r].text = card[c].text
      BY <1>1, <1>4 DEF Read, Request
    <2>2. card[c].stamp \in Nat
      BY <1>1, <1>4 DEF Read, TypeOK, Row
    <2> QED BY <2>1, <2>2 DEF SpokenReq
  <1>5. CASE Claim(r)
    <2>1. CASE EvidenceCurrent(r) /\ Claimable(r)
      <3>1. /\ req'[r].at = "claimed" /\ req'[r].text = card[c].text
            /\ req'[r].route = req[r].route /\ req'[r].screen = req[r].screen
        BY <1>1, <1>5, <2>1 DEF Claim, Request
      <3>2. req[r].route = "spoken" =>
              /\ req[r].at = "read" /\ req[r].text = req[r].screen
              /\ card[c].stamp = req[r].stamp
        BY <1>5, <2>1 DEF Claim, EvidenceCurrent, Claimable, Unchanged
      <3> QED BY <3>1, <3>2 DEF SpokenReq
    <2>2. CASE ~(EvidenceCurrent(r) /\ Claimable(r))
      <3>1. req'[r].at = "done"
        BY <1>1, <1>5, <2>2 DEF Claim, Request
      <3> QED BY <3>1 DEF SpokenReq
    <2> QED BY <2>1, <2>2
  <1>6. CASE Continue(r)
    <2>1. /\ req[r].at = "claimed" /\ req'[r].at = "ran" /\ req'[r].text = req[r].text
          /\ req'[r].route = req[r].route /\ req'[r].screen = req[r].screen
      BY <1>1, <1>6 DEF Continue, Request
    <2> QED BY <2>1 DEF SpokenReq
  <1>7. CASE req'[r] = [req[r] EXCEPT !.at = "done"]
    <2>1. req'[r].at = "done"
      BY <1>1, <1>7 DEF Request
    <2> QED BY <2>1 DEF SpokenReq
  <1> QED BY <1>2, <1>3, <1>4, <1>5, <1>6, <1>7, RequestShape

\* An approval with spoken evidence approves the content that was spoken: the
\* claim compares the stamp, and no write keeps it.  No condition on who writes.
THEOREM SpokenIsApproved == Spec => []SpokenWasSeen
  <1> DEFINE Inv == TypeOK /\ RefInv /\ \A r \in Requests : SpokenReq(r)
  <1>1. Init => Inv
    BY InitType DEF Init, SpokenReq, NoRequest
  <1>2. Inv /\ [Next]_vars => Inv'
    BY StepType, SpokenStep
  <1>3. Inv => SpokenWasSeen
    BY DEF SpokenReq, SpokenWasSeen
  <1> QED BY <1>1, <1>2, <1>3, PTL DEF Spec

----------------------------------------------------------------------------
(* The answers agents get *)

\* Permission cards are neither refreshed nor reopened, and one that allows was
\* approved by a request; an ask that has raised a card keeps to it.
PermitBlock(p) == block[p] # None =>
    /\ block[p].seen # None => Kind[block[p].seen] # "permit" /\ block[p].ask = None
    /\ block[p].ask # None =>
         \A c \in Cards : Fingerprint[c] = block[p].print => Kind[c] = "permit"
PermitReq(r) == req[r].end = "reopen" => req[r].at # "new" /\ Kind[req[r].card] # "permit"
PermitCard(c) == Kind[c] = "permit" /\ Allows(c) =>
    \E r \in Requests : req[r].at # "new" /\ req[r].card = c /\ req[r].approve
PermitAsk(a) == ask[a].answer # "none" =>
    /\ ask[a].card \in Cards /\ Kind[ask[a].card] = "permit"
    /\ card[ask[a].card].status # "none"
    /\ ask[a].answer = "allowed" => Allows(ask[a].card)
    /\ ask[a].answer = "denied" => ~Pending(ask[a].card)
PermitInv ==
    /\ \A p \in Processes : PermitBlock(p)
    /\ \A r \in Requests : PermitReq(r)
    /\ \A c \in Cards : PermitCard(c)
    /\ \A a \in Asks : PermitAsk(a)

\* No block refreshes a permission card.
LEMMA PermitBlockStep ==
  ASSUME TypeOK, [Next]_vars, NEW p \in Processes, PermitBlock(p)
  PROVE  PermitBlock(p)'
  <1>1. ASSUME NEW c \in Cards, NEW a \in Asks \cup {None},
               BeginCreate(p, Fingerprint[c], a)
        PROVE  PermitBlock(p)'
    <2> DEFINE f == Fingerprint[c]
    <2>1. PICK seen \in Cards \cup {None} :
            /\ IF Reusable(f) = {} THEN seen = None ELSE seen \in Reusable(f)
            /\ block' = [block EXCEPT ![p] = [print |-> f, seen |-> seen, ask |-> a]]
      BY <1>1 DEF BeginCreate
    <2>2. block'[p] = [print |-> f, seen |-> seen, ask |-> a]
      BY <2>1 DEF TypeOK
    <2>3. a # None => \A d \in Cards : Fingerprint[d] = f => Kind[d] = "permit"
      BY <1>1, ApprovalAssumption DEF BeginCreate
    <2>4. seen # None => Kind[seen] # "permit" /\ Fingerprint[seen] = f /\ seen \in Cards
      BY <1>1, <2>1 DEF BeginCreate, Raisable, Reusable, Pending
    <2> QED BY <2>2, <2>3, <2>4 DEF PermitBlock
  <1>2. ASSUME NEW q \in Processes, NEW c \in Cards, NEW a \in Asks \cup {None},
               BeginCreate(q, Fingerprint[c], a), q # p
        PROVE  block'[p] = block[p]
    BY <1>2 DEF BeginCreate, TypeOK
  <1>3. ASSUME NEW q \in Processes, EndCreate(q) \/ Crash(q)
        PROVE  block'[p] = block[p] \/ block'[p] = None
    BY <1>3 DEF EndCreate, Crash, TypeOK
  <1>4. CASE block' = block
    BY <1>4 DEF PermitBlock
  <1>5. CASE block'[p] = block[p] \/ block'[p] = None
    BY <1>5 DEF PermitBlock
  <1>6. \/ \E q \in Processes, c \in Cards, a \in Asks \cup {None} :
             BeginCreate(q, Fingerprint[c], a)
        \/ \E q \in Processes : EndCreate(q) \/ Crash(q)
        \/ block' = block
    BY Untouched DEF Next
  <1>7. ASSUME NEW q \in Processes, NEW c \in Cards, NEW a \in Asks \cup {None},
               BeginCreate(q, Fingerprint[c], a)
        PROVE  PermitBlock(p)'
    <2>1. CASE q = p
      BY <1>1, <1>7, <2>1
    <2>2. CASE q # p
      BY <1>2, <1>5, <1>7, <2>2
    <2> QED BY <2>1, <2>2
  <1> QED BY <1>3, <1>4, <1>5, <1>6, <1>7

\* No request reopens a permission card.
LEMMA PermitReqStep ==
  ASSUME TypeOK, RefInv, [Next]_vars, NEW r \in Requests, PermitReq(r)
  PROVE  PermitReq(r)'
  <1>1. req[r] \in Request /\ req \in [Requests -> Request]
    BY DEF TypeOK
  <1>2. CASE req'[r] = req[r]
    BY <1>2 DEF PermitReq
  <1>3. ASSUME NEW d \in Cards, NEW route \in Routes, NEW approve \in BOOLEAN,
               View(r, d, route, approve)
        PROVE  PermitReq(r)'
    <2>1. req[r].at = "new" /\ req'[r].end = req[r].end
      BY <1>1, <1>3 DEF View, Request
    <2> QED BY <2>1 DEF PermitReq
  <1>4. CASE Continue(r)
    <2>1. PICK e \in IF req[r].approve THEN Ending(Kind[req[r].card], req[r].route)
                                       ELSE {Ended("none", FALSE)} :
            req' = [req EXCEPT ![r].at = "ran", ![r].end = e.end, ![r].ran = e.ran]
      BY <1>4 DEF Continue
    <2>2. req'[r].at = "ran" /\ req'[r].card = req[r].card /\ req'[r].end = e.end
      BY <1>1, <2>1 DEF Request
    <2>3. Kind[req[r].card] = "permit" => e.end = "none"
      <3>1. Ended("none", FALSE).end = "none"
        BY DEF Ended
      <3>2. CASE Kind[req[r].card] = "permit"
        <4>1. Ending("permit", req[r].route) = {Ended("none", FALSE)}
          BY DEF Ending, DesktopEnding, PhoneEnding
        <4> QED BY <2>1, <3>1, <3>2, <4>1
      <3> QED BY <3>2
    <2>4. req[r].at # "new"
      BY <1>4 DEF Continue
    <2> QED BY <2>2, <2>3 DEF PermitReq
  <1>5. CASE req[r].at # "new" /\ ~Continue(r)
    BY <1>5, RequestFields DEF PermitReq
  <1> QED BY <1>2, <1>3, <1>4, <1>5, RequestShape DEF Read, Claim, Settle

\* The status of a permission card moves only by a decision, or when the ask
\* that raises it writes it.
LEMMA PermitRow ==
  ASSUME TypeOK, RefInv, PermitInv, [Next]_vars, NEW c \in Cards, Kind[c] = "permit"
  PROVE  \/ card'[c].status = card[c].status
         \/ card[c].status = "none" /\ card'[c].status = "pending"
         \/ Pending(c) /\ card'[c].status \in {"approved", "rejected"}
  <1>1. card[c] \in Row
    BY DEF TypeOK
  <1>2. CASE Raises(c)
    BY <1>2, ApprovalAssumption DEF Raises, Written, PermitInv, PermitBlock
  <1>3. CASE Decides(c)
    BY <1>1, <1>3 DEF Decides, Decided, Row
  <1>4. CASE Reopens(c)
    BY <1>4 DEF Reopens, PermitInv, PermitReq
  <1>5. ASSUME NEW r \in Requests, Finalizes(c, r) PROVE card'[c].status = card[c].status
    BY <1>1, <1>5 DEF Finalizes, Finalized, Row
  <1> QED BY <1>2, <1>3, <1>4, <1>5, CardShape DEF Audits

\* A permission card allows only by the approval of a request.
LEMMA PermitCardStep ==
  ASSUME TypeOK, RefInv, PermitInv, [Next]_vars, NEW c \in Cards
  PROVE  PermitCard(c)'
  <1> SUFFICES ASSUME Kind[c] = "permit", card'[c].status = "approved"
               PROVE  \E r \in Requests : req'[r].at # "new" /\ req'[r].card = c /\ req'[r].approve
    BY DEF PermitCard, Allows
  <1>1. card[c] \in Row
    BY DEF TypeOK
  <1>2. \E r \in Requests : req[r].at # "new" /\ req[r].card = c /\ req[r].approve
    <2>1. CASE Allows(c)
      BY <2>1 DEF PermitInv, PermitCard
    <2>2. CASE Decides(c)
      <3>1. PICK b \in BOOLEAN, w \in Claimants :
              /\ card'[c] = Decided(c, b, w)
              /\ b /\ Kind[c] # "lane" =>
                   w \in Requests /\ req[w].at # "new" /\ req[w].card = c /\ req[w].approve
        BY <2>2 DEF Decides
      <3>2. b
        BY <1>1, <3>1 DEF Decided, Row
      <3> QED BY <3>1, <3>2
    <2>3. CASE Raises(c) \/ Reopens(c)
      <3>1. Written(c).status = "pending" /\ Reopened(c).status = "pending"
        BY <1>1 DEF Written, Reopened, Row
      <3> QED BY <2>3, <3>1 DEF Raises, Reopens
    <2>4. ASSUME NEW r \in Requests, Finalizes(c, r) PROVE Allows(c)
      BY <1>1, <2>4 DEF Finalizes, Finalized, Row, Allows
    <2> QED BY <2>1, <2>2, <2>3, <2>4, CardShape DEF Audits, Allows
  <1> QED BY <1>2, RequestFields

\* An ask's answer is its card's status when it polled, and that is final.
LEMMA PermitAskStep ==
  ASSUME TypeOK, RefInv, PermitInv, [Next]_vars, NEW a \in Asks
  PROVE  PermitAsk(a)'
  <1>1. PermitAsk(a) /\ ask \in [Asks -> [card : Cards \cup {None},
                   answer : {"none", "waiting", "allowed", "denied", "lost"}]]
    BY DEF PermitInv, TypeOK
  <1>2. ASSUME ask'[a].card = ask[a].card, ask[a].answer # "none",
               ask'[a].answer = ask[a].answer \/ ask'[a].answer = "lost"
        PROVE  PermitAsk(a)'
    BY <1>1, <1>2, PermitRow DEF PermitAsk, Allows, Pending
  <1>3. ASSUME NEW p \in Processes, EndCreate(p), ask'[a] # ask[a]
        PROVE  PermitAsk(a)'
    <2> DEFINE fresh == {c \in Cards : Fingerprint[c] = block[p].print
                                       /\ card[c].status = "none"}
               written == IF block[p].seen = None THEN fresh ELSE {block[p].seen}
    <2>1. block[p] # None /\ block[p].ask # None
      BY <1>3 DEF EndCreate
    <2>2. PICK c \in written :
            /\ card' = [card EXCEPT ![c] = Written(c)]
            /\ ask' = [ask EXCEPT ![block[p].ask] = [card |-> c, answer |-> "waiting"]]
      BY <1>3, <2>1 DEF EndCreate
    <2>3. c \in Cards /\ Fingerprint[c] = block[p].print
      BY <2>1, <2>2 DEF PermitInv, PermitBlock
    <2>4. Kind[c] = "permit"
      BY <2>1, <2>3 DEF PermitInv, PermitBlock
    <2>5. card'[c].status = "pending" /\ ask'[a] = [card |-> c, answer |-> "waiting"]
      BY <1>3, <2>2, <2>3 DEF TypeOK, Written
    <2> QED BY <2>3, <2>4, <2>5 DEF PermitAsk
  <1>4. CASE AskPoll(a)
    <2>1. /\ ask[a].answer = "waiting" /\ ~Pending(ask[a].card) /\ card' = card
          /\ ask'[a].card = ask[a].card
          /\ ask'[a].answer = IF Allows(ask[a].card) THEN "allowed" ELSE "denied"
      BY <1>1, <1>4 DEF AskPoll, Waiting
    <2> QED BY <1>1, <2>1 DEF PermitAsk, Allows, Pending
  <1>5. CASE AskTimeout(a)
    <2> DEFINE c == ask[a].card
    <2>1. /\ ask[a].answer = "waiting" /\ c \in Cards /\ card[c] \in Row
          /\ ask'[a].card = c /\ ask'[a].answer = "denied"
          /\ card' = [card EXCEPT ![c] = Withdraw(c)]
      BY <1>1, <1>5 DEF AskTimeout, Expires, Waiting, RefInv, TypeOK
    <2>2. card'[c].status \notin {"none", "pending"}
      <3>1. card'[c] = Withdraw(c) /\ card[c].status # "none"
        BY <1>1, <2>1 DEF PermitAsk, TypeOK
      <3>2. Pending(c) => Decided(c, FALSE, "system").status = "rejected"
        BY <2>1 DEF Decided, Row
      <3> QED BY <3>1, <3>2 DEF Withdraw, Pending
    <2> QED BY <1>1, <2>1, <2>2 DEF PermitAsk, Pending
  <1>6. ASSUME NEW b \in Asks, b # a, AskPoll(b) \/ AskTimeout(b) PROVE ask'[a] = ask[a]
    BY <1>1, <1>6 DEF AskPoll, AskTimeout
  <1>7. ASSUME NEW p \in Processes, Crash(p)
        PROVE  \/ ask'[a] = ask[a]
               \/ /\ ask'[a].card = ask[a].card /\ ask[a].answer # "none"
                  /\ ask'[a].answer = "lost"
    BY <1>1, <1>7 DEF Crash, Waiting
  <1>8. CASE ask'[a] = ask[a]
    <2>1. CASE ask[a].answer = "none"
      BY <1>8, <2>1 DEF PermitAsk
    <2> QED BY <1>2, <1>8, <2>1
  <1>9. CASE ask' = ask
    BY <1>8, <1>9
  <1>10. \/ \E p \in Processes : EndCreate(p) \/ Crash(p)
         \/ \E b \in Asks : AskPoll(b) \/ AskTimeout(b)
         \/ ask' = ask
    BY Untouched DEF Next
  <1>11. ASSUME NEW b \in Asks, AskPoll(b) \/ AskTimeout(b) PROVE PermitAsk(a)'
    <2>1. CASE b = a
      BY <1>4, <1>5, <1>11, <2>1
    <2>2. CASE b # a
      BY <1>6, <1>8, <1>11, <2>2
    <2> QED BY <2>1, <2>2
  <1> QED BY <1>2, <1>3, <1>7, <1>8, <1>9, <1>10, <1>11

\* An agent is allowed only by the decision of a request of the operator, and
\* no agent that was denied or has expired leaves a card to decide.  It holds
\* whoever raises and expires cards: nobody refreshes or reopens a permission.
THEOREM AnswersAreTrue == Spec => []AskAnswers
  <1> DEFINE Inv == TypeOK /\ RefInv /\ PermitInv
  <1>1. Init => Inv
    <2>1. Init => PermitInv
      BY DEF Init, PermitInv, PermitBlock, PermitReq, PermitCard, PermitAsk,
             NoRow, NoRequest, Allows
    <2> QED BY <2>1, InitType
  <1>2. Inv /\ [Next]_vars => Inv'
    <2> SUFFICES ASSUME Inv, [Next]_vars PROVE Inv'
      OBVIOUS
    <2>1. \A p \in Processes : PermitBlock(p)'
      BY PermitBlockStep DEF PermitInv
    <2>2. \A r \in Requests : PermitReq(r)'
      BY PermitReqStep DEF PermitInv
    <2>3. (\A c \in Cards : PermitCard(c)') /\ (\A a \in Asks : PermitAsk(a)')
      BY PermitCardStep, PermitAskStep
    <2> QED BY <2>1, <2>2, <2>3, StepType DEF PermitInv
  <1>3. Inv => AskAnswers
    BY DEF PermitInv, PermitAsk, PermitCard, AskAnswers, Allows
  <1> QED BY <1>1, <1>2, <1>3, PTL DEF Spec

----------------------------------------------------------------------------
(* Outcomes *)

Lasting == {"lane", "plan", "runtime"}
Executed(c) == \E r \in Requests : req[r].card = c /\ req[r].ran
OutcomeCard(c) == Kind[c] \in Lasting =>
    /\ card[c].cont = "completed" => Executed(c)
    /\ card[c].cont = "failed" => ~Executed(c)
\* A claimed card awaits its outcome, and the outcome of a continuation that
\* has ended tells whether it was carried out.
OutcomeReq(r) == req[r].at # "new" /\ Kind[req[r].card] \in Lasting =>
    /\ req[r].at = "claimed" /\ req[r].approve => card[req[r].card].cont = "pending"
    /\ req[r].at = "ran" => /\ req[r].end = "completed" => req[r].ran
                            /\ req[r].end = "failed" => ~req[r].ran
OutcomeInv == (\A c \in Cards : OutcomeCard(c)) /\ (\A r \in Requests : OutcomeReq(r))

\* Continuations of these kinds end as they ran, on every route.
LEMMA EndingTruth ==
  ASSUME NEW kind \in Lasting, NEW route, NEW e \in Ending(kind, route)
  PROVE  (e.end = "completed" => e.ran) /\ (e.end = "failed" => ~e.ran)
  <1>1. CASE kind = "lane"
    BY <1>1 DEF Ending, DesktopEnding, PhoneEnding, Refusals, MayHaveRun, Ended
  <1>2. CASE kind = "plan"
    BY <1>2 DEF Ending, DesktopEnding, PhoneEnding, Refusals, MayHaveRun, Ended
  <1>3. CASE kind = "runtime"
    BY <1>3 DEF Ending, DesktopEnding, PhoneEnding, Refusals, MayHaveRun, Ended
  <1> QED BY <1>1, <1>2, <1>3 DEF Lasting

\* Who carries out what a card asks for: the claimant, by its continuation.
LEMMA ExecutedStep ==
  ASSUME IInv, RefInv, [Next]_vars, NEW c \in Cards
  PROVE  /\ Executed(c) => Executed(c)'
         /\ Executed(c)' => \/ Executed(c)
                            \/ \E r \in Requests : /\ Continue(r) /\ req[r].card = c
                                                   /\ req[r].approve
  <1>1. TypeOK /\ ClaimInv
    BY DEF IInv
  <1>2. ASSUME NEW r \in Requests, req[r].card = c, req[r].ran
        PROVE  req'[r].card = c /\ req'[r].ran
    <2>1. req[r].at \in {"ran", "done"}
      BY <1>1, <1>2 DEF ClaimInv
    <2> QED BY <1>1, <1>2, <2>1, RequestFields DEF Continue
  <1>3. ASSUME NEW r \in Requests, req'[r].card = c, req'[r].ran, ~Executed(c)
        PROVE  Continue(r) /\ req[r].card = c /\ req[r].approve
    <2>1. CASE req[r].at = "new"
      <3>1. ~req[r].ran
        BY <1>1, <2>1 DEF ClaimInv
      <3>2. req'[r].ran = req[r].ran
        <4>1. ASSUME NEW d \in Cards, NEW route \in Routes, NEW approve \in BOOLEAN,
                     View(r, d, route, approve)
              PROVE  req'[r].ran = req[r].ran
          BY <1>1, <4>1 DEF View, TypeOK, Request
        <4>2. ~Read(r) /\ ~Claim(r) /\ ~Continue(r) /\ ~Settle(r)
          BY <2>1 DEF Read, Claim, Continue, Settle
        <4>3. \/ req'[r] = req[r]
              \/ \E d \in Cards, route \in Routes, approve \in BOOLEAN :
                   View(r, d, route, approve)
          BY <1>1, <2>1, <4>2, RequestShape
        <4> QED BY <4>1, <4>3
      <3> QED BY <1>3, <3>1, <3>2
    <2>2. CASE req[r].at # "new"
      <3>1. req'[r].card = req[r].card /\ (~Continue(r) => req'[r].ran = req[r].ran)
        BY <1>1, <2>2, RequestFields
      <3>2. Continue(r)
        BY <1>3, <3>1 DEF Executed
      <3>3. req[r].approve
        <4>1. PICK e \in IF req[r].approve THEN Ending(Kind[req[r].card], req[r].route)
                                           ELSE {Ended("none", FALSE)} :
                req' = [req EXCEPT ![r].at = "ran", ![r].end = e.end, ![r].ran = e.ran]
          BY <3>2 DEF Continue
        <4>2. req'[r].ran = e.ran
          BY <1>1, <4>1 DEF TypeOK, Request
        <4> QED BY <1>3, <4>1, <4>2 DEF Ended
      <3> QED BY <1>3, <3>1, <3>2, <3>3
    <2> QED BY <2>1, <2>2
  <1> QED BY <1>2, <1>3 DEF Executed

\* Every step keeps the recorded outcome of a card true,
LEMMA OutcomeCardStep ==
  ASSUME IInv, RefInv, OutcomeInv, [Next]_vars, NEW c \in Cards
  PROVE  OutcomeCard(c)'
  <1> SUFFICES ASSUME Kind[c] \in Lasting
               PROVE  /\ card'[c].cont = "completed" => Executed(c)'
                      /\ card'[c].cont = "failed" => ~Executed(c)'
    BY DEF OutcomeCard, Executed
  <1>1. /\ TypeOK /\ ClaimInv /\ card[c] \in Row /\ OutcomeCard(c)
        /\ \A r \in Requests : OutcomeReq(r)
    BY DEF IInv, TypeOK, OutcomeInv
  <1>2. CASE card'[c].cont = card[c].cont
    <2>1. ASSUME NEW r \in Requests, Continue(r), req[r].card = c, req[r].approve
          PROVE  card[c].cont = "pending"
      BY <1>1, <2>1 DEF OutcomeReq, Continue
    <2> QED BY <1>1, <1>2, <2>1, ExecutedStep DEF OutcomeCard
  <1>3. CASE Raises(c) \/ Decides(c) \/ Reopens(c)
    <2>1. CASE Raises(c) \/ Reopens(c)
      <3>1. Written(c).cont = "none" /\ Reopened(c).cont = "none"
        BY <1>1 DEF Written, Reopened, Row
      <3> QED BY <2>1, <3>1 DEF Raises, Reopens
    <2>2. CASE Decides(c)
      <3>1. PICK b, w : card'[c] = Decided(c, b, w)
        BY <2>2 DEF Decides
      <3>2. card'[c].cont \in {"none", "pending"}
        BY <1>1, <3>1 DEF Decided, Row
      <3> QED BY <3>2
    <2> QED BY <1>3, <2>1, <2>2
  <1>4. CASE Audits(c)
    BY <1>4 DEF Audits, Lasting
  <1>5. ASSUME NEW r \in Requests, Finalizes(c, r)
        PROVE  /\ card'[c].cont = "completed" => Executed(c)'
               /\ card'[c].cont = "failed" => ~Executed(c)'
    <2>1. /\ req[r].at = "ran" /\ req[r].card = c /\ card[c].claim = r
          /\ card'[c].cont = req[r].end
          /\ req[r].end = "completed" => req[r].ran
          /\ req[r].end = "failed" => ~req[r].ran
      BY <1>1, <1>5 DEF Finalizes, Finalized, OutcomeReq, Row
    <2>2. ASSUME NEW s \in Requests, s # r, req[s].card = c PROVE ~req[s].ran
      BY <1>1, <2>1, <2>2 DEF ClaimInv, Holds
    <2>3. Executed(c) <=> req[r].ran
      BY <2>1, <2>2 DEF Executed
    <2>4. ASSUME NEW s \in Requests, Continue(s), req[s].card = c PROVE FALSE
      BY <1>1, <2>1, <2>4 DEF Continue, ClaimInv, Holds
    <2> QED BY <2>1, <2>3, <2>4, ExecutedStep
  <1> QED BY <1>1, <1>2, <1>3, <1>4, <1>5, CardShape

\* and what the request that will record it knows.
LEMMA OutcomeReqStep ==
  ASSUME IInv, RefInv, OutcomeInv, [Next]_vars, NEW r \in Requests
  PROVE  OutcomeReq(r)'
  <1> DEFINE c == req[r].card
  <1>1. /\ TypeOK /\ ClaimInv /\ OutcomeReq(r) /\ req[r] \in Request
        /\ req \in [Requests -> Request]
        /\ req[r].at # "new" => c \in Cards /\ card[c] \in Row
    BY DEF IInv, TypeOK, OutcomeInv, RefInv
  <1>2. CASE req'[r] = req[r]
    <2>1. CASE req[r].at = "claimed" /\ req[r].approve /\ Kind[c] \in Lasting
      <3>1. card[c].claim = r /\ Allows(c) /\ card[c].cont = "pending"
        BY <1>1, <2>1 DEF ClaimInv, Holds, OutcomeReq
      <3>2. card'[c].cont = card[c].cont
        <4>1. ~Raises(c)
          BY <1>1, <2>1, <3>1, ApprovalAssumption
             DEF Raises, ClaimInv, Allows, Pending
        <4>2. ~Decides(c)
          BY <3>1 DEF Decides, Allows, Pending
        <4>3. ~Audits(c)
          BY <2>1 DEF Audits, Lasting
        <4>4. ~Reopens(c) /\ \A s \in Requests : ~Finalizes(c, s)
          BY <2>1, <3>1 DEF Reopens, Finalizes
        <4> QED BY <1>1, <2>1, <4>1, <4>2, <4>3, <4>4, CardShape
      <3> QED BY <1>2, <2>1, <3>1, <3>2 DEF OutcomeReq
    <2>2. CASE ~(req[r].at = "claimed" /\ req[r].approve /\ Kind[c] \in Lasting)
      BY <1>1, <1>2, <2>2 DEF OutcomeReq
    <2> QED BY <2>1, <2>2
  <1>3. ASSUME req'[r].at \notin {"claimed", "ran"} PROVE OutcomeReq(r)'
    BY <1>3 DEF OutcomeReq
  <1>4. ASSUME NEW d \in Cards, NEW route \in Routes, NEW approve \in BOOLEAN,
               View(r, d, route, approve)
        PROVE  OutcomeReq(r)'
    <2>1. req'[r].at = "viewed"
      BY <1>1, <1>4 DEF View, Request
    <2> QED BY <1>3, <2>1
  <1>5. CASE Read(r)
    <2>1. req'[r].at \in {"read", "done"}
      BY <1>1, <1>5 DEF Read, Request
    <2> QED BY <1>3, <2>1
  <1>6. CASE Claim(r)
    <2>1. CASE EvidenceCurrent(r) /\ Claimable(r)
      <3>1. /\ req'[r].at = "claimed" /\ req'[r].card = c /\ req'[r].approve = req[r].approve
            /\ card' = [card EXCEPT ![c] = Decided(c, req[r].approve, r)]
            /\ c \in Cards
        BY <1>1, <1>6, <2>1 DEF Claim, Request
      <3>2. Kind[c] \in Lasting /\ req[r].approve => card'[c].cont = "pending"
        BY <1>1, <3>1 DEF Decided, HasContinuation, Lasting, TypeOK, Row
      <3> QED BY <3>1, <3>2 DEF OutcomeReq
    <2>2. CASE ~(EvidenceCurrent(r) /\ Claimable(r))
      <3>1. req'[r].at = "done"
        BY <1>1, <1>6, <2>2 DEF Claim, Request
      <3> QED BY <1>3, <3>1
    <2> QED BY <2>1, <2>2
  <1>7. CASE Continue(r)
    <2>1. PICK e \in IF req[r].approve THEN Ending(Kind[c], req[r].route)
                                       ELSE {Ended("none", FALSE)} :
            req' = [req EXCEPT ![r].at = "ran", ![r].end = e.end, ![r].ran = e.ran]
      BY <1>7 DEF Continue
    <2>2. /\ req'[r].at = "ran" /\ req'[r].card = c
          /\ req'[r].end = e.end /\ req'[r].ran = e.ran
      BY <1>1, <2>1 DEF Request
    <2>3. Kind[c] \in Lasting => (e.end = "completed" => e.ran) /\ (e.end = "failed" => ~e.ran)
      BY EndingTruth DEF Ended
    <2> QED BY <2>2, <2>3 DEF OutcomeReq
  <1>8. CASE req'[r] = [req[r] EXCEPT !.at = "done"]
    <2>1. req'[r].at = "done"
      BY <1>1, <1>8 DEF Request
    <2> QED BY <1>3, <2>1
  <1>9. \/ req'[r] = req[r]
        \/ \E d \in Cards, route \in Routes, approve \in BOOLEAN :
             View(r, d, route, approve)
        \/ Read(r) \/ Claim(r) \/ Continue(r)
        \/ req'[r] = [req[r] EXCEPT !.at = "done"]
    BY <1>1, RequestShape
  <1> QED BY <1>2, <1>4, <1>5, <1>6, <1>7, <1>8, <1>9

\* The outcome of a lane command, plan or launch is recorded truly: completed
\* if a request carried it out, failed if none did.
THEOREM OutcomesAreTrue == ASSUME OneWriter PROVE Spec => []OutcomeTrue
  <1> DEFINE Inv == IInv /\ RefInv /\ OutcomeInv
  <1>1. Init => Inv
    <2>1. Init => OutcomeInv
      BY DEF Init, OutcomeInv, OutcomeCard, OutcomeReq, NoRow, NoRequest
    <2> QED BY <2>1, InitInv, InitType
  <1>2. Inv /\ [Next]_vars => Inv'
    <2> SUFFICES ASSUME Inv, [Next]_vars PROVE Inv'
      OBVIOUS
    <2>1. OutcomeInv'
      BY OutcomeCardStep, OutcomeReqStep DEF OutcomeInv
    <2> QED BY <2>1, NextInv, StepType DEF IInv
  <1>3. Inv => OutcomeTrue
    BY DEF OutcomeInv, OutcomeCard, Executed, Lasting, OutcomeTrue
  <1> QED BY <1>1, <1>2, <1>3, PTL DEF Spec
============================================================================
