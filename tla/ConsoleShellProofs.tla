------------------------- MODULE ConsoleShellProofs -------------------------
(***************************************************************************)
(* Proofs about the parts of the console around its pages.                 *)
(*                                                                         *)
(* ConsoleSession, for any number of sign-ins, refreshes, requests, expired *)
(* tokens, lost answers and changes.                                       *)
(*                                                                         *)
(* Onboarding: nothing unchecked is accepted, whatever calls overlap and   *)
(* however many fail.  The strengthening: what the console holds as        *)
(* checked the server has accepted, text by text; a call of the approval   *)
(* of a pack carries only that; and an approval of documents that has not  *)
(* failed yet has ingested every document it has passed.                   *)
(*                                                                         *)
(* Documents of an alert: none holds the words of another alert.  The      *)
(* strengthening: the form and every call hold the words of the alert they *)
(* name.                                                                   *)
(*                                                                         *)
(* Navigation: at rest nothing is shown that the role may not open.  The   *)
(* strengthening: what is shown is allowed, or the effects have not seen   *)
(* it yet, or another URL is on its way; and there is one on its way only  *)
(* while the effects have seen the URL shown.                              *)
(*                                                                         *)
(* Events: none is handed on twice.  The strengthening: until the memory   *)
(* is cut it holds the events handled and nothing else, so its size, which *)
(* decides the cut, is their number.                                       *)
(*                                                                         *)
(* The timeline of an incident: every event the page keeps is shown in its *)
(* order, and every failure in its lane, whatever the clocks.  The invariant *)
(* says what the services store; all the rest is about what the page makes *)
(* of such a store.  Ranking by the number of those before is an order of  *)
(* everything when what comes before is one; the comparison of the sort is *)
(* one for the rows of a document, since only the rows of events and the   *)
(* two of the context agent have numbers of their own, and these agree with *)
(* their places; and of two rows with one key only events show the first.  *)
(*                                                                         *)
(* Consolidated lists: alerts are told apart, whatever rows the server     *)
(* lists.  The invariant says only that they are rows; the rest is about   *)
(* the loops over them, each by induction over its turns.  The rows of one *)
(* group stay the linked ones while no row joins two alerts, and the row   *)
(* that stands for them is the first that no other is preferred to; of     *)
(* every type the newest row has a slot, or its source is full of others.  *)
(***************************************************************************)
EXTENDS ConsoleSession, OnboardingReview, AlertDocuments, WorkspaceNavigation, OperationalEvents,
        IncidentTimeline, AlertConsolidation, SequenceTheorems, FiniteSetTheorems, TLAPS

Rows == [chain : Nat, status : {"active", "rotated", "revoked"}, fresh : BOOLEAN]
RefreshRecords == [token : Nat \ {0}, server : {"sent", "checked", "refused", "answered"},
                   got : Nat, open : BOOLEAN]

LoginRecords == [phase : {"idle", "sent", "answered"}, got : Nat, attempt : 1 .. 4, late : Nat]

\* The part of the state that carries tokens.
SessionTypes ==
    /\ sessions \in Seq(Rows)
    /\ refreshes \in Seq(RefreshRecords)
    /\ signedIn \in [access : Nat, refresh : Nat]
    /\ promise \in Nat
    /\ login \in LoginRecords
    /\ used \in [{"login", "start", "lapse", "fault"} -> Nat]

Made == 1 .. Len(refreshes)

\* A row no later row of its session follows.
Newest(i) == i \in 1 .. LastRow /\ \A j \in 1 .. LastRow : sessions[j].chain = sessions[i].chain => j <= i

Unspent(t) == \A r \in Made : refreshes[r].token # t

\* One refresh is awaited at a time; the gateway may still work on those given up.
OneAwaited == promise \in 0 .. Len(refreshes) /\ \A r \in Made : refreshes[r].open <=> r = promise

\* Every token was handed out with a row.
TokensKnown == signedIn.refresh \in 0 .. LastRow /\ \A r \in Made : refreshes[r].token \in 1 .. LastRow

\* The tokens the console may come to present: those it is signed in with, unless their
\* refresh is awaited, those of a sign-in, and those of the refresh awaited.
SignedInPresentable ==
    promise = 0 /\ signedIn.refresh # 0 => Newest(signedIn.refresh) /\ Unspent(signedIn.refresh)
LoginPresentable ==
    login.phase = "answered" => /\ Newest(login.got) /\ Unspent(login.got)
                                /\ login.got # signedIn.refresh
RefreshPresentable ==
    \A r \in Made : refreshes[r].open /\ refreshes[r].server = "answered" =>
        /\ Newest(refreshes[r].got) /\ Unspent(refreshes[r].got)
        /\ login.phase = "answered" => login.got # refreshes[r].got
Presentable == SignedInPresentable /\ LoginPresentable /\ RefreshPresentable

\* A refresh the gateway has not decided on is of the newest row of its session.
UndecidedNewest == \A r \in Made : refreshes[r].server \in {"sent", "checked"} => Newest(refreshes[r].token)

\* Of a session, only the newest row may be live.
OlderRowsDead ==
    \A i, j \in 1 .. LastRow : i < j /\ sessions[i].chain = sessions[j].chain => sessions[i].status # "active"

\* A session is named by the row it began with, so the next one has a name of its own.
ChainsKnown == \A i \in 1 .. LastRow : sessions[i].chain <= LastRow

TokenInv ==
    /\ SessionTypes /\ TokensKnown /\ OneAwaited /\ Presentable /\ UndecidedNewest
    /\ OlderRowsDead /\ ChainsKnown /\ RefreshTokenPresentedOnce

LEMMA TokenInit == ConsoleInit => TokenInv
BY DEF ConsoleInit, TokenInv, SessionTypes, TokensKnown, OneAwaited, Presentable, SignedInPresentable, LoginPresentable,
       RefreshPresentable, UndecidedNewest, OlderRowsDead, ChainsKnown, RefreshTokenPresentedOnce,
       Made, LastRow, Cleared, LoginAtRest, LoginRecords

\* Steps that touch neither the rows nor the refreshes, and forget or keep the tokens.
LEMMA ForgetfulStep ==
    ASSUME TokenInv, UNCHANGED <<sessions, refreshes, promise>>,
           signedIn' = signedIn \/ signedIn' = Cleared, used' \in [{"login", "start", "lapse", "fault"} -> Nat],
           login' \in LoginRecords, login'.phase = "answered" => login.phase = "answered" /\ login'.got = login.got
    PROVE  TokenInv'
<1>1. SessionTypes' /\ TokensKnown'
  BY DEF TokenInv, SessionTypes, TokensKnown, Cleared, Made, LastRow
<1>2. OneAwaited' /\ UndecidedNewest' /\ OlderRowsDead' /\ RefreshTokenPresentedOnce'
  BY DEF TokenInv, OneAwaited, UndecidedNewest, OlderRowsDead, RefreshTokenPresentedOnce, Made, Newest, LastRow
<1>3. ChainsKnown'
  BY DEF TokenInv, ChainsKnown, LastRow
<1>4. SignedInPresentable' /\ RefreshPresentable'
  <2>1. SignedInPresentable /\ RefreshPresentable
    BY DEF TokenInv, Presentable
  <2>2. /\ \A i : Newest(i) => Newest(i)'
        /\ \A i : Unspent(i) => Unspent(i)'
    BY DEF Newest, Unspent, Made, LastRow
  <2>3. SignedInPresentable'
    <3>1. CASE signedIn' = signedIn
      BY <2>1, <2>2, <3>1 DEF SignedInPresentable
    <3>2. CASE signedIn' = Cleared
      BY <3>2 DEF SignedInPresentable, Cleared
    <3> QED
      BY <3>1, <3>2
  <2>4. login'.phase = "answered" => login.phase = "answered" /\ login'.got = login.got
    OBVIOUS
  <2>5. Made' = Made
    BY DEF Made
  <2>6. RefreshPresentable'
    BY <2>1, <2>2, <2>4, <2>5 DEF RefreshPresentable
  <2> QED
    BY <2>3, <2>6
<1>5. LoginPresentable'
  <2>1. CASE login'.phase = "answered"
    <3>1. login.phase = "answered" => login.got # 0
      BY <2>1 DEF TokenInv, Presentable, LoginPresentable, Newest
    <3> QED
      BY <2>1, <3>1 DEF TokenInv, Presentable, LoginPresentable, Made, Newest, Unspent, LastRow, Cleared
  <2>2. CASE login'.phase # "answered"
    BY <2>2 DEF LoginPresentable
  <2> QED
    BY <2>1, <2>2
<1> QED
  BY <1>1, <1>2, <1>3, <1>4, <1>5 DEF TokenInv, Presentable

LEMMA TakesOther ==
    ASSUME SessionTypes, NEW what \in {"login", "start", "lapse", "fault"}, NEW bound, Takes(what, bound)
    PROVE  used' \in [{"login", "start", "lapse", "fault"} -> Nat]
BY DEF Takes, SessionTypes

(***************************************************************************)
(* Rows that change, and rows that are added                               *)
(***************************************************************************)
\* Rows are signed out or expire; none becomes live.
LEMMA RowsFade ==
    ASSUME TokenInv, sessions' \in Seq(Rows), LastRow' = LastRow,
           \A i \in 1 .. LastRow : /\ sessions'[i].chain = sessions[i].chain
                                   /\ sessions'[i].status = "active" => sessions[i].status = "active",
           UNCHANGED <<refreshes, promise, signedIn, login>>,
           used' \in [{"login", "start", "lapse", "fault"} -> Nat]
    PROVE  TokenInv'
<1>1. SessionTypes' /\ TokensKnown' /\ OneAwaited' /\ RefreshTokenPresentedOnce'
  BY DEF TokenInv, SessionTypes, TokensKnown, OneAwaited, RefreshTokenPresentedOnce, Made
<1>2. \A i : Newest(i) => Newest(i)'
  BY DEF Newest
<1>3. \A t : Unspent(t) => Unspent(t)'
  BY DEF Unspent, Made
<1>4. Presentable'
  BY <1>2, <1>3 DEF TokenInv, Presentable, SignedInPresentable, LoginPresentable, RefreshPresentable, Made
<1>5. UndecidedNewest'
  BY <1>2 DEF TokenInv, UndecidedNewest, Made
<1>6. OlderRowsDead' /\ ChainsKnown'
  BY DEF TokenInv, OlderRowsDead, ChainsKnown
<1> QED
  BY <1>1, <1>4, <1>5, <1>6 DEF TokenInv

LEMMA RowUpdated ==
    ASSUME SessionTypes, NEW i \in 1 .. LastRow, NEW row \in Rows, sessions' = [sessions EXCEPT ![i] = row],
           row.chain = sessions[i].chain, row.status = "active" => sessions[i].status = "active"
    PROVE  /\ sessions' \in Seq(Rows) /\ LastRow' = LastRow
           /\ \A j \in 1 .. LastRow : /\ sessions'[j].chain = sessions[j].chain
                                      /\ sessions'[j].status = "active" => sessions[j].status = "active"
<1>1. sessions \in Seq(Rows) /\ i \in 1 .. Len(sessions)
  BY DEF SessionTypes, LastRow
<1>2. sessions' \in Seq(Rows) /\ Len(sessions') = Len(sessions)
  BY <1>1
<1>3. \A j \in 1 .. Len(sessions) : sessions'[j] = IF j = i THEN row ELSE sessions[j]
  BY <1>1
<1> QED
  BY <1>2, <1>3 DEF LastRow

LEMMA RowAdded ==
    ASSUME NEW S \in Seq(Rows), Len(S) = LastRow, \A i \in 1 .. LastRow : S[i].chain = sessions[i].chain,
           NEW n \in Nat, sessions' = Append(S, NewRow(n))
    PROVE  /\ sessions' \in Seq(Rows) /\ LastRow' = LastRow + 1
           /\ sessions'[LastRow + 1] = NewRow(n) /\ \A i \in 1 .. LastRow : sessions'[i] = S[i]
           /\ Newest(LastRow)'
           /\ \A i : Newest(i) /\ sessions[i].chain # n => Newest(i)'
<1>1. NewRow(n) \in Rows /\ NewRow(n).chain = n
  BY DEF NewRow, Rows
<1> DEFINE row == NewRow(n)
<1> HIDE DEF row
<1>2. /\ Append(S, row) \in Seq(Rows) /\ Len(Append(S, row)) = Len(S) + 1
      /\ Append(S, row)[Len(S) + 1] = row /\ \A i \in 1 .. Len(S) : Append(S, row)[i] = S[i]
  BY <1>1 DEF row
<1>3. LastRow \in Nat
  BY DEF LastRow
<1>4. /\ sessions' \in Seq(Rows) /\ LastRow' = LastRow + 1
      /\ sessions'[LastRow + 1] = NewRow(n) /\ \A i \in 1 .. LastRow : sessions'[i] = S[i]
  BY <1>2 DEF LastRow, row
<1>5. Newest(LastRow)'
  BY <1>3, <1>4 DEF Newest
<1>6. ASSUME NEW i, Newest(i), sessions[i].chain # n PROVE Newest(i)'
  <2>1. i \in 1 .. LastRow /\ \A j \in 1 .. LastRow : sessions[j].chain = sessions[i].chain => j <= i
    BY <1>6 DEF Newest
  <2>2. sessions'[i].chain = sessions[i].chain /\ sessions'[LastRow + 1].chain = n
    BY <1>1, <1>4, <2>1
  <2>3. \A j \in 1 .. LastRow + 1 : sessions'[j].chain = sessions'[i].chain => j <= i
    <3> TAKE j \in 1 .. LastRow + 1
    <3>1. CASE j = LastRow + 1
      BY <1>6, <2>2, <3>1
    <3>2. CASE j \in 1 .. LastRow
      BY <1>4, <2>1, <2>2, <3>2
    <3> QED
      BY <1>3, <3>1, <3>2
  <2> QED
    BY <1>3, <1>4, <2>1, <2>3 DEF Newest
<1> QED
  BY <1>4, <1>5, <1>6

\* A session that starts: a row of its own, whose token the console learns if it still waits.
LEMMA SessionStartsInv ==
    ASSUME TokenInv, SessionStarts, UNCHANGED <<refreshes, signedIn, promise, used>>, login' \in LoginRecords,
           login'.phase = "answered" =>
               (login.phase = "answered" /\ login'.got = login.got) \/ login'.got = LastRow + 1
    PROVE  TokenInv'
<1>1. /\ sessions' = Append(sessions, NewRow(LastRow + 1)) /\ LastRow + 1 \in Nat
      /\ sessions \in Seq(Rows) /\ LastRow \in Nat /\ Len(sessions) = LastRow
  BY DEF SessionStarts, TokenInv, SessionTypes, LastRow
<1>2. \A i \in 1 .. LastRow : sessions[i].chain \in Nat /\ sessions[i].chain < LastRow + 1
  <2> TAKE i \in 1 .. LastRow
  <2>1. sessions[i] \in Rows
    BY <1>1
  <2>2. sessions[i].chain \in Nat /\ sessions[i].chain <= LastRow
    BY <2>1 DEF TokenInv, ChainsKnown, Rows
  <2> QED
    BY <1>1, <2>2
<1>3. /\ sessions' \in Seq(Rows) /\ LastRow' = LastRow + 1
      /\ sessions'[LastRow + 1] = NewRow(LastRow + 1) /\ \A i \in 1 .. LastRow : sessions'[i] = sessions[i]
      /\ Newest(LastRow)'
      /\ \A i : Newest(i) /\ sessions[i].chain # LastRow + 1 => Newest(i)'
  BY <1>1, RowAdded
<1>4. \A i : Newest(i) => Newest(i)' /\ i \in 1 .. LastRow
  BY <1>2, <1>3 DEF Newest
<1>5. Unspent(LastRow)' /\ \A t : Unspent(t) => Unspent(t)'
  BY <1>1, <1>3 DEF TokenInv, TokensKnown, Unspent, Made
<1>6. SessionTypes' /\ TokensKnown' /\ OneAwaited' /\ RefreshTokenPresentedOnce'
  <2>1. LastRow' \in Nat
    BY <1>1, <1>3
  <2> QED
    BY <1>1, <1>3, <2>1
    DEF TokenInv, SessionTypes, TokensKnown, OneAwaited, RefreshTokenPresentedOnce, Made
<1>7. Presentable'
  <2>1. SignedInPresentable'
    BY <1>1, <1>4, <1>5 DEF TokenInv, Presentable, SignedInPresentable
  <2>2. LoginPresentable'
    <3>1. CASE login'.phase = "answered" /\ login.phase = "answered" /\ login'.got = login.got
      <4>1. Newest(login.got) /\ Unspent(login.got) /\ login.got # signedIn.refresh
        BY <3>1 DEF TokenInv, Presentable, LoginPresentable
      <4>2. Newest(login.got)' /\ Unspent(login.got)'
        BY <1>4, <1>5, <3>1, <4>1 DEF Newest, Unspent, Made
      <4> QED
        BY <3>1, <4>1, <4>2 DEF LoginPresentable
    <3>2. CASE login'.got = LastRow + 1
      <4>1. login'.got = LastRow' /\ signedIn.refresh \in 0 .. LastRow
        BY <1>3, <3>2 DEF TokenInv, TokensKnown
      <4>2. Unspent(login.got)' /\ Newest(login.got)'
        BY <1>3, <1>5, <4>1 DEF Newest, Unspent
      <4> QED
        BY <1>1, <1>3, <4>1, <4>2 DEF LoginPresentable
    <3>3. CASE login'.phase # "answered"
      BY <3>3 DEF LoginPresentable
    <3> QED
      BY <3>1, <3>2, <3>3
  <2>3. RefreshPresentable'
    <3> SUFFICES ASSUME NEW r \in Made, refreshes[r].open, refreshes[r].server = "answered"
                 PROVE  /\ Newest(refreshes[r].got)' /\ Unspent(refreshes[r].got)'
                        /\ login'.phase = "answered" => login'.got # refreshes[r].got
      BY DEF RefreshPresentable, Made
    <3>1. /\ Newest(refreshes[r].got) /\ Unspent(refreshes[r].got)
          /\ login.phase = "answered" => login.got # refreshes[r].got
      BY DEF TokenInv, Presentable, RefreshPresentable
    <3>2. Newest(refreshes[r].got)' /\ Unspent(refreshes[r].got)'
      BY <1>4, <1>5, <3>1 DEF Newest, Unspent, Made
    <3>3. refreshes[r].got # LastRow + 1
      BY <1>1, <1>4, <3>1
    <3> QED
      BY <3>1, <3>2, <3>3
  <2> QED
    BY <2>1, <2>2, <2>3 DEF Presentable
<1>8. UndecidedNewest'
  BY <1>1, <1>4 DEF TokenInv, UndecidedNewest, Made, Newest
<1>9. OlderRowsDead' /\ ChainsKnown'
  <2>1. NewRow(LastRow + 1).chain = LastRow + 1
    BY DEF NewRow
  <2> QED
    BY <1>1, <1>2, <1>3, <2>1 DEF TokenInv, OlderRowsDead, ChainsKnown
<1> QED
  BY <1>6, <1>7, <1>8, <1>9 DEF TokenInv

(***************************************************************************)
(* Refreshes                                                               *)
(***************************************************************************)
LEMMA RefreshMade ==
    ASSUME TokenInv, NEW k \in Requests, promise = 0, signedIn.refresh # 0,
           refreshes' = Append(refreshes,
               [token |-> signedIn.refresh, server |-> "sent", got |-> 0, open |-> TRUE]),
           promise' = Len(refreshes) + 1,
           UNCHANGED <<sessions, signedIn, login, used>>
    PROVE  TokenInv'
<1> DEFINE new == [token |-> signedIn.refresh, server |-> "sent", got |-> 0, open |-> TRUE]
<1>1. /\ signedIn.refresh \in Nat \ {0} /\ refreshes \in Seq(RefreshRecords) /\ Len(refreshes) \in Nat
      /\ Newest(signedIn.refresh) /\ Unspent(signedIn.refresh)
  BY DEF TokenInv, SessionTypes, Presentable, SignedInPresentable
<1>2. /\ new \in RefreshRecords /\ new.token = signedIn.refresh /\ new.server = "sent" /\ new.open
  BY <1>1 DEF RefreshRecords
<1> HIDE DEF new
<1>3. /\ refreshes' \in Seq(RefreshRecords) /\ Made' = Made \cup {Len(refreshes) + 1}
      /\ Len(refreshes)' = Len(refreshes) + 1 /\ Len(refreshes) + 1 \notin Made
      /\ refreshes'[Len(refreshes) + 1] = new /\ \A r \in Made : refreshes'[r] = refreshes[r]
  BY <1>1, <1>2 DEF Made, new
<1>4. /\ \A t : Newest(t) => Newest(t)'
      /\ \A t : Unspent(t) /\ t # signedIn.refresh => Unspent(t)'
  BY <1>2, <1>3 DEF Newest, Unspent, LastRow
<1>5. SessionTypes'
  BY <1>1, <1>3 DEF TokenInv, SessionTypes
<1>6. TokensKnown' /\ UndecidedNewest'
  <2>1. signedIn.refresh \in 1 .. LastRow
    BY <1>1 DEF Newest
  <2>2. \A r \in Made' : refreshes'[r].token \in 1 .. LastRow
    BY <1>2, <1>3, <2>1 DEF TokenInv, TokensKnown
  <2>3. \A r \in Made : refreshes'[r].server \in {"sent", "checked"} => Newest(refreshes'[r].token)
    BY <1>3 DEF TokenInv, UndecidedNewest
  <2>4. \A r \in Made' : refreshes'[r].server \in {"sent", "checked"} => Newest(refreshes'[r].token)
    BY <1>1, <1>2, <1>3, <2>3
  <2>5. TokensKnown'
    BY <2>2 DEF TokenInv, TokensKnown, LastRow
  <2>6. UndecidedNewest'
    BY <2>4 DEF UndecidedNewest, Newest, LastRow
  <2> QED
    BY <2>5, <2>6
<1>7. OneAwaited'
  <2>1. \A r \in Made : ~refreshes[r].open
    BY DEF TokenInv, OneAwaited, Made
  <2> QED
    <3>1. \A r \in Made' : refreshes'[r].open <=> r = promise'
      BY <1>2, <1>3, <2>1
    <3>2. promise' \in 0 .. Len(refreshes')
      BY <1>1, <1>3
    <3> QED
      BY <3>1, <3>2 DEF OneAwaited
<1>8. Presentable'
  <2>1. \A r \in Made : ~refreshes[r].open
    BY DEF TokenInv, OneAwaited, Made
  <2>2. SignedInPresentable' /\ RefreshPresentable'
    <3>1. promise' # 0
      BY <1>1
    <3>2. \A r \in Made' : ~(refreshes'[r].open /\ refreshes'[r].server = "answered")
      BY <1>2, <1>3, <2>1
    <3> QED
      BY <3>1, <3>2 DEF SignedInPresentable, RefreshPresentable
  <2>3. LoginPresentable'
    BY <1>4 DEF TokenInv, Presentable, LoginPresentable, Newest, Unspent, LastRow
  <2> QED
    BY <2>2, <2>3 DEF Presentable
<1>9. OlderRowsDead' /\ ChainsKnown'
  BY DEF TokenInv, OlderRowsDead, ChainsKnown, LastRow
<1>10. RefreshTokenPresentedOnce'
  BY <1>1, <1>2, <1>3 DEF TokenInv, RefreshTokenPresentedOnce, Unspent, Made
<1> QED
  BY <1>5, <1>6, <1>7, <1>8, <1>9, <1>10 DEF TokenInv

\* What the gateway or the console learns of one refresh.
LEMMA RefreshUpdated ==
    ASSUME SessionTypes, NEW r \in Made, NEW new \in RefreshRecords,
           refreshes' = [refreshes EXCEPT ![r] = new], new.token = refreshes[r].token
    PROVE  /\ refreshes' \in Seq(RefreshRecords) /\ Len(refreshes') = Len(refreshes) /\ Made' = Made
           /\ refreshes'[r] = new /\ \A s \in Made : s # r => refreshes'[s] = refreshes[s]
           /\ \A s \in Made : refreshes'[s].token = refreshes[s].token
           /\ \A t : Unspent(t)' <=> Unspent(t)
<1>1. /\ refreshes' \in Seq(RefreshRecords) /\ Len(refreshes') = Len(refreshes)
      /\ refreshes'[r] = new /\ \A s \in Made : s # r => refreshes'[s] = refreshes[s]
  BY DEF SessionTypes, Made
<1>2. Made' = Made
  BY <1>1 DEF Made
<1> QED
  BY <1>1, <1>2 DEF Unspent

\* What was learnt of a refresh leaves it with its token.
LEMMA TokensStay ==
    ASSUME TokensKnown, RefreshTokenPresentedOnce, Made' = Made,
           \A s \in Made : refreshes'[s].token = refreshes[s].token,
           LastRow \in Nat, LastRow' \in Nat, LastRow <= LastRow', signedIn'.refresh \in 0 .. LastRow'
    PROVE  TokensKnown' /\ RefreshTokenPresentedOnce'
<1>1. \A s \in Made : refreshes[s].token \in 1 .. LastRow'
  BY DEF TokensKnown
<1>2. TokensKnown'
  BY <1>1 DEF TokensKnown
<1>3. \A s, t \in Made : refreshes[s].token = refreshes[t].token => s = t
  BY DEF RefreshTokenPresentedOnce, Made
<1>4. \A s, t \in Made' : refreshes'[s].token = refreshes'[t].token => s = t
  BY <1>3
<1>5. RefreshTokenPresentedOnce'
  BY <1>4 DEF RefreshTokenPresentedOnce, Made
<1> QED
  BY <1>2, <1>5

LEMMA RefreshCheckedInv == ASSUME TokenInv, NEW r \in Made, RefreshChecked(r) PROVE TokenInv'
<1>1. PICK verdict \in {"checked", "refused"} : refreshes' = [refreshes EXCEPT ![r].server = verdict]
  BY DEF RefreshChecked
<1> DEFINE new == [refreshes[r] EXCEPT !.server = verdict]
<1>2. SessionTypes /\ refreshes[r] \in RefreshRecords /\ refreshes[r].server = "sent"
      /\ UNCHANGED <<sessions, signedIn, promise, login, used>>
  BY DEF TokenInv, SessionTypes, Made, RefreshChecked
<1>3. /\ new \in RefreshRecords /\ new.token = refreshes[r].token /\ new.server = verdict
      /\ new.open = refreshes[r].open /\ refreshes' = [refreshes EXCEPT ![r] = new]
  BY <1>1, <1>2 DEF RefreshRecords
<1> HIDE DEF new
<1>4. /\ refreshes' \in Seq(RefreshRecords) /\ Len(refreshes') = Len(refreshes) /\ Made' = Made
      /\ refreshes'[r] = new /\ \A s \in Made : s # r => refreshes'[s] = refreshes[s]
      /\ \A s \in Made : refreshes'[s].token = refreshes[s].token
      /\ \A t : Unspent(t)' <=> Unspent(t)
  BY <1>2, <1>3, RefreshUpdated
<1>5. \A t : Newest(t)' <=> Newest(t)
  BY <1>2 DEF Newest, LastRow
<1>6. SessionTypes' /\ TokensKnown' /\ OneAwaited' /\ RefreshTokenPresentedOnce'
  <2>1. SessionTypes'
    BY <1>2, <1>4 DEF SessionTypes
  <2>2. \A s \in Made : refreshes'[s].open <=> refreshes[s].open
    BY <1>3, <1>4
  <2>3. OneAwaited'
    BY <1>2, <1>4, <2>2 DEF TokenInv, OneAwaited
  <2>4. TokensKnown' /\ RefreshTokenPresentedOnce'
    <3>1. LastRow \in Nat /\ LastRow' = LastRow /\ signedIn'.refresh \in 0 .. LastRow'
      BY <1>2 DEF TokenInv, TokensKnown, SessionTypes, LastRow
    <3> QED
      BY <1>4, <3>1, TokensStay DEF TokenInv
  <2> QED
    BY <2>1, <2>3, <2>4
<1>7. Presentable' /\ UndecidedNewest'
  <2>1. \A s \in Made : refreshes'[s].open /\ refreshes'[s].server = "answered" =>
            refreshes'[s] = refreshes[s]
    BY <1>3, <1>4
  <2>2. \A s \in Made : refreshes'[s].server \in {"sent", "checked"} =>
            refreshes[s].server \in {"sent", "checked"}
    BY <1>2, <1>4
  <2>3. RefreshPresentable'
    <3> SUFFICES ASSUME NEW s \in Made, refreshes'[s].open, refreshes'[s].server = "answered"
                 PROVE  /\ Newest(refreshes[s].got)' /\ Unspent(refreshes[s].got)'
                        /\ login'.phase = "answered" => login'.got # refreshes'[s].got
      BY <1>4 DEF RefreshPresentable
    <3>1. /\ Newest(refreshes[s].got) /\ Unspent(refreshes[s].got)
          /\ login.phase = "answered" => login.got # refreshes[s].got
      BY <2>1 DEF TokenInv, Presentable, RefreshPresentable
    <3>2. refreshes'[s].got = refreshes[s].got
      BY <2>1
    <3>3. \A t : t = refreshes[s].got => Newest(t)' /\ Unspent(t)'
      BY <1>4, <1>5, <3>1
    <3>4. Newest(refreshes[s].got)' /\ Unspent(refreshes[s].got)'
      BY <3>2, <3>3
    <3> QED
      BY <1>2, <3>1, <3>2, <3>4
  <2>4. SignedInPresentable' /\ LoginPresentable'
    BY <1>2, <1>4, <1>5 DEF TokenInv, Presentable, SignedInPresentable, LoginPresentable,
                            Newest, Unspent, LastRow
  <2>5. UndecidedNewest'
    BY <1>4, <1>5, <2>2 DEF TokenInv, UndecidedNewest
  <2> QED
    BY <2>3, <2>4, <2>5 DEF Presentable
<1>8. OlderRowsDead' /\ ChainsKnown'
  BY <1>2 DEF TokenInv, OlderRowsDead, ChainsKnown, LastRow
<1> QED
  BY <1>6, <1>7, <1>8 DEF TokenInv

LEMMA RefreshCommittedInv == ASSUME TokenInv, NEW r \in Made, RefreshCommitted(r) PROVE TokenInv'
<1> DEFINE old == refreshes[r].token
<1> DEFINE new == [refreshes[r] EXCEPT !.server = "answered", !.got = LastRow + 1]
<1> DEFINE rotated == [sessions EXCEPT ![old].status = "rotated"]
<1>1. /\ SessionTypes /\ refreshes[r] \in RefreshRecords /\ refreshes[r].server = "checked"
      /\ UNCHANGED <<signedIn, promise, login, used>>
      /\ sessions \in Seq(Rows) /\ LastRow \in Nat /\ Len(sessions) = LastRow
      /\ Newest(old) /\ old \in 1 .. LastRow
  <2>1. SessionTypes /\ refreshes[r] \in RefreshRecords
    BY DEF TokenInv, SessionTypes, Made
  <2>2. refreshes[r].server = "checked" /\ UNCHANGED <<signedIn, promise, login, used>>
    BY DEF RefreshCommitted
  <2>3. sessions \in Seq(Rows) /\ LastRow \in Nat /\ Len(sessions) = LastRow
    BY <2>1 DEF SessionTypes, LastRow
  <2>4. Newest(old)
    BY <2>2 DEF TokenInv, UndecidedNewest
  <2>5. old \in 1 .. LastRow
    BY <2>4 DEF Newest
  <2> QED
    BY <2>1, <2>2, <2>3, <2>4, <2>5
<1>2. sessions[old] \in Rows /\ sessions[old].chain \in Nat
  <2> HIDE DEF old
  <2>1. sessions[old] \in Rows
    BY <1>1
  <2> QED
    BY <2>1 DEF Rows
<1>3. /\ rotated \in Seq(Rows) /\ Len(rotated) = LastRow
      /\ \A i \in 1 .. LastRow : /\ rotated[i].chain = sessions[i].chain
                                 /\ i # old => rotated[i] = sessions[i]
      /\ rotated[old].status = "rotated"
  <2> DEFINE row == [sessions[old] EXCEPT !.status = "rotated"]
  <2>1. row \in Rows /\ row.chain = sessions[old].chain /\ row.status = "rotated"
    BY <1>2 DEF Rows
  <2>2. rotated = [sessions EXCEPT ![old] = row]
    OBVIOUS
  <2> HIDE DEF row
  <2> QED
    BY <1>1, <2>1, <2>2
<1>4. /\ new \in RefreshRecords /\ new.token = old /\ new.server = "answered" /\ new.got = LastRow + 1
      /\ new.open = refreshes[r].open /\ refreshes' = [refreshes EXCEPT ![r] = new]
  <2> DEFINE rec == refreshes[r]
  <2>1. PICK n \in Nat : n = LastRow + 1
    BY <1>1
  <2>2. new = [rec EXCEPT !.server = "answered", !.got = n]
    BY <2>1
  <2>3. rec \in RefreshRecords /\ rec.token = old
    BY <1>1
  <2>4. refreshes' = [refreshes EXCEPT ![r] = new]
    BY DEF RefreshCommitted
  <2> HIDE DEF new, rec, old
  <2>5. /\ new \in RefreshRecords /\ new.token = rec.token /\ new.server = "answered"
        /\ new.got = n /\ new.open = rec.open
    BY <2>2, <2>3 DEF RefreshRecords
  <2> QED
    BY <2>1, <2>3, <2>4, <2>5 DEF rec
<1>5. sessions' = Append(rotated, NewRow(sessions[old].chain))
  BY DEF RefreshCommitted
<1> HIDE DEF old, new, rotated
<1>6. /\ sessions' \in Seq(Rows) /\ LastRow' = LastRow + 1
      /\ sessions'[LastRow + 1] = NewRow(sessions[old].chain) /\ \A i \in 1 .. LastRow : sessions'[i] = rotated[i]
      /\ Newest(LastRow)'
      /\ \A i : Newest(i) /\ sessions[i].chain # sessions[old].chain => Newest(i)'
  BY <1>1, <1>2, <1>3, <1>5, RowAdded
<1>7. /\ refreshes' \in Seq(RefreshRecords) /\ Len(refreshes') = Len(refreshes) /\ Made' = Made
      /\ refreshes'[r] = new /\ \A s \in Made : s # r => refreshes'[s] = refreshes[s]
      /\ \A s \in Made : refreshes'[s].token = refreshes[s].token
      /\ \A t : Unspent(t)' <=> Unspent(t)
  BY <1>1, <1>4, RefreshUpdated DEF old
\* Of the rows of the sign-in only the rotated one stops being the newest.
<1>8. \A t : Newest(t) /\ t # old => Newest(t)'
  <2> TAKE t
  <2>1. Newest(t) /\ sessions[t].chain = sessions[old].chain => t <= old /\ old <= t
    BY <1>1 DEF Newest
  <2>2. Newest(t) => t \in 1 .. LastRow
    BY DEF Newest
  <2> QED
    BY <1>1, <1>6, <2>1, <2>2
<1>9. ~Unspent(old)
  BY DEF Unspent, old
<1>10. \A t : Newest(t) /\ Unspent(t) => Newest(t)' /\ t \in 1 .. LastRow
  BY <1>8, <1>9 DEF Newest
<1>11. Unspent(LastRow)'
  <2>1. \A s \in Made : refreshes[s].token # LastRow + 1
    BY <1>1 DEF TokenInv, TokensKnown
  <2> QED
    BY <1>6, <1>7, <2>1 DEF Unspent
<1>12. SessionTypes' /\ TokensKnown' /\ OneAwaited' /\ RefreshTokenPresentedOnce'
  <2>1. SessionTypes'
    BY <1>1, <1>6, <1>7 DEF SessionTypes
  <2>2. \A s \in Made : refreshes'[s].open <=> refreshes[s].open
    BY <1>4, <1>7
  <2>3. OneAwaited'
    BY <1>1, <1>7, <2>2 DEF TokenInv, OneAwaited
  <2>4. TokensKnown' /\ RefreshTokenPresentedOnce'
    <3>1. LastRow \in Nat /\ LastRow' = LastRow + 1 /\ signedIn'.refresh \in 0 .. LastRow'
      BY <1>1, <1>6 DEF TokenInv, TokensKnown
    <3> QED
      BY <1>7, <3>1, TokensStay DEF TokenInv
  <2> QED
    BY <2>1, <2>3, <2>4
<1>13. Presentable'
  <2>1. SignedInPresentable'
    <3>1. promise = 0 /\ signedIn.refresh # 0 => Newest(signedIn.refresh)' /\ Unspent(signedIn.refresh)'
      <4>1. promise = 0 /\ signedIn.refresh # 0 => Newest(signedIn.refresh) /\ Unspent(signedIn.refresh)
        BY DEF TokenInv, Presentable, SignedInPresentable
      <4>2. \A t : t = signedIn.refresh => (Newest(t)' <=> Newest(signedIn.refresh)')
                                            /\ (Unspent(t)' <=> Unspent(signedIn.refresh)')
        BY <1>1
      <4> QED
        BY <1>7, <1>10, <4>1, <4>2
    <3> QED
      BY <1>1, <3>1 DEF SignedInPresentable
  <2>2. LoginPresentable'
    <3>1. login.phase = "answered" => Newest(login.got) /\ Unspent(login.got) /\ login.got # signedIn.refresh
      BY DEF TokenInv, Presentable, LoginPresentable
    <3>2. \A t : t = login.got => (Newest(t)' <=> Newest(login.got)') /\ (Unspent(t)' <=> Unspent(login.got)')
      BY <1>1
    <3> QED
      BY <1>1, <1>7, <1>10, <3>1, <3>2 DEF LoginPresentable
  <2>3. RefreshPresentable'
    <3> SUFFICES ASSUME NEW s \in Made, refreshes'[s].open, refreshes'[s].server = "answered"
                 PROVE  /\ Newest(refreshes[s].got)' /\ Unspent(refreshes[s].got)'
                        /\ login.phase = "answered" => login.got # refreshes'[s].got
      BY <1>1, <1>7 DEF RefreshPresentable
    <3>1. CASE s = r
      <4>1. refreshes'[s].got = LastRow'
        BY <1>4, <1>6, <1>7, <3>1
      <4>2. Newest(refreshes[s].got)' /\ Unspent(refreshes[s].got)'
        BY <1>6, <1>11, <4>1 DEF Newest, Unspent
      <4>3. login.phase = "answered" => login.got \in 1 .. LastRow
        BY DEF TokenInv, Presentable, LoginPresentable, Newest
      <4> QED
        BY <1>1, <1>6, <4>1, <4>2, <4>3
    <3>2. CASE s # r
      <4>1. refreshes'[s] = refreshes[s]
        BY <1>7, <3>2
      <4>2. /\ Newest(refreshes[s].got) /\ Unspent(refreshes[s].got)
            /\ login.phase = "answered" => login.got # refreshes[s].got
        BY <4>1 DEF TokenInv, Presentable, RefreshPresentable
      <4>3. \A t : t = refreshes'[s].got => (Newest(t)' <=> Newest(refreshes[s].got)')
                                           /\ (Unspent(t)' <=> Unspent(refreshes[s].got)')
        OBVIOUS
      <4> QED
        BY <1>7, <1>10, <4>1, <4>2, <4>3
    <3> QED
      BY <3>1, <3>2
  <2> QED
    BY <2>1, <2>2, <2>3 DEF Presentable
<1>14. UndecidedNewest'
  <2> SUFFICES ASSUME NEW s \in Made, refreshes'[s].server \in {"sent", "checked"}
               PROVE  Newest(refreshes[s].token)'
    BY <1>7 DEF UndecidedNewest
  <2>1. s # r /\ refreshes'[s] = refreshes[s]
    BY <1>4, <1>7
  <2>2. Newest(refreshes[s].token)
    BY <2>1 DEF TokenInv, UndecidedNewest
  <2>3. refreshes[s].token # old
    BY <2>1 DEF TokenInv, RefreshTokenPresentedOnce, Made, old
  <2>4. \A t : t = refreshes'[s].token => (Newest(t)' <=> Newest(refreshes[s].token)')
    OBVIOUS
  <2> QED
    BY <1>8, <2>1, <2>2, <2>3, <2>4
<1>15. OlderRowsDead'
  <2> SUFFICES ASSUME NEW i \in 1 .. LastRow + 1, NEW j \in 1 .. LastRow + 1, i < j,
                      sessions'[i].chain = sessions'[j].chain
               PROVE  sessions'[i].status # "active"
    BY <1>6 DEF OlderRowsDead
  <2>1. i \in 1 .. LastRow /\ sessions'[i] = rotated[i]
    BY <1>1, <1>6
  <2>2. CASE i = old
    BY <1>3, <2>1, <2>2
  <2>3. CASE i # old
    <3>1. sessions'[i] = sessions[i]
      BY <1>3, <2>1, <2>3
    <3>2. CASE j \in 1 .. LastRow
      BY <1>3, <1>6, <2>1, <3>1, <3>2 DEF TokenInv, OlderRowsDead
    <3>3. CASE j = LastRow + 1
      <4>1. sessions[i].chain = sessions[old].chain
        BY <1>6, <3>1, <3>3 DEF NewRow
      <4>2. i < old
        BY <1>1, <2>1, <2>3, <4>1 DEF Newest
      <4> QED
        BY <1>1, <2>1, <3>1, <4>1, <4>2 DEF TokenInv, OlderRowsDead
    <3> QED
      BY <1>1, <3>2, <3>3
  <2> QED
    BY <2>2, <2>3
<1>16. ChainsKnown'
  <2> SUFFICES ASSUME NEW i \in 1 .. LastRow + 1
               PROVE  sessions'[i].chain <= LastRow + 1
    BY <1>1, <1>6 DEF ChainsKnown
  <2>1. PICK j \in 1 .. LastRow : sessions'[i].chain = sessions[j].chain
    <3>1. CASE i = LastRow + 1
      BY <1>1, <1>6, <3>1 DEF NewRow
    <3>2. CASE i \in 1 .. LastRow
      BY <1>3, <1>6, <3>2
    <3> QED
      BY <1>1, <3>1, <3>2
  <2>2. sessions[j] \in Rows
    BY <1>1
  <2>3. sessions[j].chain \in Nat /\ sessions[j].chain <= LastRow
    BY <2>2 DEF TokenInv, ChainsKnown, Rows
  <2> QED
    BY <1>1, <2>1, <2>3
<1> QED
  BY <1>12, <1>13, <1>14, <1>15, <1>16 DEF TokenInv

LEMMA RefreshDoneInv == ASSUME TokenInv, NEW r \in Made, RefreshDone(r) PROVE TokenInv'
<1> DEFINE got == refreshes[r].got
<1> DEFINE new == [refreshes[r] EXCEPT !.open = FALSE]
<1>1. /\ SessionTypes /\ refreshes[r] \in RefreshRecords
      /\ refreshes[r].open /\ refreshes[r].server = "answered"
      /\ UNCHANGED <<sessions, login, used>>
      /\ signedIn' = [access |-> got, refresh |-> got] /\ promise' = 0 /\ got \in Nat
  <2>1. SessionTypes /\ refreshes[r] \in RefreshRecords
    BY DEF TokenInv, SessionTypes, Made
  <2>2. refreshes[r].got \in Nat
    BY <2>1 DEF RefreshRecords
  <2>3. /\ refreshes[r].open /\ refreshes[r].server = "answered"
        /\ UNCHANGED <<sessions, login, used>> /\ promise' = 0
    BY DEF RefreshDone
  <2>4. signedIn' = [access |-> got, refresh |-> got]
    BY DEF RefreshDone, SignedInWith
  <2> QED
    BY <2>1, <2>2, <2>3, <2>4
<1>2. /\ new \in RefreshRecords /\ new.token = refreshes[r].token /\ new.server = "answered" /\ ~new.open
      /\ refreshes' = [refreshes EXCEPT ![r] = new]
  BY <1>1 DEF RefreshRecords, RefreshDone
<1>3. /\ Newest(got) /\ Unspent(got) /\ got \in 1 .. LastRow
      /\ login.phase = "answered" => login.got # got
  BY <1>1 DEF TokenInv, Presentable, RefreshPresentable, Newest
<1> HIDE DEF got, new
<1>4. /\ refreshes' \in Seq(RefreshRecords) /\ Len(refreshes') = Len(refreshes) /\ Made' = Made
      /\ refreshes'[r] = new /\ \A s \in Made : s # r => refreshes'[s] = refreshes[s]
      /\ \A s \in Made : refreshes'[s].token = refreshes[s].token
      /\ \A t : Unspent(t)' <=> Unspent(t)
  BY <1>1, <1>2, RefreshUpdated
<1>5. \A s \in Made : ~refreshes'[s].open
  <2>1. \A s \in Made : refreshes[s].open => s = r
    BY <1>1 DEF TokenInv, OneAwaited
  <2> QED
    BY <1>2, <1>4, <2>1
<1>6. SessionTypes' /\ TokensKnown' /\ OneAwaited' /\ RefreshTokenPresentedOnce'
  <2>1. SessionTypes'
    BY <1>1, <1>4 DEF SessionTypes
  <2>2. OneAwaited'
    BY <1>1, <1>4, <1>5 DEF OneAwaited, Made
  <2>3. TokensKnown' /\ RefreshTokenPresentedOnce'
    <3>1. LastRow' = LastRow /\ signedIn'.refresh = got
      BY <1>1 DEF LastRow
    <3>2. TokensKnown'
      <4>1. \A s \in Made : refreshes[s].token \in 1 .. LastRow
        BY DEF TokenInv, TokensKnown
      <4>2. got \in 0 .. LastRow
        BY <1>3 DEF LastRow
      <4> QED
        BY <1>4, <3>1, <4>1, <4>2 DEF TokensKnown
    <3>3. RefreshTokenPresentedOnce'
      BY <1>4 DEF TokenInv, RefreshTokenPresentedOnce, Made
    <3> QED
      BY <3>2, <3>3
  <2> QED
    BY <2>1, <2>2, <2>3
<1>7. Presentable'
  <2>1. signedIn'.refresh = got
    BY <1>1
  <2>2. SignedInPresentable'
    BY <1>1, <1>3, <1>4, <2>1 DEF SignedInPresentable, Newest, Unspent, LastRow
  <2>3. LoginPresentable'
    BY <1>1, <1>3, <1>4, <2>1 DEF TokenInv, Presentable, LoginPresentable, Newest, Unspent, LastRow
  <2>4. RefreshPresentable'
    BY <1>4, <1>5 DEF RefreshPresentable
  <2> QED
    BY <2>2, <2>3, <2>4 DEF Presentable
<1>8. UndecidedNewest' /\ OlderRowsDead' /\ ChainsKnown'
  <2>1. LastRow' = LastRow /\ \A t : Newest(t) => Newest(t)'
    BY <1>1 DEF Newest, LastRow
  <2>2. \A s \in Made : refreshes'[s].server \in {"sent", "checked"} => Newest(refreshes'[s].token)
    BY <1>1, <1>2, <1>4 DEF TokenInv, UndecidedNewest
  <2>3. UndecidedNewest'
    BY <1>4, <2>1, <2>2 DEF UndecidedNewest
  <2>4. OlderRowsDead' /\ ChainsKnown'
    BY <1>1, <2>1 DEF TokenInv, OlderRowsDead, ChainsKnown
  <2> QED
    BY <2>3, <2>4
<1> QED
  BY <1>6, <1>7, <1>8 DEF TokenInv

LEMMA RefreshFailsInv == ASSUME TokenInv, NEW r \in Made, RefreshFails(r) PROVE TokenInv'
<1> DEFINE new == [refreshes[r] EXCEPT !.open = FALSE]
<1>1. /\ SessionTypes /\ refreshes[r] \in RefreshRecords /\ refreshes[r].open
      /\ UNCHANGED <<sessions, login>> /\ signedIn' = Cleared /\ promise' = 0
      /\ used' \in [{"login", "start", "lapse", "fault"} -> Nat]
  <2>1. SessionTypes /\ refreshes[r] \in RefreshRecords
    BY DEF TokenInv, SessionTypes, Made
  <2>2. /\ refreshes[r].open /\ UNCHANGED <<sessions, login>>
        /\ used' = used \/ Takes("fault", MaxFaults)
        /\ signedIn' = Cleared /\ promise' = 0
    BY DEF RefreshFails, Expired
  <2>3. used' \in [{"login", "start", "lapse", "fault"} -> Nat]
    <3>1. CASE used' = used
      BY <2>1, <3>1 DEF SessionTypes
    <3>2. CASE Takes("fault", MaxFaults)
      BY <2>1, <3>2, TakesOther
    <3> QED
      BY <2>2, <3>1, <3>2
  <2> QED
    BY <2>1, <2>2, <2>3
<1>2. /\ new \in RefreshRecords /\ new.token = refreshes[r].token /\ new.server = refreshes[r].server
      /\ ~new.open /\ refreshes' = [refreshes EXCEPT ![r] = new]
  BY <1>1 DEF RefreshRecords, RefreshFails
<1> HIDE DEF new
<1>3. /\ refreshes' \in Seq(RefreshRecords) /\ Len(refreshes') = Len(refreshes) /\ Made' = Made
      /\ refreshes'[r] = new /\ \A s \in Made : s # r => refreshes'[s] = refreshes[s]
      /\ \A s \in Made : refreshes'[s].token = refreshes[s].token
      /\ \A t : Unspent(t)' <=> Unspent(t)
  BY <1>1, <1>2, RefreshUpdated
<1>4. \A s \in Made : ~refreshes'[s].open
  <2>1. \A s \in Made : refreshes[s].open => s = r
    BY <1>1 DEF TokenInv, OneAwaited
  <2> QED
    BY <1>2, <1>3, <2>1
<1>5. SessionTypes' /\ TokensKnown' /\ OneAwaited' /\ RefreshTokenPresentedOnce'
  <2>1. SessionTypes'
    BY <1>1, <1>3 DEF SessionTypes, Cleared
  <2>2. OneAwaited'
    BY <1>1, <1>3, <1>4 DEF OneAwaited, Made
  <2>3. TokensKnown' /\ RefreshTokenPresentedOnce'
    <3>1. LastRow \in Nat /\ LastRow' = LastRow /\ signedIn'.refresh \in 0 .. LastRow'
      BY <1>1 DEF SessionTypes, LastRow, Cleared
    <3> QED
      BY <1>3, <3>1, TokensStay DEF TokenInv
  <2> QED
    BY <2>1, <2>2, <2>3
<1>6. Presentable'
  <2>1. signedIn'.refresh = 0
    BY <1>1 DEF Cleared
  <2>2. login.phase = "answered" => login.got # 0
    BY DEF TokenInv, Presentable, LoginPresentable, Newest
  <2>3. LoginPresentable'
    BY <1>1, <1>3, <2>1, <2>2 DEF TokenInv, Presentable, LoginPresentable, Newest, Unspent, LastRow
  <2>4. SignedInPresentable' /\ RefreshPresentable'
    BY <1>3, <1>4, <2>1 DEF SignedInPresentable, RefreshPresentable
  <2> QED
    BY <2>3, <2>4 DEF Presentable
<1>7. UndecidedNewest'
  BY <1>1, <1>2, <1>3 DEF TokenInv, UndecidedNewest, Newest, LastRow
<1>8. OlderRowsDead' /\ ChainsKnown'
  BY <1>1 DEF TokenInv, OlderRowsDead, ChainsKnown, LastRow
<1> QED
  BY <1>5, <1>6, <1>7, <1>8 DEF TokenInv

(***************************************************************************)
(* Every step                                                              *)
(***************************************************************************)
\* The steps of a sign-in that start no session forget its answer, or have none.
LEMMA LoginForgets ==
    ASSUME TokenInv, SubmitLogin \/ LoginRetried \/ LoginFails
    PROVE  TokenInv'
<1>1. SessionTypes /\ login \in LoginRecords
  BY DEF TokenInv, SessionTypes
<1>2. \A late \in GivenUp : late \in Nat
  BY <1>1 DEF GivenUp, LoginRecords
<1>3. CASE SubmitLogin
  <2>1. login' \in LoginRecords /\ login'.phase = "sent"
    BY <1>1, <1>3 DEF SubmitLogin, LoginRecords
  <2> QED
    BY <1>1, <1>3, <2>1, TakesOther, ForgetfulStep DEF SubmitLogin
<1>4. CASE LoginRetried
  <2>1. PICK late \in Nat :
            login' = [phase |-> "sent", got |-> 0, attempt |-> login.attempt + 1, late |-> late]
    BY <1>2, <1>4 DEF LoginRetried
  <2>2. login.attempt \in 1 .. 4 /\ login.attempt < MaxAttempts
    BY <1>1, <1>4 DEF LoginRetried, LoginRecords
  <2>3. login' \in LoginRecords /\ login'.phase = "sent"
    BY <2>1, <2>2, ConsoleSessionAssumption DEF LoginRecords
  <2> QED
    BY <1>1, <1>4, <2>3, TakesOther, ForgetfulStep DEF LoginRetried
<1>5. CASE LoginFails
  <2>1. \A late \in Nat : LoginAtRest(late) \in LoginRecords /\ LoginAtRest(late).phase = "idle"
    BY DEF LoginAtRest, LoginRecords
  <2>2. login.late \in Nat
    BY <1>1 DEF LoginRecords
  <2>3. \E late \in Nat : login' = LoginAtRest(late)
    BY <1>2, <1>5, <2>2 DEF LoginFails
  <2>4. login' \in LoginRecords /\ login'.phase = "idle"
    BY <2>1, <2>3
  <2>5. UNCHANGED <<sessions, refreshes, signedIn, promise>> /\ (used' = used \/ Takes("fault", MaxFaults))
    BY <1>5 DEF LoginFails
  <2>6. used' \in [{"login", "start", "lapse", "fault"} -> Nat]
    <3>1. CASE used' = used
      BY <1>1, <3>1 DEF SessionTypes
    <3>2. CASE Takes("fault", MaxFaults)
      BY <1>1, <3>2, TakesOther
    <3> QED
      BY <2>5, <3>1, <3>2
  <2>7. login'.phase = "answered" => login.phase = "answered" /\ login'.got = login.got
    BY <2>4
  <2> QED
    BY <2>4, <2>5, <2>6, <2>7, ForgetfulStep
<1> QED
  BY <1>3, <1>4, <1>5

LEMMA LoginServes ==
    ASSUME TokenInv, LoginServed \/ LateLoginServed
    PROVE  TokenInv'
<1>1. login \in LoginRecords /\ LastRow + 1 \in Nat
  BY DEF TokenInv, SessionTypes, LastRow
<1>2. CASE LoginServed
  <2>1. login' \in LoginRecords /\ login'.got = LastRow + 1
    BY <1>1, <1>2 DEF LoginServed, LoginRecords
  <2> QED
    BY <1>2, <2>1, SessionStartsInv DEF LoginServed
\* An answer the console has, or had, keeps its place.
<1>3. CASE LateLoginServed
  <2>1. login.late \in Nat /\ login.late > 0 /\ login' = [login EXCEPT !.late = login.late - 1]
    BY <1>1, <1>3 DEF LateLoginServed, LoginRecords
  <2>2. login' \in LoginRecords /\ login'.phase = login.phase /\ login'.got = login.got
    BY <1>1, <2>1 DEF LoginRecords
  <2> QED
    BY <1>3, <2>2, SessionStartsInv DEF LateLoginServed
<1> QED
  BY <1>2, <1>3

LEMMA LoginDoneInv == TokenInv /\ LoginDone => TokenInv'
<1> SUFFICES ASSUME TokenInv, LoginDone PROVE TokenInv'
  OBVIOUS
<1>1. PICK refresh \in {0, login.got} : signedIn' = [access |-> login.got, refresh |-> refresh]
  BY DEF LoginDone, SignedInWith
<1>2. /\ login.phase = "answered" /\ login' \in LoginRecords /\ login'.phase = "idle"
      /\ UNCHANGED <<sessions, refreshes, promise, used>>
      /\ Newest(login.got) /\ Unspent(login.got) /\ login.got \in 1 .. LastRow /\ LastRow \in Nat
  BY DEF LoginDone, LoginAtRest, LoginRecords, TokenInv, Presentable, LoginPresentable, Newest, LastRow, SessionTypes
<1>3. SessionTypes' /\ TokensKnown' /\ OneAwaited' /\ RefreshTokenPresentedOnce' /\ OlderRowsDead'
  BY <1>1, <1>2 DEF TokenInv, SessionTypes, TokensKnown, OneAwaited, RefreshTokenPresentedOnce,
                    OlderRowsDead, Made, LastRow
<1>4. Presentable'
  BY <1>1, <1>2 DEF TokenInv, Presentable, SignedInPresentable, LoginPresentable, RefreshPresentable,
                    Made, Newest, Unspent, LastRow
<1>5. UndecidedNewest' /\ ChainsKnown'
  BY <1>2 DEF TokenInv, UndecidedNewest, ChainsKnown, Made, Newest, LastRow
<1> QED
  BY <1>3, <1>4, <1>5 DEF TokenInv

LEMMA TokenStep == TokenInv /\ [ConsoleNext]_sessionVars => TokenInv'
<1> SUFFICES ASSUME TokenInv, [ConsoleNext]_sessionVars PROVE TokenInv'
  OBVIOUS
<1>1. SessionTypes /\ used \in [{"login", "start", "lapse", "fault"} -> Nat] /\ login \in LoginRecords
  BY DEF TokenInv, SessionTypes
<1>2. CASE SubmitLogout \/ LogoutDone \/ OpenAdministration \/ SelectUser
  BY <1>1, <1>2, TakesOther, ForgetfulStep
  DEF SubmitLogout, LogoutDone, OpenAdministration, SelectUser
<1>3. ASSUME NEW what \in Changes, SubmitChange(what) PROVE TokenInv'
  BY <1>1, <1>3, TakesOther, ForgetfulStep DEF SubmitChange
<1>4. CASE LogoutServed
  <2>1. sessions' = sessions \/ sessions' = [sessions EXCEPT ![logout.token].status = "revoked"]
    BY <1>4 DEF LogoutServed
  <2>2. CASE sessions' = sessions
    BY <1>1, <1>4, <2>2, ForgetfulStep DEF LogoutServed
  <2>3. CASE logout.token \in 1 .. LastRow /\ sessions' = [sessions EXCEPT ![logout.token].status = "revoked"]
    <3>1. /\ sessions' \in Seq(Rows) /\ LastRow' = LastRow
          /\ \A i \in 1 .. LastRow : /\ sessions'[i].chain = sessions[i].chain
                                     /\ sessions'[i].status = "active" => sessions[i].status = "active"
      <4> DEFINE row == [sessions[logout.token] EXCEPT !.status = "revoked"]
      <4>1. sessions[logout.token] \in Rows
        BY <1>1, <2>3 DEF SessionTypes, LastRow
      <4>2. /\ row \in Rows /\ row.chain = sessions[logout.token].chain /\ row.status = "revoked"
            /\ sessions' = [sessions EXCEPT ![logout.token] = row]
        BY <2>3, <4>1 DEF Rows
      <4> HIDE DEF row
      <4> QED
        BY <1>1, <2>3, <4>2, RowUpdated
    <3> QED
      BY <1>1, <1>4, <3>1, RowsFade DEF LogoutServed
  <2> QED
    BY <1>4, <2>2, <2>3 DEF LogoutServed, Accepted
<1>5. ASSUME NEW i \in 1 .. LastRow, AccessTokenLapses(i) PROVE TokenInv'
  <2>1. sessions' = [sessions EXCEPT ![i].fresh = FALSE]
    BY <1>5 DEF AccessTokenLapses
  <2>2. /\ sessions' \in Seq(Rows) /\ LastRow' = LastRow
        /\ \A j \in 1 .. LastRow : /\ sessions'[j].chain = sessions[j].chain
                                   /\ sessions'[j].status = "active" => sessions[j].status = "active"
    <3> DEFINE row == [sessions[i] EXCEPT !.fresh = FALSE]
    <3>1. sessions[i] \in Rows
      BY <1>1 DEF SessionTypes, LastRow
    <3>2. /\ row \in Rows /\ row.chain = sessions[i].chain /\ row.status = sessions[i].status
          /\ sessions' = [sessions EXCEPT ![i] = row]
      BY <2>1, <3>1 DEF Rows
    <3> HIDE DEF row
    <3> QED
      BY <1>1, <3>2, RowUpdated
  <2> QED
    BY <1>1, <1>5, <2>2, TakesOther, RowsFade DEF AccessTokenLapses
<1>6. ASSUME NEW k \in Requests, CallStep(k) PROVE TokenInv'
  <2>1. CASE Answered(k) \/ Denied(k) \/ Attempt(k) \/ Fails(k)
    BY <1>1, <2>1, TakesOther, ForgetfulStep DEF Answered, Denied, Attempt, Fails
  <2>2. CASE RefreshAccessToken(k)
    <3>1. CASE promise = 0 /\ signedIn.refresh # 0
      BY <2>2, <3>1, RefreshMade DEF RefreshAccessToken
    <3>2. CASE ~(promise = 0 /\ signedIn.refresh # 0)
      BY <1>1, <2>2, <3>2, ForgetfulStep DEF RefreshAccessToken, Expired
    <3> QED
      BY <3>1, <3>2
  <2> QED
    BY <1>6, <2>1, <2>2 DEF CallStep
<1>7. ASSUME NEW r \in 1 .. Len(refreshes), RefreshStep(r) PROVE TokenInv'
  BY <1>7, RefreshCheckedInv, RefreshCommittedInv, RefreshDoneInv, RefreshFailsInv DEF RefreshStep, Made
<1>8. CASE UNCHANGED sessionVars
  BY <1>1, <1>8, ForgetfulStep DEF sessionVars
<1> QED
  BY <1>2, <1>3, <1>4, <1>5, <1>6, <1>7, <1>8, LoginForgets, LoginServes, LoginDoneInv DEF ConsoleNext

\* A gateway that rotates a row in two steps keeps one live row of a session, as long as
\* no row is rotated twice.
LEMMA OneLiveRow == TokenInv => OneLiveRowPerSession
<1> SUFFICES ASSUME TokenInv, NEW i \in 1 .. LastRow, NEW j \in 1 .. LastRow,
                    sessions[i].status = "active", sessions[j].status = "active",
                    sessions[i].chain = sessions[j].chain
             PROVE  i = j
  BY DEF OneLiveRowPerSession
<1>1. ~(i < j) /\ ~(j < i)
  BY DEF TokenInv, OlderRowsDead
<1> QED
  BY <1>1

\* No refresh token is presented twice, whatever requests are refused together, however
\* refreshes and sign-ins overlap, and although an answer or a whole refresh may be lost or
\* served after it was given up; so the gateway never keeps two live rows of one session.
THEOREM SessionStaysWhole == ConsoleSpec => []SessionIsNeverSplit
<1>1. TokenInv => RefreshTokenPresentedOnce
  BY DEF TokenInv
<1>2. TokenInv => SessionIsNeverSplit
  BY <1>1, OneLiveRow DEF SessionIsNeverSplit
<1> QED
  BY <1>2, TokenInit, TokenStep, PTL DEF ConsoleSpec



(***************************************************************************)
(* Onboarding                                                              *)
(***************************************************************************)
\* The verdicts at hand are the server's, for the texts kept with them.
VerdictsKept ==
    \A k \in DOMAIN revalidation.texts :
        revalidation.facts[k] => <<k, revalidation.texts[k]>> \in verified

Carried(call) ==
    \A k \in DOMAIN call.facts :
        IF k \in DOMAIN call.texts THEN <<k, call.texts[k]>> \in verified ELSE call.facts[k]

Passed(call) ==
    /\ call.batch \in Seq(STRING) /\ call.next \in Nat /\ call.failed \in Nat
    /\ call.failed = 0 => \A i \in DOMAIN call.batch : i < call.next => call.batch[i] \in ingested

CallHolds(c) ==
    /\ c.call.kind = "approve" => Carried(c.call)
    /\ c.call.kind = "ingest" => Passed(c.call)

ReviewInv ==
    /\ VerdictsKept
    /\ \A c \in reviewCalls : CallHolds(c)
    /\ announced \subseteq ingested
    /\ documents \in Seq(STRING)

\* What a call holds it holds on: the server forgets neither verdicts nor documents.
LEMMA CallHoldsOn ==
    ASSUME NEW c, CallHolds(c), verified \subseteq verified', ingested \subseteq ingested'
    PROVE  CallHolds(c)'
<1>1. c.call.kind = "approve" => Carried(c.call)'
  BY DEF CallHolds, Carried
<1>2. c.call.kind = "ingest" => Passed(c.call)'
  BY DEF CallHolds, Passed
<1> QED BY <1>1, <1>2 DEF CallHolds

\* The invariant is kept by a step that leaves the verdicts alone, adds only calls that hold,
\* and shows documents only from a generation.
LEMMA Keeps ==
    ASSUME ReviewInv, verified' = verified, ingested' = ingested, announced' = announced,
           \/ UNCHANGED revalidation
           \/ revalidation' = NothingChecked
           \/ \E b \in BOOLEAN : revalidation' = [revalidation EXCEPT !.loading = b],
           documents' \in Seq(STRING),
           \A c \in reviewCalls' : c \in reviewCalls \/ CallHolds(c)'
    PROVE  ReviewInv'
<1>1. VerdictsKept'
  <2>1. CASE UNCHANGED revalidation
    BY <2>1 DEF ReviewInv, VerdictsKept
  <2>2. CASE revalidation' = NothingChecked
    BY <2>2 DEF VerdictsKept, NothingChecked
  <2>3. CASE \E b \in BOOLEAN : revalidation' = [revalidation EXCEPT !.loading = b]
    <3>1. revalidation'.texts = revalidation.texts /\ revalidation'.facts = revalidation.facts
      BY <2>3
    <3> QED BY <3>1 DEF ReviewInv, VerdictsKept
  <2> QED BY <2>1, <2>2, <2>3
<1>2. \A c \in reviewCalls' : CallHolds(c)'
  BY CallHoldsOn DEF ReviewInv
<1> QED BY <1>1, <1>2 DEF ReviewInv

LEMMA Adds ==
    ASSUME NEW call, Call(call),
           call.kind = "approve" => Carried(call)', call.kind = "ingest" => Passed(call)'
    PROVE  \A c \in reviewCalls' : c \in reviewCalls \/ CallHolds(c)'
BY DEF Call, CallHolds

LEMMA Turns ==
    ASSUME NEW c, NEW call, Becomes(c, call),
           call.kind = "approve" => Carried(call)', call.kind = "ingest" => Passed(call)'
    PROVE  \A d \in reviewCalls' : d \in reviewCalls \/ CallHolds(d)'
BY DEF Becomes, CallHolds

LEMMA CallEnds ==
    ASSUME NEW c, Over(c)
    PROVE  \A d \in reviewCalls' : d \in reviewCalls
BY DEF Over

LEMMA Begins == OnboardingInit => ReviewInv
BY DEF OnboardingInit, ReviewInv, VerdictsKept, NothingChecked

\* What the operator and the server do to the knowledge pack.
LEMMA KnowledgeSteps == ReviewInv /\ KnowledgeNext => ReviewInv'
<1> SUFFICES ASSUME ReviewInv, KnowledgeNext PROVE ReviewInv'
  OBVIOUS
<1> USE DEF knowledgeVars, documentVars
<1>0. documents \in Seq(STRING)
  BY DEF ReviewInv
<1>1. CASE DraftKnowledgePackFromPrompt
  BY <1>0, <1>1, Keeps, Adds DEF DraftKnowledgePackFromPrompt
<1>2. CASE FilePicked
  BY <1>0, <1>2, Keeps, Adds DEF FilePicked
<1>3. CASE UpdateKnowledgeFactCorrection
  BY <1>0, <1>3, Keeps DEF UpdateKnowledgeFactCorrection
<1>4. CASE RevalidateKnowledgeCorrections
  BY <1>0, <1>4, Keeps, Adds DEF RevalidateKnowledgeCorrections
<1>5. CASE ApproveKnowledgePack
  <2> DEFINE call == [kind |-> "approve", texts |-> corrections, facts |-> pack.facts]
  <2>1. Carried(call)'
    <3> SUFFICES ASSUME NEW k \in DOMAIN pack.facts
                 PROVE  IF k \in DOMAIN corrections THEN <<k, corrections[k]>> \in verified ELSE pack.facts[k]
      BY <1>5 DEF ApproveKnowledgePack, Carried
    <3>1. FactAccepted(k)
      BY <1>5 DEF ApproveKnowledgePack, knowledgeReviewReady
    <3>2. CASE k \in DOMAIN corrections
      BY <3>1, <3>2 DEF FactAccepted, Trusted, ReviewInv, VerdictsKept
    <3> QED BY <3>1, <3>2 DEF FactAccepted
  <2> QED BY <1>0, <1>5, <2>1, Keeps, Adds DEF ApproveKnowledgePack
<1>6. ASSUME NEW c \in reviewCalls, FileRead(c) PROVE ReviewInv'
  <2>1. \A d \in reviewCalls' : d \in reviewCalls \/ CallHolds(d)'
    BY <1>6, Turns, CallEnds DEF FileRead
  <2> QED BY <1>0, <1>6, <2>1, Keeps DEF FileRead
<1>7. ASSUME NEW c \in reviewCalls, DraftAnswered(c) PROVE ReviewInv'
  BY <1>0, <1>7, Keeps, CallEnds DEF DraftAnswered
<1>8. ASSUME NEW c \in reviewCalls, DraftFails(c) PROVE ReviewInv'
  BY <1>0, <1>8, Keeps, CallEnds DEF DraftFails
<1>9. ASSUME NEW c \in reviewCalls, RevalidationAnswered(c) PROVE ReviewInv'
  <2>1. PICK facts \in [FactKeys -> BOOLEAN] :
            /\ revalidation' = [loading |-> FALSE, facts |-> facts, texts |-> c.call.texts]
            /\ verified' = verified \cup {<<k, c.call.texts[k]>> : k \in {j \in DOMAIN c.call.texts : facts[j]}}
    BY <1>9 DEF RevalidationAnswered
  <2>2. VerdictsKept'
    BY <2>1 DEF VerdictsKept
  <2>3. \A d \in reviewCalls' : CallHolds(d)'
    BY <1>9, <2>1, CallEnds, CallHoldsOn DEF RevalidationAnswered, ReviewInv
  <2> QED BY <1>9, <2>2, <2>3 DEF RevalidationAnswered, ReviewInv
<1>10. ASSUME NEW c \in reviewCalls, RevalidationFails(c) PROVE ReviewInv'
  BY <1>0, <1>10, Keeps, CallEnds DEF RevalidationFails
<1>11. ASSUME NEW c \in reviewCalls, ApprovalAnswered(c) PROVE ReviewInv'
  BY <1>0, <1>11, Keeps, CallEnds DEF ApprovalAnswered
<1>12. ASSUME NEW c \in reviewCalls, ApprovalFails(c) PROVE ReviewInv'
  BY <1>0, <1>12, Keeps, CallEnds DEF ApprovalFails
<1> QED
  BY <1>1, <1>2, <1>3, <1>4, <1>5, <1>6, <1>7, <1>8, <1>9, <1>10, <1>11, <1>12 DEF KnowledgeNext

\* What they do to the project and its generated documents.
LEMMA DocumentSteps == ReviewInv /\ DocumentsNext => ReviewInv'
<1> SUFFICES ASSUME ReviewInv, DocumentsNext PROVE ReviewInv'
  OBVIOUS
<1> USE DEF knowledgeVars, documentVars
<1>0. documents \in Seq(STRING) /\ <<>> \in Seq(STRING)
  BY DEF ReviewInv
<1>1. CASE ApplyProjectOnboardingRow
  BY <1>0, <1>1, Keeps DEF ApplyProjectOnboardingRow
<1>2. CASE ResetNewProjectOnboardingDraft
  BY <1>0, <1>2, Keeps DEF ResetNewProjectOnboardingDraft
<1>3. CASE LoadOnboardingAdminData
  BY <1>0, <1>3, Keeps, Adds DEF LoadOnboardingAdminData
<1>4. CASE SaveOnboardingConnectivity
  BY <1>0, <1>4, Keeps, Adds DEF SaveOnboardingConnectivity
<1>5. CASE AcknowledgeDocuments
  BY <1>0, <1>5, Keeps DEF AcknowledgeDocuments
<1>6. CASE ClearDocuments
  BY <1>0, <1>6, Keeps DEF ClearDocuments
<1>7. CASE ApproveGeneratedOnboardingDocuments
  <2>1. Passed(Ingestion(documents, 1, 0))'
    BY <1>0, <1>7 DEF ApproveGeneratedOnboardingDocuments, Passed, Ingestion
  <2>2. Ingestion(documents, 1, 0).kind = "ingest"
    BY DEF Ingestion
  <2> QED BY <1>0, <1>7, <2>1, <2>2, Keeps, Adds DEF ApproveGeneratedOnboardingDocuments
<1>8. ASSUME NEW c \in reviewCalls, SaveAnswered(c) PROVE ReviewInv'
  BY <1>0, <1>8, Keeps, Turns, OnboardingAssumption DEF SaveAnswered
<1>9. ASSUME NEW c \in reviewCalls, SaveFails(c) PROVE ReviewInv'
  BY <1>0, <1>9, Keeps, CallEnds DEF SaveFails
<1>10. ASSUME NEW c \in reviewCalls, LoadAnswered(c) PROVE ReviewInv'
  <2>1. \A d \in reviewCalls' : d \in reviewCalls \/ CallHolds(d)'
    BY <1>10, Turns, CallEnds DEF LoadAnswered
  <2> QED BY <1>0, <1>10, <2>1, Keeps DEF LoadAnswered
<1>11. ASSUME NEW c \in reviewCalls, RefreshViewsAfterSubmit(c) PROVE ReviewInv'
  BY <1>0, <1>11, Keeps, Turns DEF RefreshViewsAfterSubmit
<1>12. ASSUME NEW c \in reviewCalls, IngestDocument(c) PROVE ReviewInv'
  <2>1. Passed(c.call) /\ ingested \subseteq ingested' /\ verified \subseteq verified'
    BY <1>12 DEF IngestDocument, ReviewInv, CallHolds
  <2>2. PICK call : Becomes(c, call) /\ call.kind = "ingest" /\ Passed(call)'
    <3>1. CASE /\ ingested' = ingested \cup {c.call.batch[c.call.next]}
               /\ Becomes(c, Ingestion(c.call.batch, c.call.next + 1, c.call.failed))
      BY <2>1, <3>1 DEF Passed, Ingestion
    <3>2. CASE Becomes(c, Ingestion(c.call.batch, c.call.next + 1, c.call.failed + 1))
      BY <2>1, <3>2 DEF Passed, Ingestion
    <3> QED BY <1>12, <3>1, <3>2 DEF IngestDocument
  <2>3. \A d \in reviewCalls' : CallHolds(d)'
    BY <2>1, <2>2, Turns, CallHoldsOn DEF ReviewInv
  <2> QED BY <1>12, <2>1, <2>3 DEF IngestDocument, ReviewInv, VerdictsKept
<1>13. ASSUME NEW c \in reviewCalls, DocumentsApproved(c) PROVE ReviewInv'
  <2>1. AllIngested(c.call) => {c.call.batch[i] : i \in DOMAIN c.call.batch} \subseteq ingested
    BY <1>13 DEF DocumentsApproved, AllIngested, ReviewInv, CallHolds, Passed
  <2>2. announced' \subseteq ingested'
    BY <1>13, <2>1 DEF DocumentsApproved, ReviewInv
  <2>3. \A d \in reviewCalls' : CallHolds(d)'
    BY <1>13, CallEnds, CallHoldsOn DEF DocumentsApproved, ReviewInv
  <2> QED BY <1>13, <2>2, <2>3 DEF DocumentsApproved, ReviewInv, VerdictsKept
<1> QED
  BY <1>1, <1>2, <1>3, <1>4, <1>5, <1>6, <1>7, <1>8, <1>9, <1>10, <1>11, <1>12, <1>13 DEF DocumentsNext

LEMMA StutteringKeeps == ReviewInv /\ UNCHANGED onboardingVars => ReviewInv'
BY DEF ReviewInv, VerdictsKept, CallHolds, Carried, Passed, onboardingVars

LEMMA ReviewInvariant == OnboardingSpec => []ReviewInv
<1>1. ReviewInv /\ [OnboardingNext]_onboardingVars => ReviewInv'
  BY KnowledgeSteps, DocumentSteps, StutteringKeeps DEF OnboardingNext
<1> QED BY <1>1, Begins, PTL DEF OnboardingSpec

\* For any facts, texts and documents, and any number of calls, failures and edits, no
\* pack is sent for approval with a correction the server has not accepted word for word,
\* and no document is called approved that it has not ingested.
THEOREM OnlyCheckedAccepted == OnboardingSpec => []OnlyTheCheckedIsAccepted
<1>1. ReviewInv => OnlyTheCheckedIsAccepted
  BY DEF ReviewInv, CallHolds, Carried, OnlyTheCheckedIsAccepted
<1> QED BY <1>1, ReviewInvariant, PTL

(***************************************************************************)
(* Documents of an alert                                                   *)
(***************************************************************************)
\* A form that names an alert holds its words.
Truthful(form) == form.doc[1] \in DocAlerts => form.words = form.doc[1]
FormShaped(form) == form = [doc |-> <<form.doc[1], form.doc[2]>>, words |-> form.words]

Sound(call) ==
    /\ call.op = "upload" => "form" \in DOMAIN call /\ Truthful(call.form)
    /\ call.op \in {"create", "create all"} => DOMAIN call = {"op", "alert", "kind", "rows"}
CallTruthful(c) == Sound(c.call)

WordsInv ==
    /\ savedDocs \in [AlertDocs -> DocAlerts \cup {NoDoc}]
    /\ DocumentsKeepTheirWords
    /\ Truthful(docForm) /\ FormShaped(docForm)
    /\ \A c \in docCalls : CallTruthful(c)

LEMMA DraftTruthful ==
    ASSUME NEW a, NEW kind
    PROVE  /\ Truthful(buildAlertDocumentDraft(a, kind))
           /\ FormShaped(buildAlertDocumentDraft(a, kind))
BY DEF Truthful, FormShaped, buildAlertDocumentDraft

\* A call stores a truthful form.
LEMMA FormOfTruthful ==
    ASSUME NEW c, CallTruthful(c), c.call.op \in {"upload", "create", "create all"}
    PROVE  Truthful(FormOf(c.call))
BY DraftTruthful DEF CallTruthful, Sound, FormOf

\* What is stored from a truthful form keeps its words.
LEMMA WriteKeeps ==
    ASSUME NEW form, Truthful(form), WriteRagDocument(form), DocumentsKeepTheirWords,
           savedDocs \in [AlertDocs -> DocAlerts \cup {NoDoc}]
    PROVE  /\ DocumentsKeepTheirWords'
           /\ savedDocs' \in [AlertDocs -> DocAlerts \cup {NoDoc}]
BY DEF Truthful, WriteRagDocument, DocumentsKeepTheirWords, StoredDocs, AlertDocs

LEMMA DialogInitHolds == DialogInit => WordsInv
<1> SUFFICES ASSUME DialogInit PROVE WordsInv
  OBVIOUS
<1>1. savedDocs \in [AlertDocs -> DocAlerts \cup {NoDoc}] /\ DocumentsKeepTheirWords
  BY DEF DialogInit, AlertDocs, DocumentsKeepTheirWords, StoredDocs
<1>2. Truthful(docForm) /\ FormShaped(docForm)
  BY DocumentsAssumption DEF DialogInit, Truthful, FormShaped
<1> QED BY <1>1, <1>2 DEF WordsInv, DialogInit

\* An act stores nothing: it may draft a form, or send a call that is truthful.
LEMMA ActsKeep ==
    ASSUME WordsInv, UNCHANGED savedDocs,
           Truthful(docForm') /\ FormShaped(docForm'),
           \A c \in docCalls' : c \in docCalls \/ CallTruthful(c)
    PROVE  WordsInv'
BY DEF WordsInv, DocumentsKeepTheirWords, StoredDocs, AlertDocs, CallTruthful, Sound, Truthful, FormShaped

\* The calls after one is sent, or goes on.
LEMMA SentSound ==
    ASSUME NEW call, Sound(call), Sends(call)
    PROVE  \A c \in docCalls' : c \in docCalls \/ CallTruthful(c)
BY DEF Sends, CallTruthful

LEMMA GoneOnSound ==
    ASSUME NEW c, NEW call, Sound(call), GoesOn(c, call)
    PROVE  \A e \in docCalls' : e \in docCalls \/ CallTruthful(e)
BY DEF GoesOn, CallTruthful

LEMMA ShowsKeeps ==
    ASSUME WordsInv, NEW a, NEW kind, Shows(a, kind), UNCHANGED savedDocs
    PROVE  WordsInv'
<1>1. CASE UNCHANGED docForm /\ Sends([op |-> "read"])
  <2>1. \A c \in docCalls' : c \in docCalls \/ CallTruthful(c)
    <3>1. Sound([op |-> "read"])
      BY DEF Sound
    <3> QED BY <1>1, <3>1, SentSound
  <2>2. Truthful(docForm') /\ FormShaped(docForm')
    BY <1>1 DEF WordsInv
  <2> QED BY <2>1, <2>2, ActsKeep
<1>2. CASE docForm' = buildAlertDocumentDraft(a, kind) /\ UNCHANGED docCalls
  BY <1>2, DraftTruthful, ActsKeep
<1> QED BY <1>1, <1>2 DEF Shows

LEMMA DialogActsKeep == WordsInv /\ DialogActs => WordsInv'
<1> SUFFICES ASSUME WordsInv, DialogActs PROVE WordsInv'
  OBVIOUS
<1>1. ASSUME NEW a \in DocAlerts, OpenDocumentPrompt(a) PROVE WordsInv'
  BY <1>1, ShowsKeeps DEF OpenDocumentPrompt, Act
<1>2. ASSUME NEW kind \in Kinds, ChooseDocKind(kind) PROVE WordsInv'
  BY <1>2, ShowsKeeps DEF ChooseDocKind, Act
<1>3. ASSUME NEW kind \in Kinds, ChooseFormKind(kind) PROVE WordsInv'
  <2>1. Truthful(docForm') /\ FormShaped(docForm')
    BY <1>3 DEF ChooseFormKind, WordsInv, Truthful, FormShaped
  <2> QED BY <1>3, <2>1, ActsKeep DEF ChooseFormKind, Act
<1>4. ASSUME NEW update \in BOOLEAN, ChooseDocMode(update) PROVE WordsInv'
  BY <1>4, ActsKeep DEF ChooseDocMode, Act, WordsInv
<1>5. CASE CloseDocumentPrompt
  BY <1>5, ActsKeep DEF CloseDocumentPrompt, Act, WordsInv
<1>6. CASE ReAnalyze
  <2>1. ASSUME NEW kind
        PROVE  Sound([op |-> "draft", alert |-> docPrompt.alert, kind |-> kind])
    BY DEF Sound
  <2>2. \A c \in docCalls' : c \in docCalls \/ CallTruthful(c)
    BY <1>6, <2>1, SentSound DEF ReAnalyze
  <2> QED BY <1>6, <2>2, ActsKeep DEF ReAnalyze, Act, WordsInv
<1>7. CASE SubmitAlertOnboarding
  <2>1. ASSUME NEW op \in {"replace", "upload"} PROVE Sound([op |-> op, form |-> docForm])
    BY DEF Sound, WordsInv
  <2>2. \A c \in docCalls' : c \in docCalls \/ CallTruthful(c)
    BY <1>7, <2>1, SentSound DEF SubmitAlertOnboarding, UploadedForm
  <2> QED BY <1>7, <2>2, ActsKeep DEF SubmitAlertOnboarding, Act, WordsInv
<1>8. CASE AutoCreateAlertDocument \/ AutoCreateAllAlertDocuments
  <2>1. ASSUME NEW op \in {"create", "create all"}, NEW kind PROVE Sound(Creation(op, kind))
    BY DEF Sound, Creation
  <2>2. \A c \in docCalls' : c \in docCalls \/ CallTruthful(c)
    BY <1>8, <2>1, SentSound DEF AutoCreateAlertDocument, AutoCreateAllAlertDocuments
  <2> QED BY <1>8, <2>2, ActsKeep DEF AutoCreateAlertDocument, AutoCreateAllAlertDocuments, Act, WordsInv
<1> QED BY <1>1, <1>2, <1>3, <1>4, <1>5, <1>6, <1>7, <1>8 DEF DialogActs

\* An answer stores a truthful form or nothing, and goes on with a truthful call or none.
LEMMA AnswersKeep ==
    ASSUME WordsInv, NEW c \in docCalls,
           \/ UNCHANGED savedDocs
           \/ c.call.op \in {"upload", "create", "create all"} /\ WriteRagDocument(FormOf(c.call)),
           UNCHANGED docForm,
           \A e \in docCalls' : e \in docCalls \/ CallTruthful(e)
    PROVE  WordsInv'
<1>1. /\ DocumentsKeepTheirWords' /\ savedDocs' \in [AlertDocs -> DocAlerts \cup {NoDoc}]
  BY WriteKeeps, FormOfTruthful DEF WordsInv, DocumentsKeepTheirWords, StoredDocs
<1>2. \A e \in docCalls' : CallTruthful(e)
  BY DEF WordsInv
<1> QED BY <1>1, <1>2 DEF WordsInv, Truthful, FormShaped, CallTruthful, Sound, AlertDocs

LEMMA DialogAnswersKeep == WordsInv /\ DialogAnswers => WordsInv'
<1> SUFFICES ASSUME WordsInv, NEW c \in docCalls,
                    \/ CallRefused(c) \/ DraftShown(c) \/ DocumentUploaded(c) \/ DocumentCreated(c)
                    \/ NextCreated(c) \/ SaveLost(c) \/ DocumentsListed(c) \/ LoadRagDocs(c)
             PROVE  WordsInv'
  BY DEF DialogAnswers
<1>1. CASE CallRefused(c) \/ LoadRagDocs(c)
  BY <1>1, AnswersKeep DEF CallRefused, LoadRagDocs, CallOver
<1>2. CASE DraftShown(c)
  <2>1. Truthful(docForm') /\ FormShaped(docForm')
    BY <1>2, DraftTruthful DEF DraftShown
  <2> QED BY <1>2, <2>1, ActsKeep DEF DraftShown, CallOver
<1>3. CASE DocumentUploaded(c)
  <2>1. FormOf(c.call) = c.call.form
    BY <1>3 DEF DocumentUploaded, WordsInv, CallTruthful, Sound, FormOf
  <2>2. \A e \in docCalls' : e \in docCalls \/ CallTruthful(e)
    <3>1. Sound([op |-> "list", turn |-> NoDoc])
      BY DEF Sound
    <3> QED BY <1>3, <3>1, GoneOnSound DEF DocumentUploaded
  <2> QED BY <1>3, <2>1, <2>2, AnswersKeep DEF DocumentUploaded
<1>4. CASE DocumentCreated(c)
  <2>1. \A e \in docCalls' : e \in docCalls \/ CallTruthful(e)
    <3>1. Sound([op |-> "list", turn |-> FormOf(c.call).doc])
      BY DEF Sound
    <3> QED BY <1>4, <3>1, GoneOnSound DEF DocumentCreated
  <2> QED BY <1>4, <2>1, AnswersKeep DEF DocumentCreated
<1>5. CASE NextCreated(c)
  <2>1. c.call.op = "create all" /\ DOMAIN c.call = {"op", "alert", "kind", "rows"}
    BY <1>5 DEF NextCreated, WordsInv, CallTruthful, Sound
  <2>2. ASSUME NEW kind PROVE Sound([c.call EXCEPT !.kind = kind])
    <3>1. [c.call EXCEPT !.kind = kind].op = c.call.op
      BY <2>1
    <3>2. DOMAIN [c.call EXCEPT !.kind = kind] = DOMAIN c.call
      OBVIOUS
    <3>3. [c.call EXCEPT !.kind = kind].op # "upload"
      BY <2>1, <3>1
    <3> QED BY <2>1, <3>2, <3>3 DEF Sound
  <2>3. \A e \in docCalls' : e \in docCalls \/ CallTruthful(e)
    BY <1>5, <2>2, GoneOnSound DEF NextCreated
  <2> QED BY <1>5, <2>3, AnswersKeep DEF NextCreated
<1>6. CASE SaveLost(c)
  BY <1>6, AnswersKeep DEF SaveLost, CallOver
<1>7. CASE DocumentsListed(c)
  <2>1. \A e \in docCalls' : e \in docCalls \/ CallTruthful(e)
    <3>1. Sound([op |-> "listed", turn |-> c.call.turn, rows |-> StoredDocs(savedDocs)])
      BY DEF Sound
    <3> QED BY <1>7, <3>1, GoneOnSound DEF DocumentsListed
  <2> QED BY <1>7, <2>1, AnswersKeep DEF DocumentsListed
<1> QED BY <1>1, <1>2, <1>3, <1>4, <1>5, <1>6, <1>7

\* No document of an alert holds the words of another, for any alerts, kinds and matches and
\* any number of overlapping calls and lost answers.
THEOREM WordsAreKept == DialogSpec => []DocumentsKeepTheirWords
<1>1. DialogInit => WordsInv
  BY DialogInitHolds
<1>2. WordsInv /\ [DialogNext]_dialogVars => WordsInv'
  <2>1. WordsInv /\ UNCHANGED dialogVars => WordsInv'
    BY DEF WordsInv, dialogVars, DocumentsKeepTheirWords, StoredDocs, AlertDocs, Truthful, FormShaped, CallTruthful, Sound
  <2> QED BY <2>1, DialogActsKeep, DialogAnswersKeep DEF DialogNext
<1>3. WordsInv => DocumentsKeepTheirWords
  BY DEF WordsInv
<1> QED BY <1>1, <1>2, <1>3, PTL DEF DialogSpec

(***************************************************************************)
(* Navigation.                                                             *)
(***************************************************************************)
MayOpen(r, p) == r \in ItemForPath(p).roles

\* The tab stays allowed, and so does the URL unless another is on its way, until what
\* the effects have seen is out of date; only one navigation is on its way, and never to
\* the URL shown, unless that is home.
RestInv ==
    /\ tab \in Tabs /\ path # "none" /\ role \in Roles \cup {"none"}
    /\ role # "none" /\ shown.tab = tab /\ shown.role = role => tab \in AllowedTabs(role)
    /\ role # "none" /\ shown.path = path /\ shown.role = role =>
           MayOpen(role, path) \/ arriving # "none"
    /\ arriving # "none" => shown.path = path
    /\ arriving = path => path = "/"

LEMMA ItemsAre ==
    /\ DOMAIN Items = 1 .. 15
    /\ \A i \in 1 .. 15 : Items[i].path # "none"
    /\ Items[1].tab = "home" /\ Items[1].path = "/" /\ Items[1].roles = All
    /\ Items[7].tab = "admin"
BY DEF Items, Item

LEMMA PathsOnce == \A i, j \in 1 .. 15 : Items[i].path = Items[j].path => i = j
BY DEF Items, Item

\* The first of some items is one of them.
LEMMA FirstIsOne ==
    ASSUME NEW ns, ns \subseteq 1 .. 15, ns # {}
    PROVE  \E i \in ns : First(ns) = Items[i]
<1>1. \E i \in ns : \A j \in ns : i <= j
  <2> SUFFICES ASSUME \A i \in ns : \E j \in ns : j < i PROVE FALSE
    OBVIOUS
  <2>1. PICK i : i \in ns
    OBVIOUS
  <2> QED
    BY <2>1, SMTT(30)
<1> QED
  BY <1>1 DEF First

LEMMA HomeIsOpen ==
    /\ \A r \in Roles : MayOpen(r, "/") /\ "home" \in AllowedTabs(r)
    /\ "home" \in Tabs /\ "admin" \in Tabs
<1>1. ItemForPath("/") = Items[1]
  BY ItemsAre, PathsOnce DEF ItemForPath
<1>2. 1 \in DOMAIN Items /\ 7 \in DOMAIN Items
  BY ItemsAre
<1>3. ASSUME NEW r \in Roles PROVE MayOpen(r, "/") /\ "home" \in AllowedTabs(r)
  <2>1. r \in Items[1].roles
    BY ItemsAre, NavigationAssumption
  <2> QED
    BY <1>1, <1>2, <2>1, ItemsAre DEF MayOpen, AllowedTabs
<1>4. "home" \in Tabs /\ "admin" \in Tabs
  BY <1>2, ItemsAre DEF Tabs
<1> QED
  BY <1>3, <1>4

LEMMA AllowedTab ==
    /\ \A r \in Roles : FirstAllowedTab(r) \in AllowedTabs(r)
    /\ \A r : AllowedTabs(r) \subseteq Tabs
<1>1. ASSUME NEW r \in Roles PROVE FirstAllowedTab(r) \in AllowedTabs(r)
  <2> DEFINE ns == {i \in DOMAIN Items : r \in Items[i].roles}
  <2>1. ns \subseteq 1 .. 15 /\ 1 \in ns
    BY ItemsAre, NavigationAssumption
  <2>2. PICK i \in ns : First(ns) = Items[i]
    BY <2>1, FirstIsOne
  <2> QED
    BY <2>2 DEF FirstAllowedTab, AllowedTabs
<1> QED
  BY <1>1 DEF AllowedTabs, Tabs

\* A tab that is not of the URL is published under another URL.
LEMMA PublishedElsewhere ==
    ASSUME NEW t \in Tabs, NEW p, TabForPath(p) # t
    PROVE  PathByTab(t) # p /\ PathByTab(t) # "none"
<1> DEFINE ns == {i \in DOMAIN Items : Items[i].tab = t}
<1>1. ns \subseteq 1 .. 15 /\ ns # {}
  BY ItemsAre DEF Tabs
<1>2. PICK i \in ns : First(ns) = Items[i]
  BY <1>1, FirstIsOne
<1>3. PathByTab(t) = Items[i].path /\ Items[i].tab = t /\ i \in 1 .. 15
  BY <1>2, ItemsAre DEF PathByTab
<1>4. ASSUME Items[i].path = p PROVE FALSE
  <2>1. ItemForPath(p) = Items[i]
    BY <1>3, <1>4, ItemsAre, PathsOnce DEF ItemForPath
  <2> QED
    BY <1>3, <2>1 DEF TabForPath
<1> QED
  BY <1>3, <1>4, ItemsAre

LEMMA RedirectedElsewhere ==
    \A p \in DOMAIN Redirects : Redirects[p] # p /\ Redirects[p] # "none"
BY DEF Redirects

\* Every path has an item, the home page's if it has none of its own.
LEMMA ItemFound == \A p : \E i \in DOMAIN Items : ItemForPath(p) = Items[i]
<1> TAKE p
<1>1. CASE \E i \in DOMAIN Items : Items[i].path = p
  <2> DEFINE n == CHOOSE i \in DOMAIN Items : Items[i].path = p
  <2>1. n \in DOMAIN Items
    BY <1>1, Zenon
  <2>2. ItemForPath(p) = Items[n]
    BY <1>1 DEF ItemForPath
  <2> QED
    BY <2>1, <2>2
<1>2. CASE ~ \E i \in DOMAIN Items : Items[i].path = p
  <2>1. ItemForPath(p) = Items[1]
    BY <1>2 DEF ItemForPath
  <2>2. 1 \in DOMAIN Items
    BY ItemsAre
  <2> QED
    BY <2>1, <2>2
<1> QED
  BY <1>1, <1>2

LEMMA RestInit == NavigationInit => RestInv
<1> SUFFICES ASSUME NavigationInit PROVE RestInv
  OBVIOUS
<1>1. path \in Paths /\ path # "none" /\ tab = TabForPath(path)
  BY NavigationAssumption DEF NavigationInit
<1>2. tab \in Tabs
  BY <1>1, ItemFound DEF TabForPath, Tabs
<1> QED
  BY <1>1, <1>2 DEF NavigationInit, RestInv

LEMMA RestStep == RestInv /\ [NavigationNext]_navigationVars => RestInv'
<1> SUFFICES ASSUME RestInv, [NavigationNext]_navigationVars PROVE RestInv'
  OBVIOUS
<1>1. "none" \notin Roles /\ "none" \notin Paths
  BY NavigationAssumption DEF All
<1>2. Moves => shown.tab = tab /\ shown.path = path /\ shown.role = role
  BY DEF Moves, Dirty, Shown
<1>3. ASSUME NEW r \in Roles, SignIn(r) PROVE RestInv'
  BY <1>1, <1>2, <1>3 DEF SignIn, RestInv
<1>4. CASE SignOut
  BY <1>1, <1>2, <1>4, HomeIsOpen DEF SignOut, RestInv
<1>5. CASE OpenAlertDetails
  BY <1>1, <1>2, <1>5, HomeIsOpen DEF OpenAlertDetails, RestInv
<1>6. ASSUME NEW t \in Tabs, OpenSection(t) PROVE RestInv'
  BY <1>2, <1>6, AllowedTab DEF OpenSection, RestInv
<1>7. ASSUME NEW i \in DOMAIN Items, OpenNavigationItem(i) PROVE RestInv'
  <2>1. Items[i].tab \in Tabs /\ Items[i].tab \in AllowedTabs(role) /\ Items[i].path # "none"
    BY <1>7, ItemsAre DEF OpenNavigationItem, Tabs, AllowedTabs
  <2> QED
    BY <1>2, <1>7, <2>1 DEF OpenNavigationItem, RestInv
<1>8. ASSUME NEW p \in Paths, OpenCopilotWorkspace(p) PROVE RestInv'
  BY <1>1, <1>2, <1>8, HomeIsOpen DEF OpenCopilotWorkspace, RestInv
<1>9. ASSUME NEW p \in Paths, BrowserGoes(p) PROVE RestInv'
  BY <1>1, <1>2, <1>9 DEF BrowserGoes, RestInv
<1>10. CASE Arrive
  BY <1>10, HomeIsOpen DEF Arrive, RestInv
<1>11. CASE Commit
  <2>1. shown'.tab = tab /\ shown'.path = path /\ shown'.role = role /\ path' = path /\ role' = role
    BY <1>11 DEF Commit, Shown
  <2>2. tab' \in Tabs
    <3>1. \E i \in DOMAIN Items : ItemForPath(path) = Items[i]
      BY ItemFound
    <3>2. TabForPath(path) \in Tabs
      BY <3>1 DEF TabForPath, Tabs
    <3>3. Forbidden => FirstAllowedTab(role) \in Tabs
      BY AllowedTab DEF Forbidden, RestInv
    <3> QED
      BY <1>11, <3>2, <3>3, HomeIsOpen DEF Commit, RestInv
  <2>3. role # "none" /\ tab' = tab => tab \in AllowedTabs(role)
    <3> SUFFICES ASSUME role # "none", tab' = tab, tab \notin AllowedTabs(role) PROVE FALSE
      OBVIOUS
    <3>1. Forbidden /\ role \in Roles
      BY DEF Forbidden, RestInv
    <3>2. tab' = FirstAllowedTab(role)
      BY <1>11, <3>1 DEF Commit
    <3> QED
      BY <3>1, <3>2, AllowedTab
  <2>4. \/ arriving' = "/" /\ Restricted
        \/ arriving' # "none" /\ arriving' # path /\ ~ Restricted
        \/ arriving' = arriving /\ ~ Restricted
    <3>1. Pushes => PathByTab(tab) # path /\ PathByTab(tab) # "none"
      BY PublishedElsewhere DEF Pushes, RestInv
    <3> QED
      BY <1>11, <3>1, RedirectedElsewhere DEF Commit
  <2>5. role # "none" => MayOpen(role, path) \/ arriving' # "none"
    BY <2>4 DEF Restricted, RestInv, MayOpen
  <2> QED
    BY <2>1, <2>2, <2>3, <2>4, <2>5 DEF RestInv
<1>12. CASE UNCHANGED navigationVars
  BY <1>12 DEF navigationVars, RestInv
<1> QED
  BY <1>3, <1>4, <1>5, <1>6, <1>7, <1>8, <1>9, <1>10, <1>11, <1>12 DEF NavigationNext

\* Wherever the URL, the shortcuts, a sign-in or a sign-out take the console, at rest it
\* shows a tab and a URL that the role signed in may open: no change of either slips past
\* the two effects of App.jsx that compare them with the role.
THEOREM RestIsAllowed == NavigationSpec => []RestsWhereAllowed
<1>1. RestInv => RestsWhereAllowed
  BY DEF RestInv, RestsWhereAllowed, Quiet, Dirty, Shown, MayOpen
<1> QED
  BY <1>1, RestInit, RestStep, PTL DEF NavigationSpec

(***************************************************************************)
(* Operational events.                                                     *)
(***************************************************************************)
AttemptRecords ==
    [effect : Nat, phase : {"opening", "open", "timer", "gone"}, position : Nat]

Lives == {"disabled", "connecting", "connected", "reconnecting", "paused"}

EventStateTypes ==
    /\ page \in [token : Nat, paused : BOOLEAN, visible : BOOLEAN]
    /\ effect \in Nat /\ retry \in Nat /\ toggles \in Nat
    /\ attempts \in Seq(AttemptRecords) /\ controller \in 0 .. Len(attempts)
    /\ live \in Lives
    /\ emitted \in 0 .. MaxEvents
    /\ seen \subseteq 1 .. emitted /\ lastEventId \in 0 .. emitted
    /\ handled \in Seq(1 .. MaxEvents)

\* Until the memory is cut it holds just the events handled, one entry for each.
Memory ==
    /\ IsFiniteSet(seen)
    /\ Len(handled) <= SeenLimit =>
           /\ Cardinality(seen) = Len(handled)
           /\ \A n \in DOMAIN handled : handled[n] \in seen
           /\ \A m, n \in DOMAIN handled : handled[m] = handled[n] => m = n

EventsInv == EventStateTypes /\ Memory

\* What connect may do to the attempts, the controller and the state shown.
LEMMA AttemptAdded ==
    ASSUME EventStateTypes, NEW xs \in Seq(AttemptRecords), NEW e \in Nat, controller <= Len(xs),
           \/ /\ attempts' = Append(xs, [effect |-> e, phase |-> "opening", position |-> lastEventId])
              /\ controller' = Len(xs) + 1 /\ live' \in Lives
           \/ attempts' = xs /\ UNCHANGED <<controller, live>>
    PROVE  /\ attempts' \in Seq(AttemptRecords) /\ controller' \in 0 .. Len(attempts')
           /\ live' \in Lives
<1> DEFINE a == [effect |-> e, phase |-> "opening", position |-> lastEventId]
<1>1. a \in AttemptRecords
  BY EventsAssumption DEF EventStateTypes, AttemptRecords
<1>2. controller \in Nat /\ Len(xs) \in Nat
  BY DEF EventStateTypes
<1> HIDE DEF a
<1>3. CASE attempts' = Append(xs, a) /\ controller' = Len(xs) + 1 /\ live' \in Lives
  BY <1>1, <1>2, <1>3
<1>4. CASE attempts' = xs /\ UNCHANGED <<controller, live>>
  BY <1>2, <1>4 DEF EventStateTypes
<1> QED
  BY <1>3, <1>4 DEF a

LEMMA TornDownType ==
    EventStateTypes => TornDown \in Seq(AttemptRecords) /\ Len(TornDown) = Len(attempts)
<1> SUFFICES ASSUME EventStateTypes PROVE TornDown \in Seq(AttemptRecords) /\ Len(TornDown) = Len(attempts)
  OBVIOUS
<1>1. \A a \in DOMAIN attempts : attempts[a] \in AttemptRecords
  BY DEF EventStateTypes
<1>2. \A a \in DOMAIN attempts : [attempts[a] EXCEPT !.phase = "gone"] \in AttemptRecords
  BY <1>1 DEF AttemptRecords
<1>3. Len(attempts) \in Nat /\ DOMAIN attempts = 1 .. Len(attempts)
  BY DEF EventStateTypes
<1>4. TornDown \in [1 .. Len(attempts) -> AttemptRecords]
  BY <1>1, <1>2, <1>3, Zenon DEF TornDown
<1> QED
  BY <1>3, <1>4, SeqDef

LEMMA AttemptChanged ==
    ASSUME EventStateTypes, NEW a \in DOMAIN attempts,
           NEW p \in {"opening", "open", "timer", "gone"}, NEW q \in Nat
    PROVE  /\ [attempts EXCEPT ![a].phase = p] \in Seq(AttemptRecords)
           /\ [attempts EXCEPT ![a].position = q, ![a].phase = p] \in Seq(AttemptRecords)
           /\ Len([attempts EXCEPT ![a].phase = p]) = Len(attempts)
           /\ Len([attempts EXCEPT ![a].position = q, ![a].phase = p]) = Len(attempts)
<1>1. attempts \in Seq(AttemptRecords) /\ attempts[a] \in AttemptRecords /\ a \in 1 .. Len(attempts)
  BY DEF EventStateTypes
<1>2. /\ [attempts[a] EXCEPT !.phase = p] \in AttemptRecords
      /\ [[attempts[a] EXCEPT !.position = q] EXCEPT !.phase = p] \in AttemptRecords
  BY <1>1 DEF AttemptRecords
<1>3. \A x \in AttemptRecords : /\ [attempts EXCEPT ![a] = x] \in Seq(AttemptRecords)
                                /\ Len([attempts EXCEPT ![a] = x]) = Len(attempts)
  BY <1>1
<1>4. [attempts EXCEPT ![a].phase = p] = [attempts EXCEPT ![a] = [attempts[a] EXCEPT !.phase = p]]
  BY <1>1
<1>5. [attempts EXCEPT ![a].position = q, ![a].phase = p]
          = [attempts EXCEPT ![a] = [[attempts[a] EXCEPT !.position = q] EXCEPT !.phase = p]]
  BY <1>1
<1> QED
  BY <1>2, <1>3, <1>4, <1>5

LEMMA EventsInitHolds == EventsInit => EventsInv
<1> SUFFICES ASSUME EventsInit PROVE EventsInv
  OBVIOUS
<1>1. /\ attempts = <<>> /\ handled = <<>> /\ seen = {} /\ controller = 0 /\ emitted = 0
      /\ lastEventId = 0 /\ effect = 0 /\ retry = 0 /\ toggles = 0 /\ live = "disabled"
      /\ page = [token |-> 0, paused |-> FALSE, visible |-> TRUE]
  BY DEF EventsInit
<1>2. EventStateTypes
  BY <1>1, EventsAssumption DEF EventStateTypes, Lives
<1>3. Memory
  BY <1>1, FS_EmptySet DEF Memory
<1> QED
  BY <1>2, <1>3 DEF EventsInv

\* A step that handles no event keeps what is remembered of them.
LEMMA MemoryKept == Memory /\ UNCHANGED <<seen, handled>> => Memory'
BY DEF Memory

LEMMA EffectRunsKeeps ==
    ASSUME EventStateTypes, NEW p \in [token : Nat, paused : BOOLEAN, visible : BOOLEAN], EffectRuns(p)
    PROVE  EventStateTypes' /\ UNCHANGED <<seen, handled>>
<1>1. /\ page' = p /\ toggles' = toggles + 1 /\ retry' = 0
      /\ UNCHANGED <<seen, lastEventId, handled, emitted>>
  BY DEF EffectRuns
<1>2. TornDown \in Seq(AttemptRecords) /\ Len(TornDown) = Len(attempts)
  BY TornDownType
<1>3. controller \in Nat /\ Len(attempts) \in Nat /\ controller <= Len(attempts) /\ toggles + 1 \in Nat
  BY DEF EventStateTypes
<1>4. CASE p.token = 0 \/ p.paused
  <2>1. effect' = 0 /\ attempts' = TornDown /\ controller' = 0 /\ live' \in {"disabled", "paused"}
    BY <1>4 DEF EffectRuns
  <2> QED
    BY <1>1, <1>2, <1>3, <2>1 DEF EventStateTypes, Lives
<1>5. CASE ~ (p.token = 0 \/ p.paused)
  <2>1. effect' = toggles + 1
    BY <1>5 DEF EffectRuns
  <2>2. attempts' \in Seq(AttemptRecords) /\ controller' \in 0 .. Len(attempts') /\ live' \in Lives
    <3>1. CASE p.visible
      <4>1. /\ attempts' = Append(TornDown, [effect |-> toggles + 1, phase |-> "opening", position |-> lastEventId])
            /\ controller' = Len(TornDown) + 1 /\ live' = "connecting"
        BY <1>5, <3>1 DEF EffectRuns, Connected
      <4> QED
        BY <1>2, <1>3, <4>1, AttemptAdded DEF Lives
    <3>2. CASE ~ p.visible
      <4>1. attempts' = TornDown /\ controller' = 0 /\ live' = live
        BY <1>5, <3>2 DEF EffectRuns
      <4> QED
        BY <1>2, <1>3, <4>1 DEF EventStateTypes
    <3> QED
      BY <3>1, <3>2
  <2> QED
    BY <1>1, <1>3, <2>1, <2>2 DEF EventStateTypes
<1> QED
  BY <1>1, <1>4, <1>5

LEMMA EventsStep == EventsInv /\ [EventsNext]_eventVars => EventsInv'
<1> SUFFICES ASSUME EventsInv, [EventsNext]_eventVars PROVE EventsInv'
  OBVIOUS
<1>1. EventStateTypes /\ Memory
  BY DEF EventsInv
<1>2. EventStateTypes' /\ UNCHANGED <<seen, handled>> => EventsInv'
  BY <1>1, MemoryKept DEF EventsInv
<1>3. /\ page \in [token : Nat, paused : BOOLEAN, visible : BOOLEAN] /\ effect \in Nat /\ retry \in Nat
      /\ controller \in Nat /\ Len(attempts) \in Nat /\ controller <= Len(attempts)
      /\ attempts \in Seq(AttemptRecords) /\ DOMAIN attempts = 1 .. Len(attempts)
  BY <1>1 DEF EventStateTypes
<1>4. CASE TokenChanges \/ TokenRefreshed \/ PauseToggled
  <2>1. PICK p \in [token : Nat, paused : BOOLEAN, visible : BOOLEAN] : EffectRuns(p)
    <3>1. /\ [page EXCEPT !.token = IF @ = 0 THEN 1 ELSE 0] \in [token : Nat, paused : BOOLEAN, visible : BOOLEAN]
          /\ [page EXCEPT !.token = @ + 1] \in [token : Nat, paused : BOOLEAN, visible : BOOLEAN]
          /\ [page EXCEPT !.paused = ~@] \in [token : Nat, paused : BOOLEAN, visible : BOOLEAN]
      <4>1. [page EXCEPT !.token = IF @ = 0 THEN 1 ELSE 0] \in [token : Nat, paused : BOOLEAN, visible : BOOLEAN]
        BY <1>3
      <4>2. [page EXCEPT !.token = @ + 1] \in [token : Nat, paused : BOOLEAN, visible : BOOLEAN]
        BY <1>3
      <4>3. [page EXCEPT !.paused = ~@] \in [token : Nat, paused : BOOLEAN, visible : BOOLEAN]
        BY <1>3, Zenon
      <4> QED
        BY <4>1, <4>2, <4>3, Zenon
    <3> QED
      BY <1>4, <3>1, Zenon DEF TokenChanges, TokenRefreshed, PauseToggled
  <2> QED
    BY <1>1, <1>2, <2>1, EffectRunsKeeps
<1>5. CASE PageHidden
  <2> DEFINE hidden == [a \in DOMAIN attempts |->
                 IF a = controller /\ attempts[a].phase \in {"opening", "open"}
                 THEN [attempts[a] EXCEPT !.phase = "gone"] ELSE attempts[a]]
  <2>1. hidden \in Seq(AttemptRecords) /\ Len(hidden) = Len(attempts)
    <3>1. \A a \in DOMAIN attempts : attempts[a] \in AttemptRecords
      BY <1>3
    <3>2. \A a \in DOMAIN attempts : [attempts[a] EXCEPT !.phase = "gone"] \in AttemptRecords
      BY <3>1 DEF AttemptRecords
    <3>3. hidden \in [1 .. Len(attempts) -> AttemptRecords]
      BY <1>3, <3>1, <3>2, Zenon
    <3> HIDE DEF hidden
    <3> QED
      BY <1>3, <3>3, SeqDef
  <2>2. \/ attempts' = hidden /\ live' = "paused"
        \/ attempts' = attempts /\ live' = live
    BY <1>5 DEF PageHidden
  <2>3. /\ page' = [page EXCEPT !.visible = FALSE] /\ toggles' = toggles + 1
        /\ UNCHANGED <<effect, controller, retry, seen, lastEventId, handled, emitted>>
    BY <1>5 DEF PageHidden
  <2> HIDE DEF hidden
  <2>4. page' \in [token : Nat, paused : BOOLEAN, visible : BOOLEAN]
    BY <1>3, <2>3
  <2>5. attempts' \in Seq(AttemptRecords) /\ Len(attempts') = Len(attempts) /\ live' \in Lives
    BY <1>1, <2>1, <2>2 DEF EventStateTypes, Lives
  <2> QED
    BY <1>1, <1>2, <2>3, <2>4, <2>5 DEF EventStateTypes
<1>6. CASE PageShown
  <2>1. /\ page' = [page EXCEPT !.visible = TRUE] /\ toggles' = toggles + 1
        /\ UNCHANGED <<effect, seen, lastEventId, handled, emitted>>
    BY <1>6 DEF PageShown
  <2>2. \/ /\ attempts' = Append(attempts, [effect |-> effect, phase |-> "opening", position |-> lastEventId])
           /\ controller' = Len(attempts) + 1 /\ live' \in Lives /\ retry' = 0
        \/ attempts' = attempts /\ UNCHANGED <<controller, live, retry>>
    BY <1>6 DEF PageShown, Connected, Lives
  <2>3. attempts' \in Seq(AttemptRecords) /\ controller' \in 0 .. Len(attempts') /\ live' \in Lives
    <3>1. \/ /\ attempts' = Append(attempts, [effect |-> effect, phase |-> "opening", position |-> lastEventId])
             /\ controller' = Len(attempts) + 1 /\ live' \in Lives
          \/ attempts' = attempts /\ UNCHANGED <<controller, live>>
      BY <2>2, Zenon
    <3> QED
      BY <1>1, <1>3, <3>1, AttemptAdded
  <2>4. page' \in [token : Nat, paused : BOOLEAN, visible : BOOLEAN]
    BY <1>3, <2>1
  <2>5. retry' \in Nat
    BY <1>3, <2>2
  <2> QED
    BY <1>1, <1>2, <2>1, <2>3, <2>4, <2>5 DEF EventStateTypes
<1>7. CASE Emit
  <2>1. /\ emitted < MaxEvents /\ emitted' = emitted + 1
        /\ UNCHANGED <<page, effect, attempts, controller, retry, live, seen, lastEventId, handled, toggles>>
    BY <1>7 DEF Emit
  <2>2. emitted' \in 0 .. MaxEvents /\ 1 .. emitted \subseteq 1 .. emitted' /\ 0 .. emitted \subseteq 0 .. emitted'
    BY <1>1, <2>1, EventsAssumption DEF EventStateTypes
  <2>3. seen' \subseteq 1 .. emitted' /\ lastEventId' \in 0 .. emitted'
    BY <1>1, <2>1, <2>2 DEF EventStateTypes
  <2> QED
    BY <1>1, <1>2, <2>1, <2>2, <2>3 DEF EventStateTypes
<1>8. ASSUME NEW a \in DOMAIN attempts, Opens(a) \/ Ends(a) PROVE EventsInv'
  <2>1. \/ \E p \in {"open", "gone", "timer"} : attempts' = [attempts EXCEPT ![a].phase = p]
        \/ \E q \in Beginnings(a), p \in {"open", "gone"} :
              attempts' = [attempts EXCEPT ![a].position = q, ![a].phase = p]
    BY <1>8, Zenon DEF Opens, Ends
  <2>5. Beginnings(a) \subseteq Nat
    <3>1. attempts[a] \in AttemptRecords
      BY <1>3
    <3>2. attempts[a].position \in Nat
      BY <3>1 DEF AttemptRecords
    <3>3. 0 .. emitted \subseteq Nat
      BY <1>1 DEF EventStateTypes
    <3> QED
      BY <3>2, <3>3 DEF Beginnings
  <2>2. attempts' \in Seq(AttemptRecords) /\ Len(attempts') = Len(attempts)
    <3>1. CASE \E p \in {"open", "gone", "timer"} : attempts' = [attempts EXCEPT ![a].phase = p]
      <4>1. PICK p \in {"open", "gone", "timer"} : attempts' = [attempts EXCEPT ![a].phase = p]
        BY <3>1, Zenon
      <4>2. p \in {"opening", "open", "timer", "gone"} /\ 0 \in Nat
        OBVIOUS
      <4> QED
        BY <1>1, <4>1, <4>2, AttemptChanged, Zenon
    <3>2. CASE \E q \in Beginnings(a), p \in {"open", "gone"} :
                 attempts' = [attempts EXCEPT ![a].position = q, ![a].phase = p]
      <4>1. PICK q \in Nat, p \in {"open", "gone"} :
                 attempts' = [attempts EXCEPT ![a].position = q, ![a].phase = p]
        BY <2>5, <3>2, Zenon
      <4>2. p \in {"opening", "open", "timer", "gone"}
        OBVIOUS
      <4> QED
        BY <1>1, <4>1, <4>2, AttemptChanged, Zenon
    <3> QED
      BY <2>1, <3>1, <3>2
  <2>3. UNCHANGED <<page, effect, controller, seen, lastEventId, handled, emitted, toggles>>
    BY <1>8 DEF Opens, Ends
  <2>4. live' \in Lives /\ retry' \in Nat
    BY <1>1, <1>3, <1>8 DEF Opens, Ends, Lives, EventStateTypes
  <2> QED
    BY <1>1, <1>2, <2>2, <2>3, <2>4 DEF EventStateTypes
<1>9. ASSUME NEW a \in DOMAIN attempts, TimerFires(a) PROVE EventsInv'
  <2> DEFINE xs == [attempts EXCEPT ![a].phase = "gone"]
             e == attempts[a].effect
  <2>1. xs \in Seq(AttemptRecords) /\ Len(xs) = Len(attempts) /\ e \in Nat
    <3>1. attempts[a] \in AttemptRecords
      BY <1>3
    <3>2. e \in Nat
      BY <3>1 DEF AttemptRecords
    <3> QED
      BY <1>1, <3>2, AttemptChanged
  <2>2. \/ /\ attempts' = Append(xs, [effect |-> e, phase |-> "opening", position |-> lastEventId])
           /\ controller' = Len(xs) + 1 /\ live' \in Lives
        \/ attempts' = xs /\ UNCHANGED <<controller, live>>
    BY <1>9 DEF TimerFires, Connected, Lives
  <2>3. UNCHANGED <<page, effect, retry, seen, lastEventId, handled, emitted, toggles>>
    BY <1>9 DEF TimerFires
  <2> HIDE DEF xs, e
  <2>4. attempts' \in Seq(AttemptRecords) /\ controller' \in 0 .. Len(attempts') /\ live' \in Lives
    BY <1>1, <1>3, <2>1, <2>2, AttemptAdded
  <2> QED
    BY <1>1, <1>2, <2>3, <2>4 DEF EventStateTypes
<1>10. ASSUME NEW a \in DOMAIN attempts, Frame(a) PROVE EventsInv'
  <2> DEFINE id == attempts[a].position + 1
  <2>1. attempts[a].position \in Nat
    <3>1. attempts[a] \in AttemptRecords
      BY <1>3
    <3> QED
      BY <3>1 DEF AttemptRecords
  <2>2. id \in Nat /\ id \in 1 .. emitted /\ id \in 1 .. MaxEvents
    <3>1. id <= emitted /\ emitted \in 0 .. MaxEvents /\ MaxEvents \in Nat
      BY <1>1, <1>10, EventsAssumption DEF Frame, EventStateTypes
    <3> QED
      BY <2>1, <3>1
  <2>3. PICK p \in {"open", "gone"} : attempts' = [attempts EXCEPT ![a].position = id, ![a].phase = p]
    BY <1>10, Zenon DEF Frame
  <2>4. UNCHANGED <<page, effect, controller, retry, live, emitted, toggles>>
    BY <1>10 DEF Frame
  <2>5. \/ UNCHANGED <<seen, lastEventId, handled>>
        \/ /\ id \notin seen /\ lastEventId' = id /\ handled' = Append(handled, id)
           /\ seen' = IF Cardinality(seen) >= SeenLimit THEN {id} ELSE seen \cup {id}
    BY <1>10, Zenon DEF Frame, Remembered
  <2> HIDE DEF id
  <2>6. attempts' \in Seq(AttemptRecords) /\ Len(attempts') = Len(attempts)
    <3>1. p \in {"opening", "open", "timer", "gone"}
      BY <2>3
    <3>2. /\ [attempts EXCEPT ![a].position = id, ![a].phase = p] \in Seq(AttemptRecords)
          /\ Len([attempts EXCEPT ![a].position = id, ![a].phase = p]) = Len(attempts)
      BY <1>1, <2>2, <3>1, AttemptChanged, Zenon
    <3> QED
      BY <2>3, <3>2
  <2>7. CASE UNCHANGED <<seen, lastEventId, handled>>
    BY <1>1, <1>2, <2>4, <2>6, <2>7 DEF EventStateTypes
  <2>8. CASE /\ id \notin seen /\ lastEventId' = id /\ handled' = Append(handled, id)
             /\ seen' = IF Cardinality(seen) >= SeenLimit THEN {id} ELSE seen \cup {id}
    <3>1. handled \in Seq(1 .. MaxEvents) /\ Len(handled) \in Nat /\ DOMAIN handled = 1 .. Len(handled)
      BY <1>1 DEF EventStateTypes
    <3>2. /\ handled' \in Seq(1 .. MaxEvents) /\ Len(handled') = Len(handled) + 1
          /\ DOMAIN handled' = 1 .. (Len(handled) + 1)
          /\ \A n \in 1 .. Len(handled) : handled'[n] = handled[n]
          /\ handled'[Len(handled) + 1] = id
      BY <2>2, <2>8, <3>1
    <3>3. seen' \subseteq 1 .. emitted' /\ lastEventId' \in 0 .. emitted'
      BY <1>1, <2>2, <2>4, <2>8 DEF EventStateTypes
    <3>4. EventStateTypes'
      BY <1>1, <2>4, <2>6, <3>2, <3>3 DEF EventStateTypes
    <3>5. IsFiniteSet(seen) /\ IsFiniteSet(seen \cup {id}) /\ IsFiniteSet({id})
      BY <1>1, FS_AddElement, FS_Singleton DEF Memory
    <3>6. IsFiniteSet(seen')
      BY <2>8, <3>5
    <3>7. ASSUME Len(handled') <= SeenLimit
          PROVE  /\ Cardinality(seen') = Len(handled')
                 /\ \A n \in DOMAIN handled' : handled'[n] \in seen'
                 /\ \A m, n \in DOMAIN handled' : handled'[m] = handled'[n] => m = n
      <4>1. /\ Cardinality(seen) = Len(handled)
            /\ \A n \in DOMAIN handled : handled[n] \in seen
            /\ \A m, n \in DOMAIN handled : handled[m] = handled[n] => m = n
        BY <1>1, <3>1, <3>2, <3>7, EventsAssumption DEF Memory
      <4>2. seen' = seen \cup {id}
        BY <2>8, <3>1, <3>2, <3>7, <4>1, EventsAssumption
      <4>3. Cardinality(seen') = Len(handled')
        <5>1. Cardinality(seen \cup {id}) = Cardinality(seen) + 1
          BY <2>8, <3>5, FS_AddElement
        <5> QED
          BY <3>2, <4>1, <4>2, <5>1
      <4>4. \A n \in 1 .. (Len(handled) + 1) : n \in 1 .. Len(handled) \/ n = Len(handled) + 1
        BY <3>1
      <4>5. \A n \in 1 .. Len(handled) : handled'[n] # id
        BY <2>8, <3>1, <3>2, <4>1
      <4> QED
        BY <3>1, <3>2, <4>1, <4>2, <4>3, <4>4, <4>5
    <3> QED
      BY <3>4, <3>6, <3>7 DEF EventsInv, Memory
  <2> QED
    BY <2>5, <2>7, <2>8
<1>11. CASE UNCHANGED eventVars
  BY <1>1, <1>2, <1>11 DEF eventVars, EventStateTypes
<1> QED
  BY <1>4, <1>5, <1>6, <1>7, <1>8, <1>9, <1>10, <1>11 DEF EventsNext

\* However many streams overlap and wherever each resumes: while the memory has not been
\* cut, the page is handed no event twice.
THEOREM EventsOnce == EventsSpec => []HandledOnce
<1>1. EventsInv => HandledOnce
  BY DEF EventsInv, Memory, HandledOnce
<1> QED
  BY <1>1, EventsInitHolds, EventsStep, PTL DEF EventsSpec

(***************************************************************************)
(* The timeline: orders                                                    *)
(***************************************************************************)
\* Those below[i] come before i, and everything stands in one order.
OneOrder(S, below) ==
    /\ below \in [S -> SUBSET S]
    /\ \A i \in S : i \notin below[i]
    /\ \A i, j \in S : i = j \/ i \in below[j] \/ j \in below[i]
    /\ \A i, j, k \in S : i \in below[j] /\ j \in below[k] => i \in below[k]

\* What is ranked by the number of those before it has the numbers from one as ranks.
Ranked(S, below, rank, n) ==
    /\ n \in Nat
    /\ rank \in [S -> 1..n]
    /\ \A i, j \in S : i \in below[j] <=> rank[i] < rank[j]
    /\ \A i, j \in S : rank[i] = rank[j] => i = j
    /\ \A m \in 1..n : \E i \in S : rank[i] = m

\* In a finite order of everything, the number of those before, plus one, numbers the set from one on.
LEMMA RanksOf ==
    ASSUME NEW S, IsFiniteSet(S), NEW below, OneOrder(S, below),
           NEW rank, rank = [i \in S |-> Cardinality(below[i]) + 1],
           NEW n, n = Cardinality(S)
    PROVE  Ranked(S, below, rank, n)
<1>1. n \in Nat  BY FS_CardinalityType
<1>2. ASSUME NEW i \in S PROVE /\ IsFiniteSet(below[i]) /\ Cardinality(below[i]) \in Nat
                               /\ IsFiniteSet(below[i] \cup {i})
                               /\ Cardinality(below[i] \cup {i}) = Cardinality(below[i]) + 1
  <2>1. below[i] \in SUBSET S /\ i \notin below[i]  BY DEF OneOrder
  <2>2. IsFiniteSet(below[i])  BY <2>1, FS_Subset
  <2> QED  BY <2>1, <2>2, FS_AddElement, FS_CardinalityType
<1>3. ASSUME NEW i \in S PROVE rank[i] = Cardinality(below[i]) + 1  OBVIOUS
<1>4. ASSUME NEW i \in S PROVE rank[i] \in 1..n
  <2>1. below[i] \cup {i} \in SUBSET S  BY DEF OneOrder
  <2>2. Cardinality(below[i] \cup {i}) <= n  BY <2>1, FS_Subset
  <2> QED  BY <1>1, <1>2, <1>3, <2>2
<1>5. ASSUME NEW i \in S, NEW j \in S, i \in below[j] PROVE rank[i] < rank[j]
  <2>1. below[i] \cup {i} \in SUBSET below[j]  BY <1>5 DEF OneOrder
  <2>2. Cardinality(below[i] \cup {i}) <= Cardinality(below[j])  BY <2>1, <1>2, FS_Subset
  <2>3. Cardinality(below[i]) + 1 <= Cardinality(below[j])  BY <1>2, <2>2
  <2>4. Cardinality(below[i]) \in Nat /\ Cardinality(below[j]) \in Nat  BY <1>2
  <2>5. rank[i] = Cardinality(below[i]) + 1 /\ rank[j] = Cardinality(below[j]) + 1  BY <1>3
  <2> QED  BY <2>3, <2>4, <2>5
<1>6. rank \in [S -> 1..n]  BY <1>4
<1>7. ASSUME NEW i \in S, NEW j \in S
      PROVE (i \in below[j] <=> rank[i] < rank[j]) /\ (rank[i] = rank[j] => i = j)
  <2>1. rank[i] \in Int /\ rank[j] \in Int  BY <1>1, <1>4
  <2>2. CASE i \in below[j]  BY <2>2, <1>5, <2>1
  <2>3. CASE j \in below[i] /\ i \notin below[j]  BY <2>3, <1>5, <2>1
  <2>4. CASE i = j  BY <2>4, <2>1 DEF OneOrder
  <2> QED  BY <2>2, <2>3, <2>4 DEF OneOrder
<1>8. IsFiniteSet(1..n) /\ Cardinality(1..n) = n
  <2>1. 1 \in Int /\ n \in Int  BY <1>1
  <2>2. IsFiniteSet(1..n) /\ Cardinality(1..n) = IF 1 > n THEN 0 ELSE n - 1 + 1  BY <2>1, FS_Interval
  <2> QED  BY <2>2, <1>1
<1>9. ASSUME NEW m \in 1..n, \A i \in S : rank[i] # m PROVE FALSE
  <2> DEFINE places == 1..n  others == places \ {m}
  <2>1. rank \in [S -> others]  BY <1>6, <1>9
  <2>2. IsFiniteSet(places) /\ Cardinality(places) = n /\ m \in places  BY <1>8
  <2> HIDE DEF places
  <2>3. IsFiniteSet(others) /\ Cardinality(others) = n - 1  BY <2>2, FS_RemoveElement
  <2> HIDE DEF others
  <2>4. Cardinality(others) < Cardinality(S)  BY <2>3, <1>1
  <2>5. IsFiniteSet(S)  OBVIOUS
  <2>6. PICK i, j \in S : i # j /\ rank[i] = rank[j]  BY ONLY <2>1, <2>3, <2>4, <2>5, FS_PigeonHole
  <2> QED  BY <2>6, <1>7
<1>12. \A m \in 1..n : \E i \in S : rank[i] = m  BY <1>9
<1> QED  BY <1>1, <1>6, <1>7, <1>12 DEF Ranked

\* A set of numbers has a least member and a greatest.
LEMMA LeastOf ==
    ASSUME NEW n \in Nat, NEW S \in SUBSET (1..n), S # {}
    PROVE  \E m \in S : \A k \in S : m <= k
<1> DEFINE below == [i \in S |-> {j \in S : j < i}]
           rank == [i \in S |-> Cardinality(below[i]) + 1]
           c == Cardinality(S)
<1>1. \A i \in S : i \in Int  OBVIOUS
<1>2. OneOrder(S, below)
  <2>1. below \in [S -> SUBSET S] /\ \A i, j \in S : i \in below[j] <=> i < j  OBVIOUS
  <2> HIDE DEF below
  <2> QED  BY <1>1, <2>1 DEF OneOrder
<1>3. IsFiniteSet(S)
  <2>1. 1 \in Int /\ n \in Int  OBVIOUS
  <2>2. IsFiniteSet(1..n)  BY <2>1, FS_Interval
  <2> QED  BY <2>2, FS_Subset
<1>4. \A i, j \in S : i \in below[j] <=> i < j  OBVIOUS
<1> HIDE DEF below
<1>10. rank = [i \in S |-> Cardinality(below[i]) + 1] /\ c = Cardinality(S)  OBVIOUS
<1> HIDE DEF rank, c
<1>5. /\ c \in Nat
      /\ rank \in [S -> 1..c]
      /\ \A i, j \in S : i \in below[j] <=> rank[i] < rank[j]
      /\ \A k \in 1..c : \E i \in S : rank[i] = k
  <2>1. Ranked(S, below, rank, c)  BY <1>2, <1>3, <1>10, RanksOf
  <2> QED  BY <2>1 DEF Ranked
<1>6. PICK i \in S : TRUE  OBVIOUS
<1>7. 1 \in 1..c
  <2>1. rank[i] \in 1..c  BY <1>5
  <2> QED  BY <1>5, <2>1
<1>8. PICK m \in S : rank[m] = 1  BY <1>5, <1>7
<1>9. ASSUME NEW k \in S PROVE m <= k
  <2>1. rank[k] \in 1..c  BY <1>5
  <2>2. ~(rank[k] < rank[m])  BY <1>5, <1>8, <2>1
  <2>3. ~(k < m)  BY <1>4, <1>5, <2>2
  <2> QED  BY <1>1, <2>3
<1> QED  BY <1>9

\* A nonempty set of numbers up to n has a greatest.
LEMMA GreatestOf ==
    ASSUME NEW n \in Nat, NEW S \in SUBSET (1..n), S # {}
    PROVE  \E m \in S : \A k \in S : k <= m
<1> DEFINE T == {n + 1 - k : k \in S}
<1>1. T \in SUBSET (1..n) /\ T # {}
  <2>1. \A k \in S : k \in 1..n  OBVIOUS
  <2>2. \A k \in S : n + 1 - k \in 1..n  BY <2>1
  <2>3. PICK k \in S : TRUE  OBVIOUS
  <2> QED  BY <2>2, <2>3
<1> HIDE DEF T
<1>2. PICK m \in T : \A k \in T : m <= k  BY <1>1, LeastOf
<1>3. PICK g \in S : m = n + 1 - g  BY <1>2 DEF T
<1>4. ASSUME NEW k \in S PROVE k <= g
  <2>1. n + 1 - k \in T  BY DEF T
  <2>2. m <= n + 1 - k  BY <1>2, <2>1
  <2>3. k \in Int /\ g \in Int  OBVIOUS
  <2> QED  BY <1>3, <2>2, <2>3
<1> QED  BY <1>4

\* AtRank is what it seems to be.
LEMMA AtRankIs ==
    ASSUME NEW n \in Nat, NEW S, NEW rank, DOMAIN rank = S, Cardinality(S) = n
    PROVE  AtRank(rank) = [m \in 1..n |-> CHOOSE i \in S : rank[i] = m]
<1> DEFINE order == [m \in 1..n |-> CHOOSE i \in S : rank[i] = m]
           V == {order[m] : m \in 1..n}
<1>1. AtRank(rank) = order \o <<>>  BY DEF AtRank
<1>2. DOMAIN order = 1..n /\ \A m \in 1..n : order[m] \in V  OBVIOUS
<1>3. order = [m \in 1..n |-> order[m]]  OBVIOUS
<1> HIDE DEF order, V
<1>4. order \in Seq(V)  BY <1>2, <1>3
<1>5. order \o <<>> = order  BY <1>4, ConcatEmptySeq
<1> QED  BY <1>1, <1>5 DEF order

\* And AtRank has everything at its rank.
Ranks(S, below) == [i \in S |-> Cardinality(below[i]) + 1]
AllInOrder(S, below) ==
    /\ AtRank(Ranks(S, below)) \in [1..Cardinality(S) -> S]
    /\ \A k, l \in 1..Cardinality(S) :
          k < l <=> AtRank(Ranks(S, below))[k] \in below[AtRank(Ranks(S, below))[l]]
    /\ \A i \in S : /\ Ranks(S, below)[i] \in 1..Cardinality(S)
                    /\ AtRank(Ranks(S, below))[Ranks(S, below)[i]] = i
    /\ {Ranks(S, below)[i] : i \in S} = 1..Cardinality(S)

\* What AtRank makes of such an order is a sequence of its elements, each once, none before one it follows.
LEMMA AtRankOrders ==
    ASSUME NEW S, IsFiniteSet(S), NEW below, OneOrder(S, below)
    PROVE  AllInOrder(S, below)
<1> DEFINE rank == Ranks(S, below)
           n == Cardinality(S)
           order == AtRank(rank)
<1>0. rank = [i \in S |-> Cardinality(below[i]) + 1]  BY DEF Ranks
<1> HIDE DEF rank, n
<1>1. /\ n \in Nat
      /\ rank \in [S -> 1..n]
      /\ \A i, j \in S : i \in below[j] <=> rank[i] < rank[j]
      /\ \A i, j \in S : rank[i] = rank[j] => i = j
      /\ \A m \in 1..n : \E i \in S : rank[i] = m
  <2>1. n = Cardinality(S)  BY DEF n
  <2>2. Ranked(S, below, rank, n)  BY <1>0, <2>1, RanksOf
  <2> QED  BY <2>2 DEF Ranked
<1>2. DOMAIN rank = S  BY <1>1
<1>3. order = [m \in 1..n |-> CHOOSE i \in S : rank[i] = m]
  <2>1. n = Cardinality(S)  BY DEF n
  <2> QED  BY <1>1, <1>2, <2>1, AtRankIs
<1> HIDE DEF order
<1>4. ASSUME NEW m \in 1..n PROVE order[m] \in S /\ rank[order[m]] = m
  <2>1. \E i \in S : rank[i] = m  BY <1>1
  <2>2. order[m] = CHOOSE i \in S : rank[i] = m  BY <1>3
  <2> QED  BY <2>1, <2>2, Zenon
<1>5. order \in [1..n -> S]  BY <1>3, <1>4
<1>6. \A k, l \in 1..n : k < l <=> order[k] \in below[order[l]]  BY <1>1, <1>4
<1>7. \A i \in S : rank[i] \in 1..n /\ order[rank[i]] = i  BY <1>1, <1>4
<1>8. {rank[i] : i \in S} = 1..n  BY <1>1
<1> QED  BY <1>5, <1>6, <1>7, <1>8 DEF AllInOrder, rank, order, n

\* The numbers of a set, each once, from the least on.
Rising(S, order, m) ==
    /\ m \in Nat
    /\ order \in [1..m -> S]
    /\ \A k, l \in 1..m : k < l <=> order[k] < order[l]
    /\ \A i \in S : \E k \in 1..m : order[k] = i

LEMMA AscendingIs ==
    ASSUME NEW n \in Nat, NEW S \in SUBSET (1..n)
    PROVE  Rising(S, Ascending(S), Cardinality(S))
<1> DEFINE below == [k \in S |-> {j \in S : j < k}]
           m == Cardinality(S)
           order == Ascending(S)
           rank == Ranks(S, below)
<1>1. order = AtRank(rank)
  <2>1. [k \in S |-> Cardinality({j \in S : j < k}) + 1] = rank  BY DEF Ranks
  <2> QED  BY <2>1 DEF Ascending
<1>2. \A k, j \in S : j \in below[k] <=> j < k  OBVIOUS
<1>3. below \in [S -> SUBSET S]  OBVIOUS
<1> HIDE DEF below, order
<1>4. OneOrder(S, below)
  <2>1. \A k \in S : k \in Int  OBVIOUS
  <2> QED  BY <1>2, <1>3, <2>1 DEF OneOrder
<1>5. IsFiniteSet(S) /\ m \in Nat
  <2>1. 1 \in Int /\ n \in Int  OBVIOUS
  <2>2. IsFiniteSet(1..n)  BY <2>1, FS_Interval
  <2> QED  BY <2>2, FS_Subset, FS_CardinalityType
<1>6. AllInOrder(S, below)  BY <1>4, <1>5, AtRankOrders
<1>7. \A k \in S : rank[k] \in 1..m /\ order[rank[k]] = k  BY <1>1, <1>6 DEF AllInOrder
<1>8. order \in [1..m -> S] /\ \A k, l \in 1..m : k < l <=> order[k] \in below[order[l]]
  BY <1>1, <1>6 DEF AllInOrder
<1> HIDE DEF rank, m
<1>9. \A k, l \in 1..m : k < l <=> order[k] < order[l]  BY <1>2, <1>8
<1>10. \A i \in S : \E k \in 1..m : order[k] = i  BY <1>7
<1>11. Rising(S, order, m)  BY <1>5, <1>8, <1>9, <1>10 DEF Rising
<1> QED  BY <1>11 DEF order, m

(***************************************************************************)
(* The store                                                               *)
(***************************************************************************)
LEMMA EventTypesAre ==
    /\ EventTypes = {"alert.enriched", "workflow.selected", "context.collected", "recommendation.generated",
                     "approval.recorded", "remediation.executed", "closure.completed"}
    /\ Len(UpstreamTypes) = 4
    /\ \A n \in 1..4 : UpstreamTypes[n] \in EventTypes
<1>1. DOMAIN UpstreamTypes = 1..4 /\ Len(UpstreamTypes) = 4  BY DEF UpstreamTypes
<1>2. {UpstreamTypes[i] : i \in 1..4}
         = {UpstreamTypes[1], UpstreamTypes[2], UpstreamTypes[3], UpstreamTypes[4]}  OBVIOUS
<1>3. /\ UpstreamTypes[1] = "alert.enriched" /\ UpstreamTypes[2] = "workflow.selected"
      /\ UpstreamTypes[3] = "context.collected" /\ UpstreamTypes[4] = "recommendation.generated"
  BY DEF UpstreamTypes
<1> QED  BY <1>1, <1>2, <1>3 DEF EventTypes

Statuses == {"investigating", "awaiting_approval", "remediating", "validating", "failed", "closed"}
FailingTypes == {"approval.recorded", "remediation.executed", "closure.completed"}
MayFail(type, status) == status = "failed" => type \in FailingTypes
StoredEvents == {e \in [type : EventTypes, at : Int, status : Statuses] : MayFail(e.type, e.status)}
Actions == {a \in [status : {"", "succeeded", "failed", "skipped"}, error : SUBSET Words,
                   says : BOOLEAN, at : Int \cup {NoTime}] : a.status # "failed" => a.error = {}}
Stores == [trace : Seq(StoredEvents), reason : SUBSET Words, matches : BOOLEAN,
           decided : {"none", "approved", "rejected", "acted"}, action : Actions,
           status : {"open", "closed", "failed"}, runs : Nat]
TimelineInv == store \in Stores /\ clocks \in Int

\* The services have stored nothing.
LEMMA TimelineBegins == TimelineInit => TimelineInv
<1> SUFFICES ASSUME TimelineInit PROVE TimelineInv  OBVIOUS
<1>1. clocks \in Int  BY DEF TimelineInit
<1>2. NoAction \in Actions  BY DEF NoAction, Actions
<1>3. <<>> \in Seq(StoredEvents)  OBVIOUS
<1>4. Empty \in Stores  BY <1>2, <1>3 DEF Empty, Stores
<1> QED  BY <1>1, <1>4 DEF TimelineInit, TimelineInv

\* An event that a service may store leaves a trace of such events.
LEMMA Stored ==
    ASSUME TimelineInv, NEW type \in EventTypes, NEW status \in Statuses, MayFail(type, status)
    PROVE  With(type, status) \in Seq(StoredEvents) /\ Now \in Int
<1>1. Now \in Int
  <2>1. Len(store.trace) \in Int  BY LenProperties DEF TimelineInv, Stores
  <2>2. clocks \in Int  BY DEF TimelineInv
  <2> QED  BY <2>1, <2>2 DEF Now, Landed
<1>2. [type |-> type, at |-> Now, status |-> status] \in StoredEvents  BY <1>1 DEF StoredEvents
<1>3. store.trace \in Seq(StoredEvents)  BY DEF TimelineInv, Stores
<1> QED  BY <1>1, <1>2, <1>3, AppendProperties DEF With

\* Each service stores what it may; every other step leaves the store as it is.
LEMMA TimelineStep == TimelineInv /\ [TimelineNext]_timelineVars => TimelineInv'
<1> SUFFICES ASSUME TimelineInv, [TimelineNext]_timelineVars PROVE TimelineInv'  OBVIOUS
<1> USE TimelineAssumption
<1>0. store \in Stores /\ clocks \in Int  BY DEF TimelineInv
<1>1. CASE Upstream /\ UNCHANGED clocks
  <2> DEFINE n == Len(store.trace) + 1
             status == IF n = 4 THEN "awaiting_approval" ELSE "investigating"
  <2>1. PICK reason \in Reasons, matches \in BOOLEAN :
           store' = [store EXCEPT !.trace = With(UpstreamTypes[n], status), !.reason = reason, !.matches = matches]
    BY <1>1 DEF Upstream
  <2>2. n \in 1..4  BY <1>0, <1>1, EventTypesAre, LenProperties DEF Upstream, Stores
  <2>3. UpstreamTypes[n] \in EventTypes /\ status \in Statuses /\ status # "failed"
    BY <2>2, EventTypesAre DEF Statuses
  <2> HIDE DEF n, status
  <2>4. With(UpstreamTypes[n], status) \in Seq(StoredEvents)  BY <2>3, Stored DEF MayFail
  <2> QED  BY <1>0, <1>1, <2>1, <2>4 DEF TimelineInv, Stores
<1>2. CASE \E decision \in {"approved", "rejected"} : Decide(decision) /\ UNCHANGED clocks
  <2>1. PICK decision \in {"approved", "rejected"} : Decide(decision) /\ UNCHANGED clocks  BY <1>2
  <2> DEFINE status == IF decision = "approved" THEN "remediating" ELSE "failed"
  <2>2. "approval.recorded" \in EventTypes /\ status \in Statuses /\ MayFail("approval.recorded", status)
    BY EventTypesAre DEF Statuses, MayFail, FailingTypes
  <2>3. With("approval.recorded", status) \in Seq(StoredEvents)  BY <2>2, Stored
  <2>4. store' = [store EXCEPT !.decided = decision, !.trace = With("approval.recorded", status)]
    BY <2>1 DEF Decide
  <2> QED  BY <1>0, <2>1, <2>3, <2>4 DEF TimelineInv, Stores
<1>3. CASE \E status \in {"succeeded", "failed", "skipped"}, error \in Reasons, says \in BOOLEAN :
             Execute(status, error, says) /\ UNCHANGED clocks
  <2>1. PICK status \in {"succeeded", "failed", "skipped"}, error \in Reasons, says \in BOOLEAN :
             Execute(status, error, says) /\ UNCHANGED clocks  BY <1>3
  <2> DEFINE next == CASE status = "succeeded" -> "validating"
                       [] status = "failed" -> "failed"
                       [] status = "skipped" -> "remediating"
  <2>2. /\ "remediation.executed" \in EventTypes /\ next \in Statuses
        /\ MayFail("remediation.executed", next)
    BY EventTypesAre DEF Statuses, MayFail, FailingTypes
  <2>3. store' = [store EXCEPT !.runs = @ + 1, !.decided = "acted", !.action = Acted(status, error, says),
                               !.trace = With("remediation.executed", next)]
    BY <2>1 DEF Execute
  <2> HIDE DEF next
  <2>4. With("remediation.executed", next) \in Seq(StoredEvents) /\ Now \in Int  BY <2>2, Stored
  <2>5. Acted(status, error, says) \in Actions
    <3>1. (status # "failed" => error = {}) /\ error \in SUBSET Words  BY <2>1 DEF Execute
    <3> QED  BY <2>4, <3>1 DEF Acted, Actions
  <2>6. store.runs \in Nat /\ store.runs + 1 \in Nat  BY <1>0 DEF Stores
  <2>7. store' = [store EXCEPT !.runs = store.runs + 1, !.decided = "acted", !.action = Acted(status, error, says),
                               !.trace = With("remediation.executed", next)]
    BY <2>3
  <2> QED  BY <1>0, <2>1, <2>7, <2>4, <2>5, <2>6 DEF TimelineInv, Stores
<1>4. CASE Block /\ UNCHANGED clocks
  <2>1. Now \in Int  BY EventTypesAre, Stored DEF Statuses, MayFail, FailingTypes
  <2>2. Acted("skipped", {}, TRUE) \in Actions  BY <2>1 DEF Acted, Actions
  <2>3. store.runs \in Nat /\ store.runs + 1 \in Nat  BY <1>0 DEF Stores
  <2>4. store' = [store EXCEPT !.runs = store.runs + 1, !.decided = "acted", !.action = Acted("skipped", {}, TRUE)]
    BY <1>4 DEF Block
  <2> QED  BY <1>0, <1>4, <2>2, <2>3, <2>4 DEF TimelineInv, Stores
<1>5. CASE Close /\ UNCHANGED clocks
  <2> DEFINE status == IF store.action.status = "succeeded" THEN "closed" ELSE "failed"
  <2>1. "closure.completed" \in EventTypes /\ status \in Statuses /\ MayFail("closure.completed", status)
    BY EventTypesAre DEF Statuses, MayFail, FailingTypes
  <2>2. With("closure.completed", status) \in Seq(StoredEvents)  BY <2>1, Stored
  <2>3. store' = [store EXCEPT !.decided = "none", !.status = status, !.trace = With("closure.completed", status)]
    BY <1>5 DEF Close
  <2> QED  BY <1>0, <1>5, <2>2, <2>3 DEF TimelineInv, Stores
<1>6. CASE UNCHANGED timelineVars  BY <1>6 DEF TimelineInv, timelineVars
<1> QED  BY <1>1, <1>2, <1>3, <1>4, <1>5, <1>6 DEF TimelineNext

(***************************************************************************)
(* The events the page keeps                                               *)
(***************************************************************************)
KeptEvents == {e \in [type : EventTypes, at : Int, status : Statuses, nth : Nat \ {0}] : MayFail(e.type, e.status)}
KeptTraces == {t \in Seq(KeptEvents) : \A p, q \in DOMAIN t : t[p].nth = t[q].nth => p = q}

\* The turns of the stored events number them by their times, and equal times by their places.
LEMMA TurnsOf ==
    ASSUME NEW trace \in Seq(StoredEvents), NEW order, order = AtRank(TurnOf(trace))
    PROVE  /\ order \in [1..Len(trace) -> 1..Len(trace)]
           /\ \A k, l \in 1..Len(trace) : k < l <=> Before(trace, order[k], order[l])
           /\ \A i \in 1..Len(trace) : \E k \in 1..Len(trace) : order[k] = i
<1> DEFINE n == Len(trace)
           S == DOMAIN trace
           below == [i \in S |-> {j \in S : Before(trace, j, i)}]
<1>1. n \in Nat /\ S = 1..n  BY LenProperties
<1>2. \A i \in S : trace[i].at \in Int /\ i \in Int
  <2> SUFFICES ASSUME NEW i \in S PROVE trace[i].at \in Int /\ i \in Int  OBVIOUS
  <2>1. trace[i] \in StoredEvents  BY ElementOfSeq, <1>1
  <2> QED  BY <1>1, <2>1 DEF StoredEvents
<1>3. OneOrder(S, below)
  <2>1. below \in [S -> SUBSET S]  OBVIOUS
  <2>2. \A i, j \in S : i \in below[j] <=> Before(trace, i, j)  OBVIOUS
  <2> HIDE DEF below, S
  <2>3. \A i \in S : ~Before(trace, i, i)  BY <1>2 DEF Before
  <2>4. \A i, j \in S : i = j \/ Before(trace, i, j) \/ Before(trace, j, i)  BY <1>2 DEF Before
  <2>5. \A i, j, k \in S : Before(trace, i, j) /\ Before(trace, j, k) => Before(trace, i, k)  BY <1>2 DEF Before
  <2> QED  BY <2>1, <2>2, <2>3, <2>4, <2>5 DEF OneOrder
<1>4. TurnOf(trace) = [i \in S |-> Cardinality(below[i]) + 1]  BY DEF TurnOf
<1>5. IsFiniteSet(S) /\ Cardinality(S) = n
  <2>1. 1 \in Int /\ n \in Int  BY <1>1
  <2>2. IsFiniteSet(1..n) /\ Cardinality(1..n) = IF 1 > n THEN 0 ELSE n - 1 + 1  BY <2>1, FS_Interval
  <2> QED  BY <2>2, <1>1
<1>6. \A i, j \in S : i \in below[j] <=> Before(trace, i, j)  OBVIOUS
<1> HIDE DEF S, below, n
<1>7. AllInOrder(S, below)  BY <1>3, <1>5, AtRankOrders
<1>8. TurnOf(trace) = Ranks(S, below) /\ Cardinality(S) = n  BY <1>4, <1>5 DEF Ranks
<1>9. /\ order \in [1..n -> S]
      /\ \A k, l \in 1..n : k < l <=> order[k] \in below[order[l]]
      /\ \A i \in S : \E k \in 1..n : order[k] = i
  <2> DEFINE rank == TurnOf(trace)
  <2>1. order = AtRank(rank)  OBVIOUS
  <2> HIDE DEF rank
  <2>2. \A i \in S : rank[i] \in 1..n /\ order[rank[i]] = i  BY <1>7, <1>8, <2>1 DEF AllInOrder, rank
  <2> QED  BY <1>7, <1>8, <2>1, <2>2 DEF AllInOrder, rank
<1>10. \A k, l \in 1..n : k < l <=> Before(trace, order[k], order[l])  BY <1>6, <1>9
<1> QED  BY <1>1, <1>9, <1>10 DEF n

\* They are the latest, in their order.
LEMMA Kept ==
    ASSUME store \in Stores, NEW trace, trace = EventTrace(store)
    PROVE  trace \in KeptTraces /\ KeepsTheLatest(trace)
<1> USE TimelineAssumption
<1> DEFINE all == store.trace
           n == Len(all)
           order == AtRank(TurnOf(all))
           cut == IF n > TraceLimit THEN n - TraceLimit ELSE 0
           Event(i) == [type |-> all[i].type, at |-> all[i].at, status |-> all[i].status, nth |-> i]
<1>1. all \in Seq(StoredEvents)  BY DEF Stores
<1>2. n \in Nat /\ DOMAIN all = 1..n  BY <1>1, LenProperties
<1>3. trace = [k \in 1..(n - cut) |-> Event(order[k + cut])]  BY DEF EventTrace
<1>4. /\ order \in [1..n -> 1..n]
      /\ \A k, l \in 1..n : k < l <=> Before(all, order[k], order[l])
      /\ \A i \in 1..n : \E k \in 1..n : order[k] = i
  BY <1>1, TurnsOf
<1>5. cut \in Nat /\ cut <= n /\ (n - cut = TraceLimit \/ cut = 0)  BY <1>2
<1>6. \A i \in 1..n : Event(i) \in KeptEvents
  <2> SUFFICES ASSUME NEW i \in 1..n PROVE Event(i) \in KeptEvents  OBVIOUS
  <2>1. all[i] \in StoredEvents  BY <1>1, <1>2, ElementOfSeq
  <2>2. i \in Nat \ {0}  BY <1>2
  <2> QED  BY <2>1, <2>2 DEF StoredEvents, KeptEvents
<1>7. \A i : Event(i).nth = i  OBVIOUS
<1> HIDE DEF all, n, order, cut, Event
<1>8. \A k \in 1..(n - cut) : k + cut \in 1..n  BY <1>2, <1>5
<1>9. n - cut \in Nat  BY <1>2, <1>5
<1>10. Len(trace) = n - cut /\ DOMAIN trace = 1..(n - cut)  BY <1>3, <1>9
<1>11. \A k \in 1..(n - cut) : /\ trace[k] = Event(order[k + cut])
                               /\ trace[k].nth = order[k + cut] /\ order[k + cut] \in 1..n
  BY <1>3, <1>4, <1>7, <1>8
<1>12. trace \in Seq(KeptEvents)
  <2>1. trace \in [1..(n - cut) -> KeptEvents]
    <3>1. \A k \in 1..(n - cut) : Event(order[k + cut]) \in KeptEvents  BY <1>4, <1>6, <1>8
    <3> QED  BY <1>3, <3>1
  <2> QED  BY <1>9, <2>1
<1>13. \A k, l \in 1..(n - cut) : k < l => Before(all, trace[k].nth, trace[l].nth)
  <2> SUFFICES ASSUME NEW k \in 1..(n - cut), NEW l \in 1..(n - cut), k < l
               PROVE  Before(all, order[k + cut], order[l + cut])
    BY <1>11
  <2>1. k + cut < l + cut  BY <1>5
  <2> QED  BY <1>4, <1>8, <2>1
<1>14. \A i, j \in 1..n : ~(Before(all, i, j) /\ Before(all, j, i))
  <2> SUFFICES ASSUME NEW i \in 1..n, NEW j \in 1..n PROVE ~(Before(all, i, j) /\ Before(all, j, i))  OBVIOUS
  <2>1. all[i] \in StoredEvents /\ all[j] \in StoredEvents  BY <1>1, <1>2, ElementOfSeq
  <2>2. all[i].at \in Int /\ all[j].at \in Int /\ i \in Int /\ j \in Int  BY <1>2, <2>1 DEF StoredEvents
  <2> QED  BY <2>2 DEF Before
<1>15. \A p, q \in DOMAIN trace : trace[p].nth = trace[q].nth => p = q
  <2> SUFFICES ASSUME NEW p \in 1..(n - cut), NEW q \in 1..(n - cut), trace[p].nth = trace[q].nth, p # q
               PROVE  FALSE
    BY <1>10
  <2>1. p < q \/ q < p  BY <1>9
  <2>2. Before(all, trace[p].nth, trace[p].nth)  BY <1>13, <2>1
  <2>3. trace[p].nth \in 1..n  BY <1>11
  <2> QED  BY <1>14, <2>2, <2>3
<1>16. trace \in KeptTraces  BY <1>12, <1>15 DEF KeptTraces
<1> DEFINE kept == {trace[p].nth : p \in DOMAIN trace}
<1>17. kept \subseteq 1..n  BY <1>10, <1>11
<1>18. cut = 0 => kept = 1..n
  <2> SUFFICES ASSUME cut = 0, NEW i \in 1..n PROVE i \in kept  BY <1>17
  <2>1. PICK k \in 1..n : order[k] = i  BY <1>4
  <2>2. k \in 1..(n - cut) /\ k + cut = k  BY <1>2
  <2> QED  BY <1>10, <1>11, <2>1, <2>2
<1>19. \A i \in kept, k \in (1..n) \ kept : Before(all, k, i)
  <2> SUFFICES ASSUME NEW i \in kept, NEW k \in (1..n) \ kept PROVE Before(all, k, i)  OBVIOUS
  <2>1. PICK p \in 1..(n - cut) : i = order[p + cut]  BY <1>10, <1>11
  <2>2. PICK m \in 1..n : order[m] = k  BY <1>4
  <2>3. m <= cut
    <3> SUFFICES ASSUME m > cut PROVE FALSE  BY <1>2, <1>5
    <3>1. m - cut \in 1..(n - cut) /\ (m - cut) + cut = m  BY <1>2, <1>5
    <3>2. trace[m - cut].nth = k  BY <1>11, <2>2, <3>1
    <3> QED  BY <1>10, <3>1, <3>2
  <2>4. m < p + cut /\ p + cut \in 1..n  BY <1>2, <1>5, <2>3
  <2> QED  BY <1>4, <2>1, <2>2, <2>4
<1>20. KeepsTheLatest(trace)
  <2> HIDE DEF kept
  <2>1. Len(trace) = TraceLimit \/ kept = 1..n  BY <1>5, <1>10, <1>18
  <2>2. DOMAIN store.trace = 1..n  BY <1>2 DEF all
  <2>3. \A p, q \in DOMAIN trace : p < q => Before(store.trace, trace[p].nth, trace[q].nth)  BY <1>10, <1>13 DEF all
  <2>4. \A i \in kept, k \in (1..n) \ kept : Before(store.trace, k, i)  BY <1>19 DEF all
  <2> QED  BY <1>17, <2>1, <2>2, <2>3, <2>4 DEF KeepsTheLatest, kept
<1> QED  BY <1>16, <1>20

(***************************************************************************)
(* The rows of a document                                                  *)
(***************************************************************************)
Times == Int \cup {NoTime}

\* The first time of a type of events is a number, or there is none.
LEMMA FirstTimes ==
    ASSUME NEW trace \in KeptTraces, NEW types
    PROVE  firstTraceTimestamp(trace, types) \in Times
<1> DEFINE hits == {i \in DOMAIN trace : trace[i].type \in types}
           first == CHOOSE i \in hits : \A j \in hits : i <= j
<1>1. trace \in Seq(KeptEvents)  BY DEF KeptTraces
<1>2. CASE hits = {}  BY <1>2 DEF firstTraceTimestamp, Times
<1>3. CASE hits # {}
  <2>1. DOMAIN trace = 1..Len(trace) /\ Len(trace) \in Nat  BY <1>1, LenProperties
  <2>2. hits \in SUBSET (1..Len(trace))  BY <2>1
  <2>3. \E i \in hits : \A j \in hits : i <= j  BY <1>3, <2>1, <2>2, LeastOf
  <2>4. first \in hits
    <3> HIDE DEF hits
    <3> QED  BY <2>3, Zenon
  <2>5. first \in 1..Len(trace)  BY <1>1, <2>4, LenProperties
  <2>6. trace[first] \in KeptEvents  BY <1>1, <2>5, ElementOfSeq
  <2>7. firstTraceTimestamp(trace, types) = trace[first].at  BY <1>3 DEF firstTraceTimestamp
  <2> HIDE DEF first
  <2> QED  BY <2>6, <2>7 DEF KeptEvents, Times
<1> QED  BY <1>2, <1>3

\* Every time a flow row takes is a number.
LEMMA TimesAre ==
    ASSUME store \in Stores, NEW t, t = StageTimes(store)
    PROVE  /\ t.landing \in Int /\ t.dedupe \in Int /\ t.config \in Int /\ t.context \in Int
           /\ t.routing \in Int /\ t.recommendation \in Int /\ t.approval \in Int /\ t.remediation \in Int
           /\ t.closure \in Times
<1> DEFINE trace == EventTrace(store)
           At(types) == firstTraceTimestamp(trace, types)
           dedupe == Or(At({"workflow.selected"}), Landed)
           context == Or(At({"context.collected"}), dedupe)
           routing == Or(At({"workflow.selected", "recommendation.generated"}), context)
           recommendation == Or(At({"recommendation.generated"}), routing)
           approval == Or(At({"approval.recorded"}), recommendation)
           remediation == Or(store.action.at, Or(At({"remediation.executed"}), approval))
<1>1. trace \in KeptTraces  BY Kept
<1>2. t = [landing |-> Landed, dedupe |-> dedupe, config |-> dedupe, context |-> context,
           routing |-> routing, recommendation |-> recommendation, approval |-> approval,
           remediation |-> remediation, closure |-> At({"closure.completed"})]
  BY DEF StageTimes
<1>3. \A types : At(types) \in Times  BY <1>1, FirstTimes
<1>4. store.action.at \in Times  BY DEF Stores, Actions, Times
<1>5. \A time \in Times, otherwise \in Int : Or(time, otherwise) \in Int  BY DEF Or, Times
<1>6. Landed \in Int  BY DEF Landed
<1> HIDE DEF At
<1>7. dedupe \in Int  BY <1>3, <1>5, <1>6
<1> HIDE DEF dedupe
<1>8. context \in Int  BY <1>3, <1>5, <1>7
<1> HIDE DEF context
<1>9. routing \in Int  BY <1>3, <1>5, <1>8
<1> HIDE DEF routing
<1>10. recommendation \in Int  BY <1>3, <1>5, <1>9
<1> HIDE DEF recommendation
<1>11. approval \in Int  BY <1>3, <1>5, <1>10
<1> HIDE DEF approval
<1>12. Or(At({"remediation.executed"}), approval) \in Int  BY <1>3, <1>5, <1>11
<1>13. remediation \in Int  BY <1>4, <1>5, <1>12
<1> HIDE DEF remediation
<1> QED  BY <1>2, <1>3, <1>6, <1>7, <1>8, <1>9, <1>10, <1>11, <1>13

\* A row of a stage: it is not one of an event, and only the execution shows an error.
Orders == {10, 20, 30, 40, 50, 60, 70, 80, 85, 90, 100, 110, 120, 130, 140, 150, 160, 170}
MergeStages == {"Context Agent Merged Inputs", "Context Agent Published RCA Context"}
StageNames == {"Alert Landed", "Raw Alert Topic Handoff", "Deduplication", "Enriched Alert Topic Handoff",
                  "Orchestrator Workflow Selection", "Configuration And Connector Lookup",
                  "Orchestration Event Topic Handoff", "RAG Context Retrieval",
                  "Context Merge And Evidence Assembly", "Context Event Topic Handoff",
                  "Embedding And Semantic Search", "Resolution Recommendation Generated",
                  "Resolution Event Topic Handoff", "Human Approval Gate", "Approval Event Topic Handoff",
                  "Remediation Command Execution", "Remediation Event Topic Handoff",
                  "Closure Validation And Incident Update"}
StageRecords == [stage : StageNames, order : Orders, time : Int, seq : {0}, label : {0},
                 words : SUBSET Words, error : BOOLEAN, from : {0}]
StageRows == {r \in StageRecords : timelineRowHasError(r) => r.order = 150 /\ store.action.status = "failed"}

\* A flow row that tells of no failure.
LEMMA StageRow ==
    \A stage \in StageNames, order \in Orders, time \in Int, words \in SUBSET Words :
       Telling(stage, order, time, words, FALSE) \in StageRows
<1> TAKE stage \in StageNames, order \in Orders, time \in Int, words \in SUBSET Words
<1> DEFINE row == Telling(stage, order, time, words, FALSE)
<1>1. row \in StageRecords  BY DEF Telling, StageRecords
<1>2. ~row.error  BY DEF Telling
<1> HIDE DEF row
<1>3. ~timelineRowHasError(row)  BY <1>2, Zenon DEF timelineRowHasError
<1>4. row \in StageRows  BY <1>1, <1>3 DEF StageRows
<1> QED  BY <1>4 DEF row

\* A flow row without words, and one about the bus.
LEMMA PlainRow ==
    \A stage \in StageNames, order \in Orders, time \in Int :
       Row(stage, order, time) \in StageRows /\ BusRow(stage, order, time) \in StageRows
<1> TAKE stage \in StageNames, order \in Orders, time \in Int
<1>1. {} \in SUBSET Words  OBVIOUS
<1>2. Telling(stage, order, time, {}, FALSE) \in StageRows  BY <1>1, StageRow
<1>3. Row(stage, order, time) \in StageRows  BY <1>2 DEF Row
<1> QED  BY <1>3 DEF BusRow

\* Short lists of flow rows are lists of flow rows.
LEMMA StageRowsMade ==
    /\ \A a, b \in StageRows : <<a, b>> \in Seq(StageRows)
    /\ \A a, b, c \in StageRows : <<a, b, c>> \in Seq(StageRows)
    /\ \A a \in StageRows : <<a>> \in Seq(StageRows)
    /\ \A condition \in BOOLEAN, rows \in Seq(StageRows) : If(condition, rows) \in Seq(StageRows)
BY DEF If

\* No stage of the flow is named like an event or like a row of the context agent.
LEMMA NamesOfStages == \A stage \in StageNames : stage \notin EventTypes /\ stage \notin MergeStages
<1>2. ASSUME NEW stage \in StageNames PROVE stage \notin EventTypes
  <2>1. EventTypes = {"alert.enriched", "workflow.selected", "context.collected", "recommendation.generated",
                     "approval.recorded", "remediation.executed", "closure.completed"}  BY EventTypesAre
  <2> QED  BY <2>1 DEF StageNames
<1>3. ASSUME NEW stage \in StageNames PROVE stage \notin MergeStages  BY DEF StageNames, MergeStages
<1> QED  BY <1>2, <1>3

\* Every row the console makes of the stages it knows of is one of them.
LEMMA Synthetic ==
    ASSUME store \in Stores
    PROVE  buildSyntheticFlowRows(store) \in Seq(StageRows)
<1> DEFINE t == StageTimes(store)
<1>0. /\ "Alert Landed" \in StageNames /\ "Raw Alert Topic Handoff" \in StageNames
      /\ "Deduplication" \in StageNames /\ "Enriched Alert Topic Handoff" \in StageNames
      /\ "Orchestrator Workflow Selection" \in StageNames /\ "Configuration And Connector Lookup" \in StageNames
      /\ "Orchestration Event Topic Handoff" \in StageNames /\ "RAG Context Retrieval" \in StageNames
      /\ "Context Merge And Evidence Assembly" \in StageNames /\ "Context Event Topic Handoff" \in StageNames
      /\ "Embedding And Semantic Search" \in StageNames /\ "Resolution Recommendation Generated" \in StageNames
      /\ "Resolution Event Topic Handoff" \in StageNames /\ "Human Approval Gate" \in StageNames
      /\ "Approval Event Topic Handoff" \in StageNames /\ "Remediation Command Execution" \in StageNames
      /\ "Remediation Event Topic Handoff" \in StageNames /\ "Closure Validation And Incident Update" \in StageNames
      /\ 10 \in Orders /\ 20 \in Orders /\ 30 \in Orders /\ 40 \in Orders /\ 50 \in Orders /\ 60 \in Orders
      /\ 70 \in Orders /\ 80 \in Orders /\ 85 \in Orders /\ 90 \in Orders /\ 100 \in Orders /\ 110 \in Orders
      /\ 120 \in Orders /\ 130 \in Orders /\ 140 \in Orders /\ 150 \in Orders /\ 160 \in Orders /\ 170 \in Orders
  BY DEF StageNames, Orders
<1>1. /\ t.landing \in Int /\ t.dedupe \in Int /\ t.config \in Int /\ t.context \in Int
      /\ t.routing \in Int /\ t.recommendation \in Int /\ t.approval \in Int /\ t.remediation \in Int
      /\ t.closure \in Times
  BY TimesAre
<1> HIDE DEF t
<1>2. /\ ActionWords(store) \in SUBSET Words /\ store.action.error \in SUBSET Words
      /\ store.action.says \in BOOLEAN /\ store.matches \in BOOLEAN
      /\ "failure" \in ActionWords(store) => store.action.status = "failed"
      /\ store.action.status # "failed" => store.action.error = {}
  BY DEF ActionWords, Stores, Actions, Words
<1>3. LandedRows(t) \in Seq(StageRows)
  <2>1. Row("Alert Landed", 10, t.landing) \in StageRows  BY <1>0, <1>1, PlainRow
  <2>2. BusRow("Raw Alert Topic Handoff", 20, t.landing) \in StageRows  BY <1>0, <1>1, PlainRow
  <2> QED  BY <2>1, <2>2, StageRowsMade DEF LandedRows
<1>4. DedupeRows(t) \in Seq(StageRows)
  <2>1. Row("Deduplication", 30, t.dedupe) \in StageRows  BY <1>0, <1>1, PlainRow
  <2>2. BusRow("Enriched Alert Topic Handoff", 40, t.dedupe) \in StageRows  BY <1>0, <1>1, PlainRow
  <2> QED  BY <2>1, <2>2, StageRowsMade DEF DedupeRows
<1>5. RoutingRows(t) \in Seq(StageRows)
  <2>1. Row("Orchestrator Workflow Selection", 50, t.routing) \in StageRows  BY <1>0, <1>1, PlainRow
  <2>2. Row("Configuration And Connector Lookup", 60, t.config) \in StageRows  BY <1>0, <1>1, PlainRow
  <2>3. BusRow("Orchestration Event Topic Handoff", 70, t.routing) \in StageRows  BY <1>0, <1>1, PlainRow
  <2> QED  BY <2>1, <2>2, <2>3, StageRowsMade DEF RoutingRows
<1>6. ContextRows(store, t) \in Seq(StageRows)
  <2>1. Row("RAG Context Retrieval", 80, t.context) \in StageRows  BY <1>0, <1>1, PlainRow
  <2>2. Row("Context Merge And Evidence Assembly", 90, t.context) \in StageRows  BY <1>0, <1>1, PlainRow
  <2>3. BusRow("Context Event Topic Handoff", 100, t.context) \in StageRows  BY <1>0, <1>1, PlainRow
  <2>4. (store.matches \/ t.context # NoTime) \in BOOLEAN  BY <1>2
  <2> QED  BY <2>1, <2>2, <2>3, <2>4, StageRowsMade DEF ContextRows
<1>7. SemanticRows(store, t) \in Seq(StageRows)
  <2>1. Row("Embedding And Semantic Search", 85, t.context) \in StageRows  BY <1>0, <1>1, PlainRow
  <2> QED  BY <1>2, <2>1, StageRowsMade DEF SemanticRows
<1>8. RecommendationRows(t) \in Seq(StageRows)
  <2> DEFINE a == Row("Resolution Recommendation Generated", 110, t.recommendation)
             b == BusRow("Resolution Event Topic Handoff", 120, t.recommendation)
  <2>1. a \in StageRows /\ b \in StageRows  BY <1>0, <1>1, PlainRow
  <2>2. (t.recommendation # NoTime) \in BOOLEAN  OBVIOUS
  <2>3. RecommendationRows(t) = If(t.recommendation # NoTime, <<a, b>>)  BY DEF RecommendationRows
  <2> HIDE DEF a, b
  <2>4. <<a, b>> \in Seq(StageRows)  BY <2>1, StageRowsMade
  <2> QED  BY <2>2, <2>3, <2>4, StageRowsMade
<1>9. ApprovalRows(t) \in Seq(StageRows)
  <2> DEFINE a == Row("Human Approval Gate", 130, t.approval)
             b == BusRow("Approval Event Topic Handoff", 140, t.approval)
  <2>1. a \in StageRows /\ b \in StageRows  BY <1>0, <1>1, PlainRow
  <2>2. (t.approval # NoTime) \in BOOLEAN  OBVIOUS
  <2>3. ApprovalRows(t) = If(t.approval # NoTime, <<a, b>>)  BY DEF ApprovalRows
  <2> HIDE DEF a, b
  <2>4. <<a, b>> \in Seq(StageRows)  BY <2>1, StageRowsMade
  <2> QED  BY <2>2, <2>3, <2>4, StageRowsMade
<1>10. RemediationRows(store, t) \in Seq(StageRows)
  <2> DEFINE words == ActionWords(store) \cup store.action.error
             done == Telling("Remediation Command Execution", 150, t.remediation, words, store.action.says)
             bus == Telling("Remediation Event Topic Handoff", 160, t.remediation, ActionWords(store), FALSE)
  <2>1. done \in StageRows
    <3>1. "Remediation Command Execution" \in StageNames /\ 150 \in Orders  BY <1>0
    <3>2. words \in SUBSET Words  BY <1>2
    <3> HIDE DEF words
    <3>3. done \in StageRecords  BY <1>1, <1>2, <3>1, <3>2 DEF Telling, StageRecords
    <3>4. done.order = 150 /\ done.words = words  BY DEF Telling
    <3> HIDE DEF done
    <3>5. timelineRowHasError(done) => store.action.status = "failed"
      <4> SUFFICES ASSUME timelineRowHasError(done) PROVE store.action.status = "failed"  OBVIOUS
      <4>1. "failure" \in words  BY <3>4 DEF timelineRowHasError
      <4> QED  BY <1>2, <4>1 DEF words
    <3> QED  BY <3>3, <3>4, <3>5 DEF StageRows
  <2>2. bus \in StageRows  BY <1>0, <1>1, <1>2, StageRow
  <2>3. RemediationRows(store, t) = <<done, bus>>  BY DEF RemediationRows
  <2> HIDE DEF done, bus
  <2> QED  BY <2>1, <2>2, <2>3, StageRowsMade
<1>11. ClosureRows(store, t) \in Seq(StageRows)
  <2> DEFINE row == Telling("Closure Validation And Incident Update", 170, t.closure, ActionWords(store), FALSE)
  <2>1. ClosureRows(store, t) = IF t.closure # NoTime THEN <<row>> ELSE <<>>  BY DEF ClosureRows, If
  <2>2. CASE t.closure = NoTime  BY <2>1, <2>2
  <2>3. CASE t.closure # NoTime
    <3>1. t.closure \in Int  BY <1>1, <2>3 DEF Times
    <3>2. row \in StageRows  BY <1>0, <1>2, <3>1, StageRow
    <3>3. ClosureRows(store, t) = <<row>>  BY <2>1, <2>3
    <3> HIDE DEF row
    <3> QED  BY <3>2, <3>3, StageRowsMade
  <2> QED  BY <2>2, <2>3
<1>12. buildSyntheticFlowRows(store) =
          LandedRows(t) \o DedupeRows(t) \o RoutingRows(t) \o ContextRows(store, t) \o SemanticRows(store, t)
          \o RecommendationRows(t) \o ApprovalRows(t) \o RemediationRows(store, t) \o ClosureRows(store, t)
  BY DEF buildSyntheticFlowRows, t
<1>13. \A a, b \in Seq(StageRows) : a \o b \in Seq(StageRows)  BY ConcatProperties
<1> QED  BY <1>3, <1>4, <1>5, <1>6, <1>7, <1>8, <1>9, <1>10, <1>11, <1>12, <1>13

\* What one list consists of: rows of stages, two of the context agent, and a row of each event.
EventRow(trace, p) ==
    [stage |-> trace[p].type, order |-> 0, time |-> trace[p].at, seq |-> p,
     label |-> IF p <= Numbered THEN p ELSE 0,
     words |-> EventWords(store, trace[p]), error |-> extractEventError(trace[p]), from |-> trace[p].nth]

Consists(rows, s, trace) ==
    /\ s \in Nat /\ trace \in KeptTraces
    /\ Len(rows) = s + 2 + Len(trace) /\ DOMAIN rows = 1..(s + 2 + Len(trace))
    /\ \A i \in 1..s : rows[i] \in StageRows
    /\ rows[s + 1] = MergeRows[1] /\ rows[s + 2] = MergeRows[2]
    /\ \A p \in 1..Len(trace) : rows[s + 2 + p] = EventRow(trace, p)

\* Two lists, one after the other, place by place.
LEMMA JoinedLists ==
    ASSUME NEW V, NEW a \in Seq(V), NEW b \in Seq(V)
    PROVE  /\ a \o b \in Seq(V) /\ Len(a \o b) = Len(a) + Len(b)
           /\ \A i \in 1..Len(a) : (a \o b)[i] = a[i]
           /\ \A i \in 1..Len(b) : (a \o b)[Len(a) + i] = b[i]
<1>1. Len(a) \in Nat /\ Len(b) \in Nat  BY LenProperties
<1>2. ASSUME NEW i \in 1..Len(a) PROVE (a \o b)[i] = a[i]
  <2>1. i \in 1..(Len(a) + Len(b)) /\ i <= Len(a)  BY <1>1
  <2> QED  BY <2>1, ConcatProperties
<1>3. ASSUME NEW i \in 1..Len(b) PROVE (a \o b)[Len(a) + i] = b[i]
  <2>1. /\ Len(a) + i \in 1..(Len(a) + Len(b)) /\ ~(Len(a) + i <= Len(a))
        /\ (Len(a) + i) - Len(a) = i
    BY <1>1
  <2> QED  BY <2>1, ConcatProperties
<1> QED  BY <1>2, <1>3, ConcatProperties

\* The rows before they are sorted: the flow, the two of the context agent, the events.
LEMMA UnorderedAre ==
    ASSUME store \in Stores, NEW trace, trace = EventTrace(store)
    PROVE  \E s \in Nat : Consists(UnorderedRows(store), s, trace)
<1> DEFINE first == buildSyntheticFlowRows(store)
           s == Len(first)
           last == TraceRows(store)
           rows == UnorderedRows(store)
           m == Len(trace)
<1>1. first \in Seq(StageRows) /\ s \in Nat /\ DOMAIN first = 1..s  BY Synthetic, LenProperties
<1>2. trace \in KeptTraces  BY Kept
<1>3. m \in Nat /\ DOMAIN trace = 1..m  BY <1>2, LenProperties DEF KeptTraces
<1>4. /\ last = [p \in 1..m |-> EventRow(trace, p)]
      /\ Len(last) = m
  <2>1. last = [p \in 1..m |-> EventRow(trace, p)]  BY <1>3 DEF TraceRows, EventRow
  <2> QED  BY <1>3, <2>1
<1>5. Len(MergeRows) = 2  BY DEF MergeRows
<1>6. rows = (first \o MergeRows) \o last  BY DEF UnorderedRows
<1> DEFINE V == {first[i] : i \in 1..s} \cup {MergeRows[1], MergeRows[2]} \cup {EventRow(trace, p) : p \in 1..m}
<1>7. first \in Seq(V) /\ MergeRows \in Seq(V) /\ last \in Seq(V)
  <2>1. \A i \in 1..s : first[i] \in V  OBVIOUS
  <2>2. first \in Seq(V)
    <3>1. first = [i \in 1..s |-> first[i]]  BY <1>1
    <3> QED  BY <1>1, <2>1, <3>1
  <2>3. MergeRows[1] \in V /\ MergeRows[2] \in V /\ \A p \in 1..m : EventRow(trace, p) \in V  OBVIOUS
  <2>4. \A x, y \in V : <<x, y>> \in Seq(V)
    <3> HIDE DEF V
    <3> QED  OBVIOUS
  <2>5. MergeRows \in Seq(V)
    <3>1. MergeRows = <<MergeRows[1], MergeRows[2]>>  BY DEF MergeRows
    <3> HIDE DEF V
    <3> QED  BY <2>3, <2>4, <3>1
  <2>6. last \in Seq(V)
    <3> HIDE DEF V, last
    <3> QED  BY <1>3, <1>4, <2>3
  <2> HIDE DEF V
  <2> QED  BY <2>2, <2>5, <2>6
<1>8. s = Len(first)  OBVIOUS
<1> HIDE DEF V, first, last, rows, m, s
<1> DEFINE both == first \o MergeRows
<1>9. /\ both \in Seq(V) /\ Len(both) = s + 2
      /\ \A i \in 1..s : both[i] = first[i]
      /\ \A i \in 1..2 : both[s + i] = MergeRows[i]
  <2>1. /\ first \o MergeRows \in Seq(V) /\ Len(first \o MergeRows) = Len(first) + Len(MergeRows)
        /\ \A i \in 1..Len(first) : (first \o MergeRows)[i] = first[i]
        /\ \A i \in 1..Len(MergeRows) : (first \o MergeRows)[Len(first) + i] = MergeRows[i]
    BY <1>7, JoinedLists
  <2> QED  BY <1>5, <1>8, <2>1
<1> HIDE DEF both
<1>10. rows = both \o last  BY <1>6 DEF both
<1>11. /\ rows \in Seq(V) /\ Len(rows) = s + 2 + m
       /\ \A i \in 1..(s + 2) : rows[i] = both[i]
       /\ \A p \in 1..m : rows[s + 2 + p] = last[p]
  <2>1. /\ both \o last \in Seq(V) /\ Len(both \o last) = Len(both) + Len(last)
        /\ \A i \in 1..Len(both) : (both \o last)[i] = both[i]
        /\ \A i \in 1..Len(last) : (both \o last)[Len(both) + i] = last[i]
    <3>1. both \in Seq(V) /\ last \in Seq(V)  BY <1>7, <1>9
    <3> QED  BY <3>1, JoinedLists
  <2> QED  BY <1>4, <1>9, <1>10, <2>1
<1>12. DOMAIN rows = 1..(s + 2 + m)  BY <1>11, LenProperties
<1>13. \A i \in 1..s : rows[i] \in StageRows
  <2>1. \A i \in 1..s : first[i] \in StageRows  BY <1>1, <1>8, ElementOfSeq
  <2>2. \A i \in 1..s : i \in 1..(s + 2)  BY <1>1
  <2> QED  BY <1>9, <1>11, <2>1, <2>2
<1>14. rows[s + 1] = MergeRows[1] /\ rows[s + 2] = MergeRows[2]
  <2>1. s + 1 \in 1..(s + 2) /\ s + 2 \in 1..(s + 2) /\ 1 \in 1..2 /\ 2 \in 1..2  BY <1>1
  <2> QED  BY <1>9, <1>11, <2>1
<1>15. \A p \in 1..m : rows[s + 2 + p] = EventRow(trace, p)  BY <1>4, <1>11
<1> QED  BY <1>1, <1>2, <1>11, <1>12, <1>13, <1>14, <1>15 DEF Consists, m, rows

(***************************************************************************)
(* Their order                                                             *)
(***************************************************************************)
LEMMA EventPhases ==
    /\ PhaseOfEvent["alert.enriched"] = 10 /\ PhaseOfEvent["workflow.selected"] = 50
    /\ PhaseOfEvent["context.collected"] = 80 /\ PhaseOfEvent["recommendation.generated"] = 110
    /\ PhaseOfEvent["approval.recorded"] = 130 /\ PhaseOfEvent["remediation.executed"] = 150
    /\ PhaseOfEvent["closure.completed"] = 170
    /\ \A type \in EventTypes : PhaseOfEvent[type] \in {10, 50, 80, 110, 130, 150, 170}
<1>1. EventTypes = {"alert.enriched", "workflow.selected", "context.collected", "recommendation.generated",
                    "approval.recorded", "remediation.executed", "closure.completed"}
  BY EventTypesAre
<1>2. /\ PhaseOfEvent["alert.enriched"] = 10 /\ PhaseOfEvent["workflow.selected"] = 50
      /\ PhaseOfEvent["context.collected"] = 80 /\ PhaseOfEvent["recommendation.generated"] = 110
  BY <1>1 DEF PhaseOfEvent
<1>3. /\ PhaseOfEvent["approval.recorded"] = 130 /\ PhaseOfEvent["remediation.executed"] = 150
      /\ PhaseOfEvent["closure.completed"] = 170
  BY <1>1 DEF PhaseOfEvent
<1> QED  BY <1>1, <1>2, <1>3

\* The types of the events, in the order of the flow.
LEMMA Places ==
    /\ Place("alert.enriched") = 1 /\ Place("workflow.selected") = 2
    /\ Place("context.collected") = 3 /\ Place("recommendation.generated") = 4
    /\ Place("approval.recorded") = 5 /\ Place("remediation.executed") = 6
    /\ Place("closure.completed") = 7
<1> DEFINE last == <<"approval.recorded", "remediation.executed", "closure.completed">>
<1>1. EventTypes = {"alert.enriched", "workflow.selected", "context.collected", "recommendation.generated",
                    "approval.recorded", "remediation.executed", "closure.completed"}
  BY EventTypesAre
<1>2. UpstreamTypes \in Seq(EventTypes) /\ last \in Seq(EventTypes)
  <2>1. \A a, b, c, d \in EventTypes : <<a, b, c, d>> \in Seq(EventTypes) /\ <<a, b, c>> \in Seq(EventTypes)
    OBVIOUS
  <2> QED  BY <1>1, <2>1 DEF UpstreamTypes
<1>3. TypePlace = UpstreamTypes \o last  BY DEF TypePlace
<1>4. Len(UpstreamTypes) = 4 /\ Len(last) = 3  BY DEF UpstreamTypes
<1>5. /\ last[1] = "approval.recorded" /\ last[2] = "remediation.executed" /\ last[3] = "closure.completed"
      /\ UpstreamTypes[1] = "alert.enriched" /\ UpstreamTypes[2] = "workflow.selected"
      /\ UpstreamTypes[3] = "context.collected" /\ UpstreamTypes[4] = "recommendation.generated"
  BY DEF UpstreamTypes
<1> HIDE DEF last
<1>6. /\ TypePlace \in Seq(EventTypes) /\ Len(TypePlace) = 4 + 3
      /\ \A i \in 1..4 : TypePlace[i] = UpstreamTypes[i]
      /\ \A i \in 1..3 : TypePlace[4 + i] = last[i]
  <2>1. /\ UpstreamTypes \o last \in Seq(EventTypes) /\ Len(UpstreamTypes \o last) = Len(UpstreamTypes) + Len(last)
        /\ \A i \in 1..Len(UpstreamTypes) : (UpstreamTypes \o last)[i] = UpstreamTypes[i]
        /\ \A i \in 1..Len(last) : (UpstreamTypes \o last)[Len(UpstreamTypes) + i] = last[i]
    BY <1>2, JoinedLists
  <2> QED  BY <1>3, <1>4, <2>1
<1>7. DOMAIN TypePlace = 1..7  BY <1>6, LenProperties
<1>8. /\ TypePlace[1] = "alert.enriched" /\ TypePlace[2] = "workflow.selected"
      /\ TypePlace[3] = "context.collected" /\ TypePlace[4] = "recommendation.generated"
      /\ TypePlace[5] = "approval.recorded" /\ TypePlace[6] = "remediation.executed"
      /\ TypePlace[7] = "closure.completed"
  BY <1>5, <1>6
<1>9. \A i \in 1..7 : i = 1 \/ i = 2 \/ i = 3 \/ i = 4 \/ i = 5 \/ i = 6 \/ i = 7  OBVIOUS
<1>10. ASSUME NEW n \in 1..7 PROVE Place(TypePlace[n]) = n
  <2>1. \A i \in 1..7 : TypePlace[i] = TypePlace[n] => i = n  BY <1>8, <1>9
  <2>2. Place(TypePlace[n]) = CHOOSE i \in 1..7 : TypePlace[i] = TypePlace[n]  BY <1>7 DEF Place
  <2> QED  BY <2>1, <2>2
<1>11. Place(TypePlace[1]) = 1 /\ Place(TypePlace[2]) = 2 /\ Place(TypePlace[3]) = 3 /\ Place(TypePlace[4]) = 4
       /\ Place(TypePlace[5]) = 5 /\ Place(TypePlace[6]) = 6 /\ Place(TypePlace[7]) = 7
  BY <1>10
<1> QED  BY <1>8, <1>11

\* The phases of two types of events are in the order of the flow.
LEMMA PhasesFollow ==
    ASSUME NEW a \in EventTypes, NEW b \in EventTypes, PhaseOfEvent[a] <= PhaseOfEvent[b]
    PROVE  Place(a) <= Place(b)
<1>1. EventTypes = {"alert.enriched", "workflow.selected", "context.collected", "recommendation.generated",
                    "approval.recorded", "remediation.executed", "closure.completed"}
  BY EventTypesAre
<1>2. \A type \in EventTypes :
         \/ PhaseOfEvent[type] = 10 /\ Place(type) = 1
         \/ PhaseOfEvent[type] = 50 /\ Place(type) = 2
         \/ PhaseOfEvent[type] = 80 /\ Place(type) = 3
         \/ PhaseOfEvent[type] = 110 /\ Place(type) = 4
         \/ PhaseOfEvent[type] = 130 /\ Place(type) = 5
         \/ PhaseOfEvent[type] = 150 /\ Place(type) = 6
         \/ PhaseOfEvent[type] = 170 /\ Place(type) = 7
  BY <1>1, EventPhases, Places
<1> DEFINE f == PhaseOfEvent[a]  g == PhaseOfEvent[b]  x == Place(a)  y == Place(b)
<1>3. (f = 10 /\ x = 1) \/ (f = 50 /\ x = 2) \/ (f = 80 /\ x = 3) \/ (f = 110 /\ x = 4)
      \/ (f = 130 /\ x = 5) \/ (f = 150 /\ x = 6) \/ (f = 170 /\ x = 7)
  BY <1>2
<1>4. (g = 10 /\ y = 1) \/ (g = 50 /\ y = 2) \/ (g = 80 /\ y = 3) \/ (g = 110 /\ y = 4)
      \/ (g = 130 /\ y = 5) \/ (g = 150 /\ y = 6) \/ (g = 170 /\ y = 7)
  BY <1>2
<1>5. f <= g  OBVIOUS
<1> HIDE DEF f, g, x, y
<1>6. x <= y  BY <1>3, <1>4, <1>5
<1> QED  BY <1>6 DEF x, y

\* No row of the context agent is named like an event.
LEMMA MergeStagesAre == \A stage \in MergeStages : stage \notin EventTypes
<1>1. EventTypes = {"alert.enriched", "workflow.selected", "context.collected", "recommendation.generated",
                    "approval.recorded", "remediation.executed", "closure.completed"}
  BY EventTypesAre
<1> QED  BY <1>1 DEF MergeStages

\* The two rows of the context agent.
LEMMA MergeRowsAre ==
    /\ MergeRows[1] = MergeRow("Context Agent Merged Inputs", 86)
    /\ MergeRows[2] = MergeRow("Context Agent Published RCA Context", 87)
    /\ "Context Agent Merged Inputs" \in MergeStages /\ "Context Agent Published RCA Context" \in MergeStages
BY DEF MergeRows, MergeStages

\* Their fields.
LEMMA MergeRowFields ==
    \A stage, seq : /\ MergeRow(stage, seq).order = 0 /\ MergeRow(stage, seq).stage = stage
                    /\ MergeRow(stage, seq).seq = seq /\ MergeRow(stage, seq).from = 0
                    /\ MergeRow(stage, seq).time = Landed /\ MergeRow(stage, seq).words = {}
BY DEF MergeRow

\* Such a row has no phase of its own and comes last.
LEMMA PhaseWithoutNumber ==
    ASSUME NEW r, NEW order, order = r.order, order = 0, NEW stage, stage = r.stage, stage \in MergeStages
    PROVE  timelinePhaseOrder(r) = 99
<1>1. ~(r.order > 0)  OBVIOUS
<1>2. r.stage \notin EventTypes  BY MergeStagesAre
<1> QED  BY <1>1, <1>2, Zenon DEF timelinePhaseOrder

\* What a merge row is: a row of no event and of no number, with the given place.
PlainMerge(r, seq) ==
    /\ r.from = 0 /\ r.seq = seq /\ r.order = 0 /\ r.stage \in MergeStages
    /\ r.time \in Int /\ timelinePhaseOrder(r) = 99 /\ ~timelineRowHasError(r)

\* So it is a row of no event, of its number, that tells of no failure.
LEMMA MergeRowIs ==
    ASSUME NEW stage \in MergeStages, NEW seq
    PROVE  PlainMerge(MergeRow(stage, seq), seq)
<1> DEFINE r == MergeRow(stage, seq)
<1>1. r.order = 0 /\ r.stage = stage /\ r.seq = seq /\ r.from = 0  BY MergeRowFields, Zenon
<1>2. r.time = Landed  BY MergeRowFields, Zenon
<1>3. r.words = {}  BY MergeRowFields, Zenon
<1> HIDE DEF r
<1>4. Landed \in Int  BY DEF Landed
<1>5. timelinePhaseOrder(r) = 99  BY <1>1, PhaseWithoutNumber
<1>6. "failure" \notin r.words  BY <1>3
<1>7. ~timelineRowHasError(r)  BY <1>6, Zenon DEF timelineRowHasError
<1>8. r.stage \in MergeStages  BY <1>1, Zenon
<1>9. r.time \in Int  BY <1>2, <1>4, Zenon
<1>10. PlainMerge(r, seq)  BY <1>1, <1>5, <1>7, <1>8, <1>9, Zenon DEF PlainMerge
<1> QED  BY <1>10 DEF r

\* And so are the two there are.
LEMMA MergeRowsPlain ==
    /\ MergeRows[1].from = 0 /\ MergeRows[1].seq = 86 /\ MergeRows[1].order = 0
    /\ MergeRows[1].stage \in MergeStages /\ MergeRows[1].time \in Int /\ timelinePhaseOrder(MergeRows[1]) = 99
    /\ MergeRows[2].from = 0 /\ MergeRows[2].seq = 87 /\ MergeRows[2].order = 0
    /\ MergeRows[2].stage \in MergeStages /\ MergeRows[2].time \in Int /\ timelinePhaseOrder(MergeRows[2]) = 99
    /\ ~timelineRowHasError(MergeRows[1]) /\ ~timelineRowHasError(MergeRows[2])
<1>1. PlainMerge(MergeRow("Context Agent Merged Inputs", 86), 86)  BY MergeRowsAre, MergeRowIs, Zenon
<1>2. PlainMerge(MergeRow("Context Agent Published RCA Context", 87), 87)  BY MergeRowsAre, MergeRowIs, Zenon
<1>3. PlainMerge(MergeRows[1], 86) /\ PlainMerge(MergeRows[2], 87)  BY <1>1, <1>2, MergeRowsAre, Zenon
<1> QED  BY <1>3, Zenon DEF PlainMerge

\* How one row stands before another: its phase, its time, its place in the list.
Standing(rows, i, j) ==
    \/ timelinePhaseOrder(rows[i]) < timelinePhaseOrder(rows[j])
    \/ /\ timelinePhaseOrder(rows[i]) = timelinePhaseOrder(rows[j])
       /\ rows[i].time < rows[j].time \/ (rows[i].time = rows[j].time /\ i < j)

\* What a row at each place of the list is, with its number and its phase.
LEMMA KindsOfRows ==
    ASSUME NEW rows, NEW s, NEW trace, Consists(rows, s, trace), NEW i \in DOMAIN rows
    PROVE  /\ i \in Nat /\ rows[i].time \in Int
           /\ \/ /\ i \in 1..s /\ rows[i] \in StageRows /\ rows[i].seq = 0 /\ rows[i].from = 0
                 /\ timelinePhaseOrder(rows[i]) = rows[i].order /\ rows[i].order \in Orders
              \/ /\ i = s + 1 /\ rows[i] = MergeRows[1] /\ rows[i].seq = 86 /\ rows[i].from = 0
                 /\ timelinePhaseOrder(rows[i]) = 99
              \/ /\ i = s + 2 /\ rows[i] = MergeRows[2] /\ rows[i].seq = 87 /\ rows[i].from = 0
                 /\ timelinePhaseOrder(rows[i]) = 99
              \/ \E p \in 1..Len(trace) :
                    /\ i = s + 2 + p /\ rows[i] = EventRow(trace, p) /\ trace[p] \in KeptEvents
                    /\ rows[i].seq = p /\ rows[i].from = trace[p].nth
                    /\ timelinePhaseOrder(rows[i]) = PhaseOfEvent[trace[p].type]
<1>1. s \in Nat /\ Len(trace) \in Nat /\ i \in 1..(s + 2 + Len(trace)) /\ trace \in Seq(KeptEvents)
  BY LenProperties DEF Consists, KeptTraces
<1>2. i \in Nat  BY <1>1
<1>3. i \in 1..s \/ i = s + 1 \/ i = s + 2 \/ i - (s + 2) \in 1..Len(trace)  BY <1>1
<1>4. CASE i \in 1..s
  <2>1. rows[i] \in StageRows  BY <1>4 DEF Consists
  <2>2. rows[i].order \in Orders /\ rows[i].seq = 0 /\ rows[i].from = 0 /\ rows[i].time \in Int
    BY <2>1 DEF StageRows, StageRecords
  <2>3. rows[i].order > 0  BY <2>2 DEF Orders
  <2>4. timelinePhaseOrder(rows[i]) = rows[i].order  BY <2>3 DEF timelinePhaseOrder
  <2> QED  BY <1>2, <1>4, <2>1, <2>2, <2>4
<1>5. CASE i = s + 1
  <2>1. rows[i] = MergeRows[1]  BY <1>5 DEF Consists
  <2>2. rows[i].seq = 86  BY <2>1, MergeRowsPlain, Zenon
  <2>3. rows[i].from = 0 /\ rows[i].time \in Int /\ timelinePhaseOrder(rows[i]) = 99
    BY <2>1, MergeRowsPlain, Zenon
  <2> QED  BY <1>2, <1>5, <2>1, <2>2, <2>3
<1>6. CASE i = s + 2
  <2>1. rows[i] = MergeRows[2]  BY <1>6 DEF Consists
  <2>2. rows[i].seq = 87  BY <2>1, MergeRowsPlain, Zenon
  <2>3. rows[i].from = 0 /\ rows[i].time \in Int /\ timelinePhaseOrder(rows[i]) = 99
    BY <2>1, MergeRowsPlain, Zenon
  <2> QED  BY <1>2, <1>6, <2>1, <2>2, <2>3
<1>7. CASE i - (s + 2) \in 1..Len(trace)
  <2> DEFINE p == i - (s + 2)
  <2>1. p \in 1..Len(trace) /\ i = s + 2 + p  BY <1>1, <1>2, <1>7
  <2> HIDE DEF p
  <2>2. rows[i] = EventRow(trace, p)  BY <2>1 DEF Consists
  <2>3. trace[p] \in KeptEvents  BY <1>1, <2>1, ElementOfSeq
  <2>4. trace[p].type \in EventTypes /\ trace[p].at \in Int  BY <2>3 DEF KeptEvents
  <2>5. /\ EventRow(trace, p).order = 0 /\ EventRow(trace, p).stage = trace[p].type
        /\ EventRow(trace, p).time = trace[p].at /\ EventRow(trace, p).seq = p
        /\ EventRow(trace, p).from = trace[p].nth
    BY DEF EventRow
  <2>6. timelinePhaseOrder(EventRow(trace, p)) = PhaseOfEvent[trace[p].type]
    BY <2>4, <2>5 DEF timelinePhaseOrder
  <2> QED  BY <1>2, <2>1, <2>2, <2>3, <2>4, <2>5, <2>6
<1> QED  BY <1>3, <1>4, <1>5, <1>6, <1>7

\* The comparison of the sort is this order: the numbers of the rows add nothing to it.
LEMMA NumbersOfRows ==
    ASSUME NEW rows, NEW s, NEW trace, Consists(rows, s, trace), NEW i \in DOMAIN rows
    PROVE  /\ timelinePhaseOrder(rows[i]) \in Int /\ rows[i].time \in Int /\ rows[i].time # NoTime
           /\ \/ rows[i].seq = 0
              \/ rows[i].seq = i + 85 - s /\ i \in {s + 1, s + 2} /\ timelinePhaseOrder(rows[i]) = 99
              \/ /\ rows[i].seq = i - (s + 2) /\ rows[i].seq > 0
                 /\ timelinePhaseOrder(rows[i]) # 99
<1> USE TimelineAssumption
<1> DEFINE f == timelinePhaseOrder(rows[i])
           a == rows[i].seq
           t == rows[i].time
<1>1. /\ i \in Nat /\ t \in Int
      /\ \/ a = 0 /\ f \in Orders
         \/ i = s + 1 /\ a = 86 /\ f = 99
         \/ i = s + 2 /\ a = 87 /\ f = 99
         \/ \E p \in 1..Len(trace) : /\ i = s + 2 + p /\ a = p /\ trace[p] \in KeptEvents
                                     /\ f = PhaseOfEvent[trace[p].type]
  <2>1. i \in Nat /\ t \in Int  BY KindsOfRows
  <2>2. \/ a = 0 /\ f \in Orders
        \/ i = s + 1 /\ a = 86 /\ f = 99
        \/ i = s + 2 /\ a = 87 /\ f = 99
        \/ \E p \in 1..Len(trace) : /\ i = s + 2 + p /\ a = p /\ trace[p] \in KeptEvents
                                    /\ f = PhaseOfEvent[trace[p].type]
    BY KindsOfRows
  <2> QED  BY <2>1, <2>2
<1>2. s \in Nat  BY DEF Consists
<1>3. t # NoTime
  <2> HIDE DEF t
  <2> QED  BY <1>1
<1> HIDE DEF f, a, t
<1>4. CASE a = 0 /\ f \in Orders
  <2>1. f \in Int  BY <1>4 DEF Orders
  <2> QED  BY <1>1, <1>3, <1>4, <2>1 DEF f, a, t
<1>5. CASE i = s + 1 /\ a = 86 /\ f = 99
  <2>1. a = i + 85 - s  BY <1>2, <1>5
  <2> QED  BY <1>1, <1>3, <1>5, <2>1 DEF f, a, t
<1>6. CASE i = s + 2 /\ a = 87 /\ f = 99
  <2>1. a = i + 85 - s  BY <1>2, <1>6
  <2> QED  BY <1>1, <1>3, <1>6, <2>1 DEF f, a, t
<1>7. CASE \E p \in 1..Len(trace) : /\ i = s + 2 + p /\ a = p /\ trace[p] \in KeptEvents
                                    /\ f = PhaseOfEvent[trace[p].type]
  <2>1. PICK p \in 1..Len(trace) : /\ i = s + 2 + p /\ a = p /\ trace[p] \in KeptEvents
                                   /\ f = PhaseOfEvent[trace[p].type]
    BY <1>7
  <2>2. trace[p].type \in EventTypes  BY <2>1 DEF KeptEvents
  <2>3. f \in {10, 50, 80, 110, 130, 150, 170}  BY <2>1, <2>2, EventPhases
  <2>4. f \in Int /\ f # 99  BY <2>3
  <2>5. a = i - (s + 2) /\ a > 0  BY <1>2, <2>1
  <2> QED  BY <1>1, <1>3, <2>4, <2>5 DEF f, a, t
<1> QED  BY <1>1, <1>4, <1>5, <1>6, <1>7

\* The comparison of the sort is an order of everything on the rows of a document.
LEMMA RowsInTurn ==
    ASSUME NEW rows, NEW s, NEW trace, Consists(rows, s, trace),
           NEW i \in DOMAIN rows, NEW j \in DOMAIN rows, i # j
    PROVE  RowBefore(rows[i], i, rows[j], j) <=> Standing(rows, i, j)
<1> DEFINE f == timelinePhaseOrder(rows[i])  g == timelinePhaseOrder(rows[j])
           a == rows[i].seq  b == rows[j].seq
           t == rows[i].time  u == rows[j].time
<1>1. s \in Nat /\ i \in Nat /\ j \in Nat  BY KindsOfRows DEF Consists
<1>2. /\ f \in Int /\ t \in Int /\ t # NoTime
      /\ a = 0 \/ (a = i + 85 - s /\ i \in {s + 1, s + 2} /\ f = 99) \/ (a = i - (s + 2) /\ a > 0 /\ f # 99)
  BY NumbersOfRows
<1>3. /\ g \in Int /\ u \in Int /\ u # NoTime
      /\ b = 0 \/ (b = j + 85 - s /\ j \in {s + 1, s + 2} /\ g = 99) \/ (b = j - (s + 2) /\ b > 0 /\ g # 99)
  BY NumbersOfRows
<1>4. RowBefore(rows[i], i, rows[j], j) <=>
         IF f # g THEN f < g
         ELSE IF t # NoTime /\ u # NoTime /\ t # u THEN t < u
         ELSE IF (t = NoTime) # (u = NoTime) THEN u = NoTime
         ELSE IF a # 0 /\ b # 0 /\ a # b THEN a < b
         ELSE i < j
  BY DEF RowBefore, Earlier
<1>5. Standing(rows, i, j) <=> f < g \/ (f = g /\ (t < u \/ (t = u /\ i < j)))  BY DEF Standing
<1> HIDE DEF f, g, a, b, t, u
<1>6. f = g /\ a # 0 /\ b # 0 => (a < b <=> i < j) /\ a # b  BY <1>1, <1>2, <1>3
<1>7. RowBefore(rows[i], i, rows[j], j) <=>
         IF f # g THEN f < g
         ELSE IF t # u THEN t < u
         ELSE IF a # 0 /\ b # 0 /\ a # b THEN a < b
         ELSE i < j
  BY <1>2, <1>3, <1>4, Zenon
<1> DEFINE before == RowBefore(rows[i], i, rows[j], j)  standing == Standing(rows, i, j)
<1>8. before <=> standing
  <2>1. before <=> IF f # g THEN f < g
         ELSE IF t # u THEN t < u
         ELSE IF a # 0 /\ b # 0 /\ a # b THEN a < b
         ELSE i < j
    BY <1>7
  <2>2. standing <=> f < g \/ (f = g /\ (t < u \/ (t = u /\ i < j)))  BY <1>5
  <2> HIDE DEF before, standing
  <2> QED  BY <1>2, <1>3, <1>6, <2>1, <2>2
<1> QED  BY <1>8

\* So the sort has one result: all rows, each after those that stand before it.
Sorted(rows, order) ==
    /\ order \in [DOMAIN rows -> DOMAIN rows]
    /\ \A k, l \in DOMAIN rows : k < l <=> Standing(rows, order[k], order[l])
    /\ \A i \in DOMAIN rows : \E k \in DOMAIN rows : order[k] = i
    /\ OrderedRows(rows) = [k \in DOMAIN rows |-> rows[order[k]]]

\* So the sorted rows are the rows, each once, each before those that it precedes.
LEMMA RowsSorted ==
    ASSUME NEW rows, NEW s, NEW trace, Consists(rows, s, trace)
    PROVE  /\ \E order : Sorted(rows, order)
           /\ {RankOf(rows, i) : i \in DOMAIN rows} = DOMAIN rows
<1> DEFINE S == DOMAIN rows
           n == s + 2 + Len(trace)
           below == [i \in S |-> {j \in S : j # i /\ RowBefore(rows[j], j, rows[i], i)}]
           rank == [i \in S |-> RankOf(rows, i)]
           order == AtRank(rank)
<1>1. n \in Nat /\ S = 1..n  BY LenProperties DEF Consists, KeptTraces
<1>2. \A i, j \in S : i \in below[j] <=> i # j /\ Standing(rows, i, j)
  <2> SUFFICES ASSUME NEW i \in S, NEW j \in S PROVE i \in below[j] <=> i # j /\ Standing(rows, i, j)  OBVIOUS
  <2>1. i \in below[j] <=> i # j /\ RowBefore(rows[i], i, rows[j], j)  OBVIOUS
  <2>2. i # j => (RowBefore(rows[i], i, rows[j], j) <=> Standing(rows, i, j))  BY RowsInTurn
  <2> QED  BY <2>1, <2>2
<1>3. \A i \in S : i \in Int /\ timelinePhaseOrder(rows[i]) \in Int /\ rows[i].time \in Int
  <2>1. \A i \in S : timelinePhaseOrder(rows[i]) \in Int /\ rows[i].time \in Int  BY NumbersOfRows
  <2> QED  BY <1>1, <2>1
<1>4. OneOrder(S, below)
  <2>1. below \in [S -> SUBSET S]  OBVIOUS
  <2> HIDE DEF below, S
  <2>2. \A i \in S : i \notin below[i]  BY <1>2
  <2>3. \A i, j \in S : i = j \/ i \in below[j] \/ j \in below[i]
    <3>1. \A i, j \in S : i = j \/ Standing(rows, i, j) \/ Standing(rows, j, i)  BY <1>3 DEF Standing
    <3> QED  BY <1>2, <3>1
  <2>4. \A i, j, k \in S : i \in below[j] /\ j \in below[k] => i \in below[k]
    <3>1. \A i, j, k \in S : Standing(rows, i, j) /\ Standing(rows, j, k) => Standing(rows, i, k)
      BY <1>3 DEF Standing
    <3>2. \A i \in S : ~Standing(rows, i, i)  BY <1>3 DEF Standing
    <3> QED  BY <1>2, <3>1, <3>2
  <2> QED  BY <2>1, <2>2, <2>3, <2>4 DEF OneOrder
<1>5. rank = Ranks(S, below)  BY DEF RankOf, Ranks
<1>6. IsFiniteSet(S) /\ Cardinality(S) = n
  <2>1. 1 \in Int /\ n \in Int  BY <1>1
  <2>2. IsFiniteSet(1..n) /\ Cardinality(1..n) = IF 1 > n THEN 0 ELSE n - 1 + 1  BY <2>1, FS_Interval
  <2> QED  BY <2>2, <1>1
<1>7. \A i, j \in S : ~(Standing(rows, i, j) /\ i = j)  BY <1>3 DEF Standing
<1>8. {RankOf(rows, i) : i \in S} = {rank[i] : i \in S}  OBVIOUS
<1>9. OrderedRows(rows) = [k \in S |-> rows[order[k]]]  BY DEF OrderedRows
<1> HIDE DEF below, rank, S, n
<1>10. AllInOrder(S, below)  BY <1>4, <1>6, AtRankOrders
<1>11. /\ order \in [S -> S]
       /\ \A k, l \in S : k < l <=> order[k] \in below[order[l]]
       /\ \A i \in S : \E k \in S : order[k] = i
       /\ {rank[i] : i \in S} = S
  <2>1. \A i \in S : rank[i] \in 1..n /\ order[rank[i]] = i  BY <1>5, <1>6, <1>10 DEF AllInOrder
  <2>2. order \in [1..n -> S] /\ \A k, l \in 1..n : k < l <=> order[k] \in below[order[l]]
    BY <1>5, <1>6, <1>10 DEF AllInOrder
  <2>3. {rank[i] : i \in S} = 1..n  BY <1>5, <1>6, <1>10 DEF AllInOrder
  <2> QED  BY <1>1, <2>1, <2>2, <2>3
<1> HIDE DEF order
<1>12. \A k, l \in S : k < l <=> Standing(rows, order[k], order[l])
  <2> SUFFICES ASSUME NEW k \in S, NEW l \in S PROVE k < l <=> Standing(rows, order[k], order[l])  OBVIOUS
  <2>1. order[k] \in S /\ order[l] \in S /\ (k < l <=> order[k] \in below[order[l]])  BY <1>11
  <2>2. order[k] \in below[order[l]] <=> order[k] # order[l] /\ Standing(rows, order[k], order[l])  BY <1>2, <2>1
  <2>3. ~(Standing(rows, order[k], order[l]) /\ order[k] = order[l])  BY <1>7, <2>1
  <2> QED  BY <2>1, <2>2, <2>3
<1>13. Sorted(rows, order)  BY <1>9, <1>11, <1>12 DEF Sorted, S
<1>14. {RankOf(rows, i) : i \in S} = S  BY <1>8, <1>11
<1> QED  BY <1>13, <1>14 DEF S

\* What is shown: the rows in this order, each unless one that stands before it has its key.
ShowsInTurn(rows, list, place) ==
    /\ list \in Seq({rows[i] : i \in DOMAIN rows})
    /\ place \in [DOMAIN list -> DOMAIN rows]
    /\ \A k \in DOMAIN list : list[k] = rows[place[k]]
    /\ \A k, l \in DOMAIN list : k < l => Standing(rows, place[k], place[l])
    /\ \A i \in DOMAIN rows :
          (\E k \in DOMAIN list : place[k] = i)
             <=> \A j \in DOMAIN rows : Standing(rows, j, i) => RowKey(rows[j]) # RowKey(rows[i])

\* What is left of them without repetitions: a row is shown unless a row before it has its key.
LEMMA RowsShown ==
    ASSUME NEW rows, NEW s, NEW trace, Consists(rows, s, trace)
    PROVE  \E place : ShowsInTurn(rows, TimelineRows(rows), place)
<1> DEFINE D == DOMAIN rows
           n == s + 2 + Len(trace)
           sorted == OrderedRows(rows)
           first == {k \in DOMAIN sorted : \A j \in 1..(k - 1) : RowKey(sorted[j]) # RowKey(sorted[k])}
           m == Cardinality(first)
           turn == Ascending(first)
           list == TimelineRows(rows)
<1>1. n \in Nat /\ D = 1..n  BY LenProperties DEF Consists, KeptTraces
<1>2. PICK order : Sorted(rows, order)  BY RowsSorted
<1>3. /\ order \in [D -> D]
      /\ \A k, l \in D : k < l <=> Standing(rows, order[k], order[l])
      /\ \A i \in D : \E k \in D : order[k] = i
      /\ sorted = [k \in D |-> rows[order[k]]]
  BY <1>2 DEF Sorted
<1>4. list = [k \in DOMAIN turn |-> sorted[turn[k]]]  BY DEF TimelineRows
<1>6. first = {k \in D : \A j \in 1..(k - 1) : RowKey(sorted[j]) # RowKey(sorted[k])}  BY <1>3
<1> HIDE DEF D, n, sorted, first, turn, list
<1>9. first \in SUBSET D /\ first \in SUBSET (1..n)  BY <1>1, <1>6
<1>12. /\ m \in Nat /\ turn \in [1..m -> first]
       /\ \A k, l \in 1..m : k < l <=> turn[k] < turn[l]
       /\ \A k \in first : \E p \in 1..m : turn[p] = k
  <2>1. Rising(first, turn, m)  BY <1>1, <1>9, AscendingIs DEF turn
  <2> QED  BY <2>1 DEF Rising
<1> HIDE DEF m
<1>13. \A k, l \in 1..m : turn[k] \in first /\ (k < l <=> turn[k] < turn[l])  BY <1>12
<1> DEFINE place == [k \in 1..m |-> order[turn[k]]]
<1>14. list = [k \in 1..m |-> sorted[turn[k]]]  BY <1>4, <1>12
<1>15. \A k \in 1..m : turn[k] \in D /\ place[k] = order[turn[k]] /\ place[k] \in D /\ list[k] = rows[place[k]]
  <2>1. \A k \in 1..m : turn[k] \in D  BY <1>9, <1>12
  <2>2. \A k \in D : sorted[k] = rows[order[k]] /\ order[k] \in D  BY <1>3
  <2> QED  BY <1>14, <2>1, <2>2
<1>16. DOMAIN list = 1..m /\ list \in Seq({rows[i] : i \in DOMAIN rows})
  <2>1. \A k \in 1..m : list[k] \in {rows[i] : i \in DOMAIN rows}  BY <1>15 DEF D
  <2>2. list = [k \in 1..m |-> list[k]]  BY <1>14
  <2> HIDE DEF place
  <2> QED  BY <1>12, <1>14, <2>1, <2>2
<1>17. place \in [1..m -> D]
  <2>1. \A k \in 1..m : order[turn[k]] \in D  BY <1>15
  <2> QED  BY <2>1
<1> HIDE DEF place
<1>18. \A k, l \in 1..m : k < l => Standing(rows, place[k], place[l])
  <2> SUFFICES ASSUME NEW k \in 1..m, NEW l \in 1..m, k < l PROVE Standing(rows, place[k], place[l])  OBVIOUS
  <2>1. turn[k] < turn[l] /\ turn[k] \in D /\ turn[l] \in D  BY <1>13, <1>15
  <2>2. Standing(rows, order[turn[k]], order[turn[l]])  BY <1>3, <2>1
  <2>3. place[k] = order[turn[k]] /\ place[l] = order[turn[l]]  BY <1>15
  <2> QED  BY <2>2, <2>3
<1>19. \A a, b \in D : order[a] = order[b] => a = b
  <2> SUFFICES ASSUME NEW a \in D, NEW b \in D, order[a] = order[b], a # b PROVE FALSE  OBVIOUS
  <2>1. a < b \/ b < a  BY <1>1
  <2>2. Standing(rows, order[a], order[b]) \/ Standing(rows, order[b], order[a])  BY <1>3, <2>1
  <2>3. Standing(rows, order[a], order[a])  BY <2>2
  <2>4. a < a  BY <1>3, <2>3
  <2> QED  BY <1>1, <2>4
<1>20. ASSUME NEW i \in D
       PROVE  (\E k \in 1..m : place[k] = i)
                 <=> \A j \in D : Standing(rows, j, i) => RowKey(rows[j]) # RowKey(rows[i])
  <2>1. PICK a \in D : order[a] = i  BY <1>3
  <2>2. (\E k \in 1..m : place[k] = i) <=> a \in first
    <3>1. ASSUME NEW k \in 1..m, place[k] = i PROVE a \in first
      <4>1. turn[k] \in D /\ order[turn[k]] = order[a]  BY <1>15, <2>1, <3>1
      <4>2. turn[k] = a  BY <1>19, <2>1, <4>1
      <4> QED  BY <1>12, <4>2
    <3>2. ASSUME a \in first PROVE \E k \in 1..m : place[k] = i
      <4>1. PICK k \in 1..m : turn[k] = a  BY <1>12, <3>2
      <4>2. place[k] = i  BY <1>15, <2>1, <4>1
      <4> QED  BY <4>2
    <3> QED  BY <3>1, <3>2
  <2>3. a \in first <=> \A b \in D : b < a => RowKey(sorted[b]) # RowKey(sorted[a])
    <3>1. \A b : b \in 1..(a - 1) <=> b \in D /\ b < a  BY <1>1
    <3> QED  BY <1>6, <2>1, <3>1
  <2>4. \A b \in D : sorted[b] = rows[order[b]]  BY <1>3
  <2>5. \A b \in D : b < a <=> Standing(rows, order[b], i)  BY <1>3, <2>1
  <2>6. (\A b \in D : b < a => RowKey(sorted[b]) # RowKey(sorted[a]))
           <=> \A j \in D : Standing(rows, j, i) => RowKey(rows[j]) # RowKey(rows[i])
    <3>1. ASSUME \A b \in D : b < a => RowKey(sorted[b]) # RowKey(sorted[a]), NEW j \in D, Standing(rows, j, i)
          PROVE  RowKey(rows[j]) # RowKey(rows[i])
      <4>1. PICK b \in D : order[b] = j  BY <1>3
      <4>2. b < a  BY <2>5, <3>1, <4>1
      <4>3. RowKey(sorted[b]) # RowKey(sorted[a])  BY <3>1, <4>2
      <4>4. sorted[b] = rows[j] /\ sorted[a] = rows[i]  BY <2>1, <2>4, <4>1
      <4> QED  BY <4>3, <4>4
    <3>2. ASSUME \A j \in D : Standing(rows, j, i) => RowKey(rows[j]) # RowKey(rows[i]), NEW b \in D, b < a
          PROVE  RowKey(sorted[b]) # RowKey(sorted[a])
      <4>1. order[b] \in D /\ Standing(rows, order[b], i)  BY <1>3, <2>5, <3>2
      <4>2. RowKey(rows[order[b]]) # RowKey(rows[i])  BY <3>2, <4>1
      <4>3. sorted[b] = rows[order[b]] /\ sorted[a] = rows[i]  BY <2>1, <2>4
      <4> QED  BY <4>2, <4>3
    <3> QED  BY <3>1, <3>2
  <2> QED  BY <2>2, <2>3, <2>6
<1>21. ShowsInTurn(rows, list, place)  BY <1>15, <1>16, <1>17, <1>18, <1>20 DEF ShowsInTurn, D
<1> QED  BY <1>21 DEF list

\* An event is shown unless it repeats another.
LEMMA KeysOfRows ==
    \A r, q : RowKey(r) = RowKey(q) <=> r.stage = q.stage /\ r.label = q.label /\ r.time = q.time
<1> TAKE r, q
<1> DEFINE a == r.stage  b == r.label  c == r.time  d == q.stage  e == q.label  f == q.time
<1>1. RowKey(r) = <<a, b, c>> /\ RowKey(q) = <<d, e, f>>  BY DEF RowKey
<1> HIDE DEF a, b, c, d, e, f
<1>2. <<a, b, c>> = <<d, e, f>> <=> a = d /\ b = e /\ c = f  OBVIOUS
<1> QED  BY <1>1, <1>2 DEF a, b, c, d, e, f

StandsFor(rows, s, trace, p) ==
    /\ s + 2 + p \in DOMAIN rows /\ s + 2 + p \in Nat
    /\ p \in Nat /\ p > 0 /\ s \in Nat /\ Len(trace) \in Nat
    /\ rows[s + 2 + p].stage = trace[p].type
    /\ rows[s + 2 + p].time = trace[p].at
    /\ rows[s + 2 + p].label = IF p <= Numbered THEN p ELSE 0
    /\ trace[p] \in KeptEvents /\ trace[p].type \in EventTypes /\ trace[p].at \in Int
    /\ trace[p].nth \in Nat \ {0}
    /\ rows[s + 2 + p].from = trace[p].nth
    /\ timelinePhaseOrder(rows[s + 2 + p]) = PhaseOfEvent[trace[p].type]
    /\ PhaseOfEvent[trace[p].type] \in Int

\* A row of the events stands for one of them.
LEMMA EventsOfRows ==
    ASSUME NEW rows, NEW s, NEW trace, Consists(rows, s, trace), NEW p \in 1..Len(trace)
    PROVE  StandsFor(rows, s, trace, p)
<1> DEFINE i == s + 2 + p
<1>1. s \in Nat /\ Len(trace) \in Nat /\ trace \in Seq(KeptEvents)  BY LenProperties DEF Consists, KeptTraces
<1>2. i \in 1..(s + 2 + Len(trace)) /\ p \in Nat /\ p > 0  BY <1>1
<1>3. rows[i] = EventRow(trace, p) /\ i \in DOMAIN rows  BY <1>2 DEF Consists
<1>4. trace[p] \in KeptEvents  BY <1>1, ElementOfSeq
<1>5. trace[p].type \in EventTypes /\ trace[p].at \in Int /\ trace[p].nth \in Nat \ {0}  BY <1>4 DEF KeptEvents
<1>6. /\ EventRow(trace, p).stage = trace[p].type /\ EventRow(trace, p).time = trace[p].at
      /\ EventRow(trace, p).label = IF p <= Numbered THEN p ELSE 0
      /\ EventRow(trace, p).from = trace[p].nth
      /\ EventRow(trace, p).order = 0
  BY DEF EventRow
<1>7. timelinePhaseOrder(EventRow(trace, p)) = PhaseOfEvent[trace[p].type]
  BY <1>5, <1>6 DEF timelinePhaseOrder
<1>8. PhaseOfEvent[trace[p].type] \in Int
  <2>1. PhaseOfEvent[trace[p].type] \in {10, 50, 80, 110, 130, 150, 170}  BY <1>5, EventPhases
  <2> QED  BY <2>1
<1> HIDE DEF i
<1>9. /\ rows[i].stage = trace[p].type /\ rows[i].time = trace[p].at
      /\ rows[i].label = (IF p <= Numbered THEN p ELSE 0) /\ rows[i].from = trace[p].nth
      /\ timelinePhaseOrder(rows[i]) = PhaseOfEvent[trace[p].type]
  BY <1>3, <1>6, <1>7
<1>10. i \in Nat  BY <1>1, <1>2 DEF i
<1> QED  BY <1>1, <1>2, <1>3, <1>4, <1>5, <1>8, <1>9, <1>10 DEF i, StandsFor

\* A row that has the name of an event, or that shows one, is one of the event rows.
LEMMA StagesOfRows ==
    ASSUME NEW rows, NEW s, NEW trace, Consists(rows, s, trace), NEW i \in DOMAIN rows,
           rows[i].stage \in EventTypes \/ rows[i].from # 0
    PROVE  \E p \in 1..Len(trace) : i = s + 2 + p
<1>1. CASE i \in 1..s /\ rows[i] \in StageRows
  <2>1. rows[i].stage \in StageNames /\ rows[i].from = 0  BY <1>1 DEF StageRows, StageRecords
  <2> QED  BY <2>1, NamesOfStages
<1>2. CASE rows[i] = MergeRows[1] \/ rows[i] = MergeRows[2]
  <2>1. /\ MergeRows[1].from = 0 /\ MergeRows[2].from = 0
        /\ MergeRows[1].stage \in MergeStages /\ MergeRows[2].stage \in MergeStages
    BY MergeRowsPlain
  <2> QED  BY <1>2, <2>1, MergeStagesAre, Zenon
<1> QED  BY <1>1, <1>2, KindsOfRows

\* An event row is the first with its key exactly when its event repeats none.
LEMMA KeyOfEvents ==
    ASSUME NEW rows, NEW s, NEW trace, Consists(rows, s, trace), NEW p \in 1..Len(trace)
    PROVE  (\A j \in DOMAIN rows : Standing(rows, j, s + 2 + p) => RowKey(rows[j]) # RowKey(rows[s + 2 + p]))
              <=> ~Repeated(trace, p)
<1> USE TimelineAssumption
<1> DEFINE i == s + 2 + p
<1>1. /\ i \in DOMAIN rows /\ p \in Nat /\ p > 0 /\ s \in Nat /\ Len(trace) \in Nat
      /\ rows[i].stage = trace[p].type /\ rows[i].time = trace[p].at
      /\ rows[i].label = IF p <= Numbered THEN p ELSE 0
      /\ trace[p].type \in EventTypes /\ trace[p].at \in Int
  <2>1. StandsFor(rows, s, trace, p)  BY EventsOfRows
  <2> QED  BY <2>1 DEF StandsFor
<1>2. ASSUME NEW j \in DOMAIN rows, Standing(rows, j, i), RowKey(rows[j]) = RowKey(rows[i])
      PROVE  Repeated(trace, p)
  <2>1. rows[j].stage = rows[i].stage /\ rows[j].label = rows[i].label /\ rows[j].time = rows[i].time
    BY <1>2, KeysOfRows
  <2>2. PICK q \in 1..Len(trace) : j = s + 2 + q  BY <1>1, <2>1, StagesOfRows
  <2>3. /\ q \in Nat /\ q > 0 /\ rows[j].stage = trace[q].type /\ rows[j].time = trace[q].at
        /\ rows[j].label = IF q <= Numbered THEN q ELSE 0
        /\ timelinePhaseOrder(rows[j]) = PhaseOfEvent[trace[q].type]
        /\ PhaseOfEvent[trace[q].type] \in Int
    <3>1. StandsFor(rows, s, trace, q)  BY EventsOfRows
    <3> QED  BY <2>2, <3>1 DEF StandsFor
  <2>4. timelinePhaseOrder(rows[i]) = PhaseOfEvent[trace[p].type]
    <3>1. StandsFor(rows, s, trace, p)  BY EventsOfRows
    <3> QED  BY <3>1 DEF StandsFor
  <2>5. trace[q].type = trace[p].type /\ trace[q].at = trace[p].at  BY <1>1, <2>1, <2>3
  <2> DEFINE f == PhaseOfEvent[trace[p].type]  t == trace[p].at
  <2>6. timelinePhaseOrder(rows[i]) = f /\ timelinePhaseOrder(rows[j]) = f /\ f \in Int
        /\ rows[i].time = t /\ rows[j].time = t /\ t \in Int
    BY <1>1, <2>3, <2>4, <2>5
  <2> HIDE DEF f, t
  <2>7. j < i
    <3> HIDE DEF i
    <3> QED  BY <1>2, <2>6 DEF Standing
  <2>8. q < p  BY <1>1, <2>2, <2>3, <2>7
  <2>9. (IF q <= Numbered THEN q ELSE 0) = (IF p <= Numbered THEN p ELSE 0)  BY <1>1, <2>1, <2>3
  <2>10. q > Numbered  BY <1>1, <2>3, <2>8, <2>9
  <2>11. q \in (Numbered + 1)..(p - 1)  BY <1>1, <2>3, <2>8, <2>10
  <2> QED  BY <2>5, <2>11 DEF Repeated
<1>3. ASSUME Repeated(trace, p)
      PROVE  \E j \in DOMAIN rows : Standing(rows, j, i) /\ RowKey(rows[j]) = RowKey(rows[i])
  <2>1. PICK q \in (Numbered + 1)..(p - 1) : trace[q].type = trace[p].type /\ trace[q].at = trace[p].at
    BY <1>3 DEF Repeated
  <2>2. q \in 1..Len(trace) /\ q < p /\ ~(q <= Numbered) /\ ~(p <= Numbered)  BY <1>1
  <2> DEFINE j == s + 2 + q
  <2>3. /\ j \in DOMAIN rows /\ q \in Nat /\ rows[j].stage = trace[q].type /\ rows[j].time = trace[q].at
        /\ rows[j].label = IF q <= Numbered THEN q ELSE 0
        /\ timelinePhaseOrder(rows[j]) = PhaseOfEvent[trace[q].type]
    <3>1. StandsFor(rows, s, trace, q)  BY <2>2, EventsOfRows
    <3> QED  BY <3>1 DEF StandsFor
  <2>4. timelinePhaseOrder(rows[i]) = PhaseOfEvent[trace[p].type] /\ PhaseOfEvent[trace[p].type] \in Int
    <3>1. StandsFor(rows, s, trace, p)  BY EventsOfRows
    <3> QED  BY <3>1 DEF StandsFor
  <2>5. rows[j].label = 0 /\ rows[i].label = 0  BY <1>1, <2>2, <2>3
  <2>6. j < i  BY <1>1, <2>2, <2>3
  <2> HIDE DEF i, j
  <2>7. RowKey(rows[j]) = RowKey(rows[i])  BY <1>1, <2>1, <2>3, <2>5, KeysOfRows
  <2>8. Standing(rows, j, i)  BY <1>1, <2>1, <2>3, <2>4, <2>6 DEF Standing
  <2> QED  BY <2>3, <2>7, <2>8
<1> QED  BY <1>2, <1>3

(***************************************************************************)
(* The lanes                                                               *)
(***************************************************************************)
LEMMA LanesAre ==
    /\ DOMAIN Lanes = 1..6
    /\ Lanes[1] = "detect" /\ Lanes[2] = "discover" /\ Lanes[3] = "diagnose"
    /\ Lanes[4] = "decide" /\ Lanes[5] = "act" /\ Lanes[6] = "validate"
BY DEF Lanes

\* The names of the six lanes.
LEMMA LaneNamed ==
    \A name \in {"detect", "discover", "diagnose", "decide", "act", "validate"} : \E n \in 1..6 : name = Lanes[n]
<1>1. 1 \in 1..6 /\ 2 \in 1..6 /\ 3 \in 1..6 /\ 4 \in 1..6 /\ 5 \in 1..6 /\ 6 \in 1..6  OBVIOUS
<1> QED  BY <1>1, LanesAre

\* A row is in the lane that is named for it.
LEMMA LaneOfName ==
    ASSUME NEW r, NEW n \in 1..6, laneIdForRow(r) = Lanes[n]
    PROVE  \A i \in 1..6 : LaneHit(r, Lanes[i]) <=> i = n
<1>1. \A i \in 1..6 : i = 1 \/ i = 2 \/ i = 3 \/ i = 4 \/ i = 5 \/ i = 6  OBVIOUS
<1>2. \A i \in 1..6 : Lanes[i] = Lanes[n] => i = n  BY <1>1, LanesAre
<1>3. Lanes[n] # ""  BY <1>1, LanesAre
<1>4. \A i \in 1..6 : LaneHit(r, Lanes[i]) <=> Lanes[n] = Lanes[i]  BY <1>3, Zenon DEF LaneHit
<1> QED  BY <1>2, <1>4

\* A row of the flow has a lane.
LEMMA LaneOfStage ==
    ASSUME NEW r, NEW order, order = r.order, order \in Orders, NEW stage, stage = r.stage, stage \in StageNames
    PROVE  /\ \E n \in 1..6 : laneIdForRow(r) = Lanes[n]
           /\ order = 150 => laneIdForRow(r) = Lanes[5]
<1>1. stage \notin EventTypes /\ stage \notin MergeStages  BY NamesOfStages
<1>2. /\ stage # "closure.completed" /\ stage # "remediation.executed" /\ stage # "approval.recorded"
      /\ stage # "context.collected" /\ stage # "alert.enriched"
  <2>1. EventTypes = {"alert.enriched", "workflow.selected", "context.collected", "recommendation.generated",
                      "approval.recorded", "remediation.executed", "closure.completed"}
    BY EventTypesAre
  <2> QED  BY <1>1, <2>1
<1>3. stage # "Context Agent Published RCA Context" /\ stage # "Context Agent Merged Inputs"
  BY <1>1 DEF MergeStages
<1> DEFINE a == order >= 170 \/ stage = "closure.completed"
           b == order \in 150..169 \/ stage = "remediation.executed"
           c == order \in 130..149 \/ stage = "approval.recorded"
           d == order \in 100..129 \/ stage = "Context Agent Published RCA Context"
           e == order \in 50..99 \/ stage \in {"context.collected", "Context Agent Merged Inputs"}
           f == order \in 1..49 \/ stage = "alert.enriched"
           lane == laneIdForRow(r)
<1>4. lane = CASE a -> "validate" [] b -> "act" [] c -> "decide" [] d -> "diagnose"
               [] e -> "discover" [] f -> "detect" [] OTHER -> ""
  BY DEF laneIdForRow
<1>5. \/ order = 170 /\ lane = "validate"
      \/ order \in {150, 160} /\ lane = "act"
      \/ order \in {130, 140} /\ lane = "decide"
      \/ order \in {100, 110, 120} /\ lane = "diagnose"
      \/ order \in {50, 60, 70, 80, 85, 90} /\ lane = "discover"
      \/ order \in {10, 20, 30, 40} /\ lane = "detect"
  <2>1. /\ a <=> order >= 170
        /\ b <=> order \in 150..169
        /\ c <=> order \in 130..149
        /\ d <=> order \in 100..129
        /\ e <=> order \in 50..99
        /\ f <=> order \in 1..49
    BY <1>2, <1>3, Zenon
  <2> HIDE DEF a, b, c, d, e, f, lane
  <2>2. \/ order = 170 /\ a /\ ~b /\ ~c /\ ~d /\ ~e /\ ~f
        \/ order \in {150, 160} /\ ~a /\ b /\ ~c /\ ~d /\ ~e /\ ~f
        \/ order \in {130, 140} /\ ~a /\ ~b /\ c /\ ~d /\ ~e /\ ~f
        \/ order \in {100, 110, 120} /\ ~a /\ ~b /\ ~c /\ d /\ ~e /\ ~f
        \/ order \in {50, 60, 70, 80, 85, 90} /\ ~a /\ ~b /\ ~c /\ ~d /\ e /\ ~f
        \/ order \in {10, 20, 30, 40} /\ ~a /\ ~b /\ ~c /\ ~d /\ ~e /\ f
    BY <2>1 DEF Orders
  <2>3. CASE order = 170 /\ a /\ ~b /\ ~c /\ ~d /\ ~e /\ ~f  BY <1>4, <2>3
  <2>4. CASE order \in {150, 160} /\ ~a /\ b /\ ~c /\ ~d /\ ~e /\ ~f  BY <1>4, <2>4
  <2>5. CASE order \in {130, 140} /\ ~a /\ ~b /\ c /\ ~d /\ ~e /\ ~f  BY <1>4, <2>5
  <2>6. CASE order \in {100, 110, 120} /\ ~a /\ ~b /\ ~c /\ d /\ ~e /\ ~f  BY <1>4, <2>6
  <2>7. CASE order \in {50, 60, 70, 80, 85, 90} /\ ~a /\ ~b /\ ~c /\ ~d /\ e /\ ~f  BY <1>4, <2>7
  <2>8. CASE order \in {10, 20, 30, 40} /\ ~a /\ ~b /\ ~c /\ ~d /\ ~e /\ f  BY <1>4, <2>8
  <2> QED  BY <2>2, <2>3, <2>4, <2>5, <2>6, <2>7, <2>8
<1>6. order = 150 => lane = Lanes[5]
  <2> HIDE DEF lane
  <2> QED  BY <1>5, LanesAre
<1>7. \E n \in 1..6 : lane = Lanes[n]
  <2>1. lane \in {"detect", "discover", "diagnose", "decide", "act", "validate"}
    <3> HIDE DEF lane
    <3> QED  BY <1>5
  <2> QED  BY <2>1, LaneNamed
<1> QED  BY <1>6, <1>7

\* A row of an event has a lane.
LEMMA LaneOfEvent ==
    ASSUME NEW r, NEW order, order = r.order, order = 0, NEW stage, stage = r.stage, stage \in EventTypes
    PROVE  /\ \E i \in 1..6 : LaneHit(r, Lanes[i])
           /\ stage = "approval.recorded" => laneIdForRow(r) = Lanes[4]
           /\ stage = "remediation.executed" => laneIdForRow(r) = Lanes[5]
<1>1. EventTypes = {"alert.enriched", "workflow.selected", "context.collected", "recommendation.generated",
                    "approval.recorded", "remediation.executed", "closure.completed"}
  BY EventTypesAre
<1> DEFINE lane == laneIdForRow(r)
<1>2. lane =
         CASE order >= 170 \/ stage = "closure.completed" -> "validate"
           [] order \in 150..169 \/ stage = "remediation.executed" -> "act"
           [] order \in 130..149 \/ stage = "approval.recorded" -> "decide"
           [] order \in 100..129 \/ stage = "Context Agent Published RCA Context" -> "diagnose"
           [] order \in 50..99 \/ stage \in {"context.collected", "Context Agent Merged Inputs"} -> "discover"
           [] order \in 1..49 \/ stage = "alert.enriched" -> "detect"
           [] OTHER -> ""
  BY DEF laneIdForRow
<1>3. \/ stage = "closure.completed" /\ lane = "validate"
      \/ stage = "remediation.executed" /\ lane = "act"
      \/ stage = "approval.recorded" /\ lane = "decide"
      \/ stage = "context.collected" /\ lane = "discover"
      \/ stage = "alert.enriched" /\ lane = "detect"
      \/ stage = "workflow.selected" /\ lane = ""
      \/ stage = "recommendation.generated" /\ lane = ""
  <2>1. lane =
         CASE stage = "closure.completed" -> "validate"
           [] stage = "remediation.executed" -> "act"
           [] stage = "approval.recorded" -> "decide"
           [] stage = "Context Agent Published RCA Context" -> "diagnose"
           [] stage \in {"context.collected", "Context Agent Merged Inputs"} -> "discover"
           [] stage = "alert.enriched" -> "detect"
           [] OTHER -> ""
    <3> HIDE DEF lane
    <3>1. /\ ~(order >= 170) /\ order \notin 150..169 /\ order \notin 130..149 /\ order \notin 100..129
          /\ order \notin 50..99 /\ order \notin 1..49
      OBVIOUS
    <3> QED  BY <1>2, <3>1
  <2> HIDE DEF lane
  <2> QED  BY <1>1, <2>1
<1>4. \E i \in 1..6 : LaneHit(r, Lanes[i])
  <2>1. CASE \E n \in 1..6 : lane = Lanes[n]
    <3>1. PICK n \in 1..6 : lane = Lanes[n]  BY <2>1
    <3>2. LaneHit(r, Lanes[n]) <=> n = n  BY <3>1, LaneOfName
    <3> QED  BY <3>2
  <2>2. CASE stage = "workflow.selected" /\ lane = ""
    <3>1. LanesOfText(r) = {"detect"}  BY <2>2 DEF LanesOfText
    <3>2. LaneHit(r, Lanes[1])  BY <2>2, <3>1, LanesAre DEF LaneHit
    <3> QED  BY <3>2
  <2>3. CASE stage = "recommendation.generated" /\ lane = ""
    <3>1. LanesOfText(r) = {"discover", "diagnose"}  BY <2>3 DEF LanesOfText
    <3>2. LaneHit(r, Lanes[2])  BY <2>3, <3>1, LanesAre DEF LaneHit
    <3> QED  BY <3>2
  <2>4. \/ \E n \in 1..6 : lane = Lanes[n]
        \/ stage = "workflow.selected" /\ lane = ""
        \/ stage = "recommendation.generated" /\ lane = ""
    <3>1. \/ lane \in {"detect", "discover", "diagnose", "decide", "act", "validate"}
          \/ stage = "workflow.selected" /\ lane = ""
          \/ stage = "recommendation.generated" /\ lane = ""
      <4> HIDE DEF lane
      <4> QED  BY <1>3
    <3> QED  BY <3>1, LaneNamed
  <2> QED  BY <2>1, <2>2, <2>3, <2>4
<1>5. (stage = "approval.recorded" => lane = Lanes[4]) /\ (stage = "remediation.executed" => lane = Lanes[5])
  <2> HIDE DEF lane
  <2> QED  BY <1>3, LanesAre
<1> QED  BY <1>4, <1>5

\* The rows of the context agent have theirs.
LEMMA LaneOfMerge ==
    ASSUME NEW r, NEW order, order = r.order, order = 0, NEW stage, stage = r.stage, stage \in MergeStages
    PROVE  \E n \in 1..6 : laneIdForRow(r) = Lanes[n]
<1> DEFINE a == order >= 170 \/ stage = "closure.completed"
           b == order \in 150..169 \/ stage = "remediation.executed"
           c == order \in 130..149 \/ stage = "approval.recorded"
           d == order \in 100..129 \/ stage = "Context Agent Published RCA Context"
           e == order \in 50..99 \/ stage \in {"context.collected", "Context Agent Merged Inputs"}
           f == order \in 1..49 \/ stage = "alert.enriched"
           lane == laneIdForRow(r)
<1>1. lane = CASE a -> "validate" [] b -> "act" [] c -> "decide" [] d -> "diagnose"
               [] e -> "discover" [] f -> "detect" [] OTHER -> ""
  BY DEF laneIdForRow
<1>2. /\ ~(order >= 170) /\ order \notin 150..169 /\ order \notin 130..149 /\ order \notin 100..129
      /\ order \notin 50..99
  OBVIOUS
<1>3. /\ stage # "closure.completed" /\ stage # "remediation.executed" /\ stage # "approval.recorded"
      /\ stage = "Context Agent Published RCA Context" \/ stage = "Context Agent Merged Inputs"
      /\ stage # "alert.enriched"
  BY DEF MergeStages
<1>4. ~a /\ ~b /\ ~c  BY <1>2, <1>3, Zenon
<1>5. ~f
  <2>1. order \notin 1..49  OBVIOUS
  <2> QED  BY <1>3, <2>1, Zenon
<1>6. d <=> stage = "Context Agent Published RCA Context"  BY <1>2, Zenon
<1>7. ~d => e  BY <1>3, <1>6
<1> HIDE DEF a, b, c, d, e, f, lane
<1>8. lane = "diagnose" \/ lane = "discover"
  <2>1. CASE d /\ ~e  BY <1>1, <1>4, <1>5, <2>1
  <2>2. CASE e /\ ~d  BY <1>1, <1>4, <1>5, <2>2
  <2>3. ~(d /\ e)
    <3>1. ~(stage = "Context Agent Published RCA Context" /\ stage \in {"context.collected", "Context Agent Merged Inputs"})
      OBVIOUS
    <3> QED  BY <1>2, <1>6, <3>1, Zenon DEF e
  <2> QED  BY <1>7, <2>1, <2>2, <2>3
<1> QED  BY <1>8, LanesAre DEF lane

\* So every row hits a lane, and a row that hits a lane is in one.
LEMMA RowsHitLanes ==
    ASSUME NEW rows, NEW s, NEW trace, Consists(rows, s, trace), NEW i \in DOMAIN rows
    PROVE  \E n \in 1..6 : LaneHit(rows[i], Lanes[n])
<1>1. CASE \E n \in 1..6 : laneIdForRow(rows[i]) = Lanes[n]
  <2>1. PICK n \in 1..6 : laneIdForRow(rows[i]) = Lanes[n]  BY <1>1
  <2>2. LaneHit(rows[i], Lanes[n]) <=> n = n  BY <2>1, LaneOfName
  <2> QED  BY <2>2
<1>2. CASE rows[i] \in StageRows
  <2> DEFINE order == rows[i].order  stage == rows[i].stage
  <2>1. order \in Orders /\ stage \in StageNames  BY <1>2 DEF StageRows, StageRecords
  <2>2. \E n \in 1..6 : laneIdForRow(rows[i]) = Lanes[n]  BY <2>1, LaneOfStage
  <2> QED  BY <1>1, <2>2
<1>3. CASE rows[i] = MergeRows[1] \/ rows[i] = MergeRows[2]
  <2>1. /\ MergeRows[1].order = 0 /\ MergeRows[1].stage \in MergeStages
        /\ MergeRows[2].order = 0 /\ MergeRows[2].stage \in MergeStages
    BY MergeRowsPlain
  <2>2. (\E n \in 1..6 : laneIdForRow(MergeRows[1]) = Lanes[n]) /\ (\E n \in 1..6 : laneIdForRow(MergeRows[2]) = Lanes[n])
    BY <2>1, LaneOfMerge
  <2> QED  BY <1>1, <1>3, <2>2, Zenon
<1>4. CASE \E p \in 1..Len(trace) : rows[i] = EventRow(trace, p) /\ trace[p] \in KeptEvents
  <2>1. PICK p \in 1..Len(trace) : rows[i] = EventRow(trace, p) /\ trace[p] \in KeptEvents  BY <1>4
  <2>2. trace[p].type \in EventTypes  BY <2>1 DEF KeptEvents
  <2>3. EventRow(trace, p).order = 0 /\ EventRow(trace, p).stage = trace[p].type  BY DEF EventRow
  <2>4. \E n \in 1..6 : LaneHit(EventRow(trace, p), Lanes[n])  BY <2>2, <2>3, LaneOfEvent
  <2> QED  BY <2>1, <2>4
<1> QED  BY <1>2, <1>3, <1>4, KindsOfRows

\* A row that belongs to a lane is claimed by one of them, and by one only.
LEMMA InOneLane ==
    ASSUME NEW rows, NEW k, \E n \in 1..6 : LaneHit(rows[k], Lanes[n])
    PROVE  Cardinality({i \in DOMAIN Lanes : Claimed(rows, k, i)}) = 1
<1> DEFINE hits == {n \in 1..6 : LaneHit(rows[k], Lanes[n])}
<1>1. hits \in SUBSET (1..6) /\ hits # {} /\ 6 \in Nat  OBVIOUS
<1>2. PICK m \in hits : \A n \in hits : m <= n  BY <1>1, LeastOf
<1>3. m \in 1..6 /\ LaneHit(rows[k], Lanes[m]) /\ \A n \in 1..6 : LaneHit(rows[k], Lanes[n]) => m <= n  BY <1>2
<1>4. \A i \in 1..6 : Claimed(rows, k, i) <=> i = m
  <2> TAKE i \in 1..6
  <2>1. i \in Int /\ m \in Int  BY <1>3
  <2>2. Claimed(rows, k, i) <=> LaneHit(rows[k], Lanes[i]) /\ \A j \in 1..(i - 1) : ~LaneHit(rows[k], Lanes[j])
    BY DEF Claimed
  <2>3. ASSUME i = m PROVE Claimed(rows, k, i)
    <3>1. \A j \in 1..(m - 1) : j \in 1..6 /\ ~(m <= j)  BY <1>3
    <3>2. \A j \in 1..(m - 1) : ~LaneHit(rows[k], Lanes[j])  BY <1>3, <3>1
    <3> QED  BY <1>3, <2>2, <2>3, <3>2
  <2>4. ASSUME Claimed(rows, k, i) PROVE i = m
    <3>1. LaneHit(rows[k], Lanes[i]) /\ \A j \in 1..(i - 1) : ~LaneHit(rows[k], Lanes[j])  BY <2>2, <2>4
    <3>2. m <= i  BY <1>3, <3>1
    <3>3. ~(m < i)
      <4> SUFFICES ASSUME m < i PROVE FALSE  OBVIOUS
      <4>1. m \in 1..(i - 1)  BY <1>3, <2>1
      <4> QED  BY <1>3, <3>1, <4>1
    <3> QED  BY <2>1, <3>2, <3>3
  <2> QED  BY <2>3, <2>4
<1>5. DOMAIN Lanes = 1..6  BY LanesAre
<1>6. {i \in DOMAIN Lanes : Claimed(rows, k, i)} = {m}  BY <1>3, <1>4, <1>5
<1> QED  BY <1>6, FS_Singleton

\* A row that is named for a lane is claimed by that one and by no other.
LEMMA ClaimedByName ==
    ASSUME NEW rows, NEW k, NEW n \in 1..6, laneIdForRow(rows[k]) = Lanes[n]
    PROVE  \A i \in 1..6 : Claimed(rows, k, i) <=> i = n
<1> TAKE i \in 1..6
<1>1. \A j \in 1..6 : LaneHit(rows[k], Lanes[j]) <=> j = n  BY LaneOfName
<1>2. Claimed(rows, k, i) <=> LaneHit(rows[k], Lanes[i]) /\ \A j \in 1..(i - 1) : ~LaneHit(rows[k], Lanes[j])
  BY DEF Claimed
<1>3. i \in Int /\ n \in Int /\ \A j \in 1..(i - 1) : j \in 1..6 /\ j # i  OBVIOUS
<1> QED  BY <1>1, <1>2, <1>3

(***************************************************************************)
(* The events stand in order                                               *)
(***************************************************************************)
\* The rows of events that are shown.
LEMMA ShownEvents ==
    ASSUME NEW unordered, NEW s, NEW trace, Consists(unordered, s, trace),
           NEW rows, NEW place, ShowsInTurn(unordered, rows, place)
    PROVE  /\ \A k \in DOMAIN rows : rows[k].from # 0 =>
                 \E p \in 1..Len(trace) :
                    /\ ~Repeated(trace, p) /\ place[k] = s + 2 + p
                    /\ rows[k].from = trace[p].nth /\ rows[k].stage = trace[p].type
           /\ \A p \in 1..Len(trace) : ~Repeated(trace, p) =>
                 \E k \in DOMAIN rows : place[k] = s + 2 + p /\ rows[k].from = trace[p].nth /\ rows[k].from # 0
<1>1. /\ place \in [DOMAIN rows -> DOMAIN unordered]
      /\ \A k \in DOMAIN rows : rows[k] = unordered[place[k]]
      /\ \A i \in DOMAIN unordered :
            (\E k \in DOMAIN rows : place[k] = i)
               <=> \A j \in DOMAIN unordered : Standing(unordered, j, i) => RowKey(unordered[j]) # RowKey(unordered[i])
  BY DEF ShowsInTurn
<1>2. ASSUME NEW p \in 1..Len(trace)
      PROVE  /\ (\E k \in DOMAIN rows : place[k] = s + 2 + p) <=> ~Repeated(trace, p)
             /\ unordered[s + 2 + p].from = trace[p].nth /\ unordered[s + 2 + p].stage = trace[p].type
             /\ trace[p].nth # 0
  <2> DEFINE i == s + 2 + p
  <2>1. /\ i \in DOMAIN unordered /\ unordered[i].from = trace[p].nth /\ unordered[i].stage = trace[p].type
        /\ trace[p].nth # 0
    <3>1. StandsFor(unordered, s, trace, p)  BY EventsOfRows
    <3> QED  BY <3>1 DEF StandsFor
  <2>2. (\A j \in DOMAIN unordered : Standing(unordered, j, i) => RowKey(unordered[j]) # RowKey(unordered[i]))
           <=> ~Repeated(trace, p)
    BY KeyOfEvents
  <2> HIDE DEF i
  <2>3. (\E k \in DOMAIN rows : place[k] = i) <=> ~Repeated(trace, p)  BY <1>1, <2>1, <2>2
  <2> QED  BY <2>1, <2>3 DEF i
<1>3. ASSUME NEW k \in DOMAIN rows, rows[k].from # 0
      PROVE  \E p \in 1..Len(trace) :
                /\ ~Repeated(trace, p) /\ place[k] = s + 2 + p
                /\ rows[k].from = trace[p].nth /\ rows[k].stage = trace[p].type
  <2>1. place[k] \in DOMAIN unordered /\ rows[k] = unordered[place[k]]  BY <1>1
  <2>2. unordered[place[k]].from # 0  BY <1>3, <2>1
  <2>3. PICK p \in 1..Len(trace) : place[k] = s + 2 + p  BY <2>1, <2>2, StagesOfRows
  <2>4. ~Repeated(trace, p)  BY <1>2, <2>3
  <2>5. unordered[place[k]].from = trace[p].nth /\ unordered[place[k]].stage = trace[p].type  BY <1>2, <2>3
  <2> QED  BY <2>1, <2>3, <2>4, <2>5
<1>4. ASSUME NEW p \in 1..Len(trace), ~Repeated(trace, p)
      PROVE  \E k \in DOMAIN rows : place[k] = s + 2 + p /\ rows[k].from = trace[p].nth /\ rows[k].from # 0
  <2>1. PICK k \in DOMAIN rows : place[k] = s + 2 + p  BY <1>2, <1>4
  <2>2. rows[k] = unordered[s + 2 + p]  BY <1>1, <2>1
  <2> QED  BY <1>2, <2>1, <2>2
<1> QED  BY <1>3, <1>4

InOrder(trace, unordered, rows) ==
    LET events == {k \in DOMAIN rows : rows[k].from # 0}
    IN  /\ KeepsTheLatest(trace)
        /\ {RankOf(unordered, i) : i \in DOMAIN unordered} = DOMAIN unordered
        /\ {rows[k].from : k \in events} = {trace[p].nth : p \in {q \in DOMAIN trace : ~Repeated(trace, q)}}
        /\ \A k, l \in events : k < l => /\ rows[k].from # rows[l].from
                                       /\ Place(rows[k].stage) <= Place(rows[l].stage)
        /\ \A k \in DOMAIN rows : Cardinality({i \in DOMAIN Lanes : Claimed(rows, k, i)}) = 1

\* EventsStandInOrder, in the words of the lemmas above.
LEMMA OrderIsThis ==
    ASSUME InOrder(EventTrace(store), UnorderedRows(store), TimelineRows(UnorderedRows(store)))
    PROVE  EventsStandInOrder
<1> SUFFICES ASSUME store.trace # <<>>, NEW trace \in {EventTrace(store)}, NEW unordered \in {UnorderedRows(store)},
                    NEW rows \in {TimelineRows(unordered)}
             PROVE  InOrder(trace, unordered, rows)
  BY Zenon DEF EventsStandInOrder, InOrder
<1>1. trace = EventTrace(store) /\ unordered = UnorderedRows(store) /\ rows = TimelineRows(unordered)  OBVIOUS
<1> QED  BY <1>1

\* The invariant is enough for it: everything above is about any store it allows.
LEMMA OrderHolds == TimelineInv => EventsStandInOrder
<1> SUFFICES ASSUME TimelineInv PROVE EventsStandInOrder  OBVIOUS
<1>1. store \in Stores  BY DEF TimelineInv
<1> DEFINE trace == EventTrace(store)
           unordered == UnorderedRows(store)
           rows == TimelineRows(unordered)
           events == {k \in DOMAIN rows : rows[k].from # 0}
<1>2. trace \in KeptTraces /\ KeepsTheLatest(trace)  BY <1>1, Kept
<1>3. PICK s \in Nat : Consists(unordered, s, trace)  BY <1>1, UnorderedAre
<1>4. PICK place : ShowsInTurn(unordered, rows, place)  BY <1>3, RowsShown
<1>5. {RankOf(unordered, i) : i \in DOMAIN unordered} = DOMAIN unordered  BY <1>3, RowsSorted
<1> HIDE DEF trace, unordered, rows
<1>6. DOMAIN trace = 1..Len(trace) /\ \A p, q \in DOMAIN trace : trace[p].nth = trace[q].nth => p = q
  BY <1>2, LenProperties DEF KeptTraces
<1>7. /\ place \in [DOMAIN rows -> DOMAIN unordered]
      /\ \A k \in DOMAIN rows : rows[k] = unordered[place[k]]
      /\ \A k, l \in DOMAIN rows : k < l => Standing(unordered, place[k], place[l])
  BY <1>4 DEF ShowsInTurn
<1>8. /\ \A k \in DOMAIN rows : rows[k].from # 0 =>
            \E p \in 1..Len(trace) : /\ ~Repeated(trace, p) /\ place[k] = s + 2 + p
                                     /\ rows[k].from = trace[p].nth /\ rows[k].stage = trace[p].type
      /\ \A p \in 1..Len(trace) : ~Repeated(trace, p) =>
            \E k \in DOMAIN rows : place[k] = s + 2 + p /\ rows[k].from = trace[p].nth /\ rows[k].from # 0
  BY <1>3, <1>4, ShownEvents
<1>9. {rows[k].from : k \in events} = {trace[p].nth : p \in {q \in DOMAIN trace : ~Repeated(trace, q)}}
  <2>1. ASSUME NEW k \in events PROVE rows[k].from \in {trace[p].nth : p \in {q \in DOMAIN trace : ~Repeated(trace, q)}}
    BY <1>6, <1>8
  <2>2. ASSUME NEW p \in DOMAIN trace, ~Repeated(trace, p) PROVE \E k \in events : trace[p].nth = rows[k].from
    BY <1>6, <1>8, <2>2
  <2> QED  BY <2>1, <2>2
<1>10. ASSUME NEW k \in events, NEW l \in events, k < l
       PROVE  rows[k].from # rows[l].from /\ Place(rows[k].stage) <= Place(rows[l].stage)
  <2>1. PICK p \in 1..Len(trace) :
           place[k] = s + 2 + p /\ rows[k].from = trace[p].nth /\ rows[k].stage = trace[p].type
    BY <1>8
  <2>2. PICK q \in 1..Len(trace) :
           place[l] = s + 2 + q /\ rows[l].from = trace[q].nth /\ rows[l].stage = trace[q].type
    BY <1>8
  <2> DEFINE i == s + 2 + p  j == s + 2 + q
  <2>3. Standing(unordered, i, j)
    <3>1. Standing(unordered, place[k], place[l])  BY <1>7, <1>10
    <3> QED  BY <2>1, <2>2, <3>1
  <2>4. /\ timelinePhaseOrder(unordered[i]) = PhaseOfEvent[trace[p].type] /\ PhaseOfEvent[trace[p].type] \in Int
        /\ trace[p].type \in EventTypes /\ unordered[i].time \in Int /\ i \in Int
    <3>1. StandsFor(unordered, s, trace, p)  BY <1>3, EventsOfRows
    <3> QED  BY <3>1 DEF StandsFor
  <2>5. /\ timelinePhaseOrder(unordered[j]) = PhaseOfEvent[trace[q].type] /\ PhaseOfEvent[trace[q].type] \in Int
        /\ trace[q].type \in EventTypes
    <3>1. StandsFor(unordered, s, trace, q)  BY <1>3, EventsOfRows
    <3> QED  BY <3>1 DEF StandsFor
  <2>6. ~Standing(unordered, i, i)
    <3> HIDE DEF i
    <3> QED  BY <2>4 DEF Standing
  <2>7. p # q  BY <2>3, <2>6
  <2>8. rows[k].from # rows[l].from  BY <1>6, <2>1, <2>2, <2>7
  <2>9. PhaseOfEvent[trace[p].type] <= PhaseOfEvent[trace[q].type]
    <3> HIDE DEF i, j
    <3> QED  BY <2>3, <2>4, <2>5 DEF Standing
  <2>10. Place(trace[p].type) <= Place(trace[q].type)  BY <2>4, <2>5, <2>9, PhasesFollow
  <2> QED  BY <2>1, <2>2, <2>8, <2>10
<1>11. ASSUME NEW k \in DOMAIN rows PROVE Cardinality({i \in DOMAIN Lanes : Claimed(rows, k, i)}) = 1
  <2>1. place[k] \in DOMAIN unordered /\ rows[k] = unordered[place[k]]  BY <1>7
  <2>2. \E n \in 1..6 : LaneHit(unordered[place[k]], Lanes[n])  BY <1>3, <2>1, RowsHitLanes
  <2>3. \E n \in 1..6 : LaneHit(rows[k], Lanes[n])  BY <2>1, <2>2
  <2> QED  BY <2>3, InOneLane
<1>12. InOrder(trace, unordered, rows)  BY <1>2, <1>5, <1>9, <1>10, <1>11 DEF InOrder
<1> QED  BY <1>12, OrderIsThis DEF trace, unordered, rows

(***************************************************************************)
(* Failures are shown                                                      *)
(***************************************************************************)
\* Every row is in a section of its kind.
LEMMA SectionOf ==
    ASSUME NEW n \in Nat, NEW rows, DOMAIN rows = 1..n, Len(rows) = n, NEW k \in 1..n
    PROVE  \E s \in buildDynamicFlowSections(rows) :
              /\ k \in s[1]..s[2]
              /\ classifyFlowStageFromRow(rows[s[1]]) = classifyFlowStageFromRow(rows[k])
<1> DEFINE Kind(j) == classifyFlowStageFromRow(rows[j])
           A == {a \in 1..k : \A j \in a..k : Kind(j) = Kind(k)}
           B == {b \in 1..n : k <= b /\ \A j \in k..b : Kind(j) = Kind(k)}
<1>0. k \in Nat /\ k <= n /\ 1 <= k  OBVIOUS
<1>1. k \in A /\ k \in B
  <2>1. \A j \in k..k : j = k  BY <1>0
  <2> QED  BY <1>0, <2>1
<1>2. A \in SUBSET (1..k) /\ A # {}  BY <1>0, <1>1
<1>3. B \in SUBSET (1..n) /\ B # {}  BY <1>1
<1>4. PICK a \in A : \A j \in A : a <= j  BY <1>0, <1>2, LeastOf
<1>5. PICK b \in B : \A j \in B : j <= b  BY <1>3, GreatestOf
<1>6. a \in Nat /\ 1 <= a /\ a <= k /\ \A j \in a..k : Kind(j) = Kind(k)  BY <1>0, <1>4
<1>7. b \in Nat /\ b <= n /\ k <= b /\ \A j \in k..b : Kind(j) = Kind(k)  BY <1>0, <1>5
<1> HIDE DEF Kind
<1>8. a = 1 \/ Kind(a - 1) # Kind(a)
  <2> SUFFICES ASSUME a # 1, Kind(a - 1) = Kind(a) PROVE FALSE  OBVIOUS
  <2>1. Kind(a) = Kind(k)  BY <1>0, <1>6
  <2>2. \A j \in (a - 1)..k : j = a - 1 \/ j \in a..k  BY <1>0, <1>6
  <2>3. \A j \in (a - 1)..k : Kind(j) = Kind(k)  BY <1>6, <2>1, <2>2
  <2>4. a - 1 \in A  BY <1>0, <1>6, <2>3
  <2> QED  BY <1>4, <1>6, <2>4
<1>9. b = n \/ Kind(b + 1) # Kind(b)
  <2> SUFFICES ASSUME b # n, Kind(b + 1) = Kind(b) PROVE FALSE  OBVIOUS
  <2>1. Kind(b) = Kind(k)  BY <1>0, <1>7
  <2>2. \A j \in k..(b + 1) : j = b + 1 \/ j \in k..b  BY <1>0, <1>7
  <2>3. \A j \in k..(b + 1) : Kind(j) = Kind(k)  BY <1>7, <2>1, <2>2
  <2>4. b + 1 \in B  BY <1>0, <1>7, <2>3
  <2> QED  BY <1>5, <1>7, <2>4
<1>10. Kind(a) = Kind(k) /\ Kind(b) = Kind(k) /\ \A j \in a..b : Kind(j) = Kind(k)
  <2>1. \A j \in a..b : j \in a..k \/ j \in k..b  BY <1>0, <1>6, <1>7
  <2> QED  BY <1>0, <1>6, <1>7, <2>1
<1> DEFINE s == <<a, b>>
<1>11. s \in (1..n) \X (1..n) /\ s[1] = a /\ s[2] = b  BY <1>0, <1>6, <1>7
<1> HIDE DEF s
<1>12. s \in buildDynamicFlowSections(rows)
  <2>1. /\ s[1] <= s[2] /\ \A j \in s[1]..s[2] : Kind(j) = Kind(s[1])
        /\ s[1] = 1 \/ Kind(s[1] - 1) # Kind(s[1])
        /\ s[2] = Len(rows) \/ Kind(s[2] + 1) # Kind(s[2])
    BY <1>0, <1>6, <1>7, <1>8, <1>9, <1>10, <1>11
  <2>2. s \in (DOMAIN rows) \X (DOMAIN rows)  BY <1>11
  <2> QED  BY <2>1, <2>2 DEF buildDynamicFlowSections, Kind
<1>13. k \in s[1]..s[2] /\ Kind(s[1]) = Kind(k)  BY <1>0, <1>6, <1>7, <1>10, <1>11
<1> QED  BY <1>12, <1>13 DEF Kind

\* What fails a lane.
LEMMA LaneFails ==
    ASSUME NEW rows, NEW i
    PROVE  LaneStatus(rows, i) = "failed"
              <=> \E k \in DOMAIN rows : Claimed(rows, k, i) /\ timelineRowHasError(rows[k])
<1> DEFINE mine == {rows[k] : k \in LaneRows(rows, i)}
           failing == \E r \in mine : timelineRowHasError(r)
<1>1. LaneStatus(rows, i) =
         IF mine = {} THEN "waiting" ELSE IF StatusOfRows(mine) = "observed" THEN "complete" ELSE StatusOfRows(mine)
  BY DEF LaneStatus
<1>2. StatusOfRows(mine) = IF failing THEN "failed"
         ELSE IF \E r \in mine : timelineRowStatus(r) = "fallback" THEN "fallback" ELSE "observed"
  BY DEF StatusOfRows
<1>3. failing => mine # {}  OBVIOUS
<1>4. failing <=> \E k \in DOMAIN rows : Claimed(rows, k, i) /\ timelineRowHasError(rows[k])  BY DEF LaneRows
<1> HIDE DEF failing, mine
<1>5. LaneStatus(rows, i) = "failed" <=> failing
  <2>1. CASE failing  BY <1>1, <1>2, <1>3, <2>1
  <2>2. CASE ~failing
    <3>1. StatusOfRows(mine) = "fallback" \/ StatusOfRows(mine) = "observed"  BY <1>2, <2>2
    <3> QED  BY <1>1, <2>2, <3>1
  <2> QED  BY <2>1, <2>2
<1> QED  BY <1>4, <1>5

\* A section with a row that fails has failed.
LEMMA SectionFails ==
    ASSUME NEW rows, NEW s, NEW k \in s[1]..s[2], timelineRowHasError(rows[k])
    PROVE  StatusOfRows({rows[j] : j \in s[1]..s[2]}) = "failed"
<1> DEFINE V == {rows[j] : j \in s[1]..s[2]}
<1>1. \E r \in V : timelineRowHasError(r)  OBVIOUS
<1> HIDE DEF V
<1>2. StatusOfRows(V) = "failed"  BY <1>1 DEF StatusOfRows
<1> QED  BY <1>2 DEF V

\* An event of a decision or an execution that failed is an error, unless the reason says otherwise.
LEMMA FailingEvents ==
    ASSUME NEW trace, NEW p, trace[p] \in KeptEvents
    PROVE  /\ timelineRowHasError(EventRow(trace, p)) =>
                 trace[p].status = "failed" /\ trace[p].type \in {"approval.recorded", "remediation.executed"}
           /\ /\ trace[p].status = "failed" /\ trace[p].type \in {"approval.recorded", "remediation.executed"}
              /\ store.reason \cap {"fallback", "success"} = {}
              => timelineRowHasError(EventRow(trace, p))
<1> DEFINE e == trace[p]  words == EventWords(store, e)
<1>1. timelineRowHasError(EventRow(trace, p)) <=>
         extractEventError(e) /\ "fallback" \notin words /\ "success" \notin words /\ "failure" \in words
  <2>1. EventRow(trace, p).words = words  BY DEF EventRow
  <2>2. EventRow(trace, p).error = extractEventError(e)  BY DEF EventRow
  <2> QED  BY <2>1, <2>2, Zenon DEF timelineRowHasError
<1>2. extractEventError(e) <=> e.status = "failed"  BY DEF extractEventError, isFailureStatus
<1>3. words = (IF e.type \in {"closure.completed"} \/ e.status = "closed" THEN {"success"} ELSE {})
              \cup (IF e.status = "failed" THEN {"failure"} ELSE {})
              \cup (IF e.type \in {"alert.enriched", "closure.completed"} THEN {} ELSE store.reason)
  BY DEF EventWords, isFailureStatus
<1>4. e.status = "failed" => e.type \in {"approval.recorded", "remediation.executed", "closure.completed"}
  BY DEF KeptEvents, MayFail, FailingTypes
<1> HIDE DEF e, words
<1>5. ASSUME timelineRowHasError(EventRow(trace, p))
      PROVE  e.status = "failed" /\ e.type \in {"approval.recorded", "remediation.executed"}
  <2>1. e.status = "failed" /\ "success" \notin words  BY <1>1, <1>2, <1>5
  <2>2. e.type # "closure.completed"  BY <1>3, <2>1
  <2> QED  BY <1>4, <2>1, <2>2
<1>6. ASSUME e.status = "failed", e.type \in {"approval.recorded", "remediation.executed"},
             store.reason \cap {"fallback", "success"} = {}
      PROVE  timelineRowHasError(EventRow(trace, p))
  <2>1. words = {"failure"} \cup store.reason  BY <1>3, <1>6
  <2>2. "fallback" \notin words /\ "success" \notin words /\ "failure" \in words  BY <1>6, <2>1
  <2> QED  BY <1>1, <1>2, <1>6, <2>2
<1> QED  BY <1>5, <1>6 DEF e

\* Only these rows are errors, and they are in the lane of their own.
LEMMA ErrorsOfRows ==
    ASSUME NEW rows, NEW s, NEW trace, Consists(rows, s, trace), NEW i \in DOMAIN rows,
           timelineRowHasError(rows[i])
    PROVE  \/ store.action.status = "failed" /\ laneIdForRow(rows[i]) = Lanes[5]
           \/ \E p \in 1..Len(trace) :
                 /\ i = s + 2 + p /\ rows[i].from = trace[p].nth /\ trace[p].nth # 0
                 /\ trace[p].status = "failed"
                 /\ \/ trace[p].type = "approval.recorded" /\ laneIdForRow(rows[i]) = Lanes[4]
                    \/ trace[p].type = "remediation.executed" /\ laneIdForRow(rows[i]) = Lanes[5]
<1>1. CASE rows[i] \in StageRows
  <2> DEFINE order == rows[i].order  stage == rows[i].stage
  <2>1. order \in Orders /\ stage \in StageNames /\ order = 150 /\ store.action.status = "failed"
    BY <1>1 DEF StageRows, StageRecords
  <2>2. laneIdForRow(rows[i]) = Lanes[5]  BY <2>1, LaneOfStage
  <2> QED  BY <2>1, <2>2
<1>2. CASE rows[i] = MergeRows[1] \/ rows[i] = MergeRows[2]  BY <1>2, MergeRowsPlain, Zenon
<1>3. CASE \E p \in 1..Len(trace) : i = s + 2 + p /\ rows[i] = EventRow(trace, p) /\ trace[p] \in KeptEvents
  <2>1. PICK p \in 1..Len(trace) : i = s + 2 + p /\ rows[i] = EventRow(trace, p) /\ trace[p] \in KeptEvents
    BY <1>3
  <2>2. trace[p].type \in EventTypes /\ trace[p].nth # 0  BY <2>1 DEF KeptEvents
  <2>3. /\ EventRow(trace, p).order = 0 /\ EventRow(trace, p).stage = trace[p].type
        /\ EventRow(trace, p).from = trace[p].nth
    BY DEF EventRow
  <2>4. /\ trace[p].type = "approval.recorded" => laneIdForRow(EventRow(trace, p)) = Lanes[4]
        /\ trace[p].type = "remediation.executed" => laneIdForRow(EventRow(trace, p)) = Lanes[5]
    BY <2>2, <2>3, LaneOfEvent
  <2>5. timelineRowHasError(EventRow(trace, p))  BY <2>1
  <2>6. trace[p].status = "failed" /\ trace[p].type \in {"approval.recorded", "remediation.executed"}
    BY <2>1, <2>5, FailingEvents
  <2> QED  BY <2>1, <2>2, <2>3, <2>4, <2>6
<1> QED  BY <1>1, <1>2, <1>3, KindsOfRows

FailedIn(trace, type) ==
    \E p \in DOMAIN trace : trace[p].type = type /\ trace[p].status = "failed" /\ ~Repeated(trace, p)
SectionFailedIn(rows, kind) ==
    \E s \in buildDynamicFlowSections(rows) :
       /\ classifyFlowStageFromRow(rows[s[1]]) = kind
       /\ StatusOfRows({rows[k] : k \in s[1]..s[2]}) = "failed"
FailuresShown(trace, rows) ==
    /\ store.reason \cap {"fallback", "success"} = {} =>
          /\ FailedIn(trace, "approval.recorded") =>
                LaneStatus(rows, 4) = "failed" /\ SectionFailedIn(rows, "approval")
          /\ FailedIn(trace, "remediation.executed") =>
                LaneStatus(rows, 5) = "failed" /\ SectionFailedIn(rows, "execution")
    /\ \A i \in 1..6 : LaneStatus(rows, i) = "failed" =>
          \/ i = 4 /\ FailedIn(trace, "approval.recorded")
          \/ i = 5 /\ (FailedIn(trace, "remediation.executed") \/ store.action.status = "failed")

\* FailuresAreShown, in the words of the lemmas above.
LEMMA ShownIsThis ==
    ASSUME FailuresShown(EventTrace(store), TimelineRows(UnorderedRows(store)))
    PROVE  FailuresAreShown
<1> DEFINE lanes(rows) == [i \in DOMAIN Lanes |-> LaneStatus(rows, i)]
<1> SUFFICES ASSUME store.trace # <<>>, NEW trace \in {EventTrace(store)},
                    NEW rows \in {TimelineRows(UnorderedRows(store))}
             PROVE  /\ store.reason \cap {"fallback", "success"} = {} =>
                          /\ FailedIn(trace, "approval.recorded") =>
                                lanes(rows)[4] = "failed" /\ SectionFailedIn(rows, "approval")
                          /\ FailedIn(trace, "remediation.executed") =>
                                lanes(rows)[5] = "failed" /\ SectionFailedIn(rows, "execution")
                    /\ \A i \in DOMAIN Lanes : lanes(rows)[i] = "failed" =>
                          \/ i = 4 /\ FailedIn(trace, "approval.recorded")
                          \/ i = 5 /\ (FailedIn(trace, "remediation.executed") \/ store.action.status = "failed")
  BY Zenon DEF FailuresAreShown, FailedIn, SectionFailedIn
<1>1. FailuresShown(trace, rows)  OBVIOUS
<1>2. DOMAIN Lanes = 1..6 /\ \A i \in 1..6 : lanes(rows)[i] = LaneStatus(rows, i)  BY LanesAre
<1> HIDE DEF lanes
<1>3. lanes(rows)[4] = LaneStatus(rows, 4) /\ lanes(rows)[5] = LaneStatus(rows, 5)  BY <1>2
<1> QED  BY <1>1, <1>2, <1>3 DEF FailuresShown

\* The events of decisions and executions are in the sections named for them.
LEMMA KindsOfFailing ==
    ASSUME NEW r, NEW order, order = r.order, order = 0, NEW stage, stage = r.stage,
           stage \in {"approval.recorded", "remediation.executed"}
    PROVE  /\ stage = "approval.recorded" => classifyFlowStageFromRow(r) = "approval"
           /\ stage = "remediation.executed" => classifyFlowStageFromRow(r) = "execution"
<1>1. EventTypes = {"alert.enriched", "workflow.selected", "context.collected", "recommendation.generated",
                    "approval.recorded", "remediation.executed", "closure.completed"}
  BY EventTypesAre
<1>2. KindOfEvent["approval.recorded"] = "approval" /\ KindOfEvent["remediation.executed"] = "execution"
  BY <1>1 DEF KindOfEvent
<1>3. stage \in EventTypes /\ ~(order > 0)  BY <1>1
<1>4. classifyFlowStageFromRow(r) = KindOfEvent[stage]  BY <1>3 DEF classifyFlowStageFromRow
<1> QED  BY <1>2, <1>4

\* The invariant is enough for that, too.
LEMMA FailuresHold == TimelineInv => FailuresAreShown
<1> SUFFICES ASSUME TimelineInv PROVE FailuresAreShown  OBVIOUS
<1>1. store \in Stores  BY DEF TimelineInv
<1> DEFINE trace == EventTrace(store)
           unordered == UnorderedRows(store)
           rows == TimelineRows(unordered)
<1>2. trace \in KeptTraces  BY <1>1, Kept
<1>3. PICK s \in Nat : Consists(unordered, s, trace)  BY <1>1, UnorderedAre
<1>4. PICK place : ShowsInTurn(unordered, rows, place)  BY <1>3, RowsShown
<1> HIDE DEF trace, unordered, rows
<1>5. DOMAIN trace = 1..Len(trace) /\ trace \in Seq(KeptEvents)  BY <1>2, LenProperties DEF KeptTraces
<1>6. /\ place \in [DOMAIN rows -> DOMAIN unordered]
      /\ \A k \in DOMAIN rows : rows[k] = unordered[place[k]]
      /\ rows \in Seq({unordered[i] : i \in DOMAIN unordered})
  BY <1>4 DEF ShowsInTurn
<1>7. Len(rows) \in Nat /\ DOMAIN rows = 1..Len(rows)  BY <1>6, LenProperties
<1>8. /\ \A k \in DOMAIN rows : rows[k].from # 0 =>
            \E p \in 1..Len(trace) : /\ ~Repeated(trace, p) /\ place[k] = s + 2 + p
                                     /\ rows[k].from = trace[p].nth /\ rows[k].stage = trace[p].type
      /\ \A p \in 1..Len(trace) : ~Repeated(trace, p) =>
            \E k \in DOMAIN rows : place[k] = s + 2 + p /\ rows[k].from = trace[p].nth /\ rows[k].from # 0
  BY <1>3, <1>4, ShownEvents
<1>9. ASSUME NEW p \in DOMAIN trace, ~Repeated(trace, p), trace[p].status = "failed",
             trace[p].type \in {"approval.recorded", "remediation.executed"},
             store.reason \cap {"fallback", "success"} = {}
      PROVE  \E k \in DOMAIN rows :
                /\ timelineRowHasError(rows[k])
                /\ trace[p].type = "approval.recorded" =>
                      laneIdForRow(rows[k]) = Lanes[4] /\ classifyFlowStageFromRow(rows[k]) = "approval"
                /\ trace[p].type = "remediation.executed" =>
                      laneIdForRow(rows[k]) = Lanes[5] /\ classifyFlowStageFromRow(rows[k]) = "execution"
  <2>1. PICK k \in DOMAIN rows : place[k] = s + 2 + p  BY <1>5, <1>8, <1>9
  <2>2. rows[k] = EventRow(trace, p)
    <3>1. rows[k] = unordered[s + 2 + p]  BY <1>6, <2>1
    <3>2. unordered[s + 2 + p] = EventRow(trace, p)  BY <1>3, <1>5 DEF Consists
    <3> QED  BY <3>1, <3>2
  <2>3. trace[p] \in KeptEvents  BY <1>5, ElementOfSeq
  <2>4. timelineRowHasError(EventRow(trace, p))  BY <1>9, <2>3, FailingEvents
  <2>5. trace[p].type \in EventTypes  BY <2>3 DEF KeptEvents
  <2>6. EventRow(trace, p).order = 0 /\ EventRow(trace, p).stage = trace[p].type  BY DEF EventRow
  <2>7. /\ trace[p].type = "approval.recorded" => laneIdForRow(EventRow(trace, p)) = Lanes[4]
        /\ trace[p].type = "remediation.executed" => laneIdForRow(EventRow(trace, p)) = Lanes[5]
    BY <2>5, <2>6, LaneOfEvent
  <2>8. /\ trace[p].type = "approval.recorded" => classifyFlowStageFromRow(EventRow(trace, p)) = "approval"
        /\ trace[p].type = "remediation.executed" => classifyFlowStageFromRow(EventRow(trace, p)) = "execution"
    BY <1>9, <2>6, KindsOfFailing
  <2> QED  BY <2>2, <2>4, <2>7, <2>8
<1>10. ASSUME NEW k \in DOMAIN rows, timelineRowHasError(rows[k]), NEW n \in 1..6, laneIdForRow(rows[k]) = Lanes[n]
       PROVE  LaneStatus(rows, n) = "failed" /\ SectionFailedIn(rows, classifyFlowStageFromRow(rows[k]))
  <2>1. Claimed(rows, k, n)
    <3>1. Claimed(rows, k, n) <=> n = n  BY <1>10, ClaimedByName
    <3> QED  BY <3>1
  <2>2. LaneStatus(rows, n) = "failed"  BY <1>10, <2>1, LaneFails
  <2>3. PICK t \in buildDynamicFlowSections(rows) :
           k \in t[1]..t[2] /\ classifyFlowStageFromRow(rows[t[1]]) = classifyFlowStageFromRow(rows[k])
    BY <1>7, SectionOf
  <2>4. StatusOfRows({rows[j] : j \in t[1]..t[2]}) = "failed"  BY <1>10, <2>3, SectionFails
  <2> QED  BY <2>2, <2>3, <2>4 DEF SectionFailedIn
<1>11. ASSUME store.reason \cap {"fallback", "success"} = {}, FailedIn(trace, "approval.recorded")
       PROVE  LaneStatus(rows, 4) = "failed" /\ SectionFailedIn(rows, "approval")
  <2>1. PICK p \in DOMAIN trace :
           trace[p].type = "approval.recorded" /\ trace[p].status = "failed" /\ ~Repeated(trace, p)
    BY <1>11 DEF FailedIn
  <2>2. PICK k \in DOMAIN rows : /\ timelineRowHasError(rows[k]) /\ laneIdForRow(rows[k]) = Lanes[4]
                                 /\ classifyFlowStageFromRow(rows[k]) = "approval"
    BY <1>9, <1>11, <2>1
  <2>3. 4 \in 1..6  OBVIOUS
  <2> QED  BY <1>10, <2>2, <2>3
<1>12. ASSUME store.reason \cap {"fallback", "success"} = {}, FailedIn(trace, "remediation.executed")
       PROVE  LaneStatus(rows, 5) = "failed" /\ SectionFailedIn(rows, "execution")
  <2>1. PICK p \in DOMAIN trace :
           trace[p].type = "remediation.executed" /\ trace[p].status = "failed" /\ ~Repeated(trace, p)
    BY <1>12 DEF FailedIn
  <2>2. PICK k \in DOMAIN rows : /\ timelineRowHasError(rows[k]) /\ laneIdForRow(rows[k]) = Lanes[5]
                                 /\ classifyFlowStageFromRow(rows[k]) = "execution"
    BY <1>9, <1>12, <2>1
  <2>3. 5 \in 1..6  OBVIOUS
  <2> QED  BY <1>10, <2>2, <2>3
<1>13. ASSUME NEW i \in 1..6, LaneStatus(rows, i) = "failed"
       PROVE  \/ i = 4 /\ FailedIn(trace, "approval.recorded")
              \/ i = 5 /\ (FailedIn(trace, "remediation.executed") \/ store.action.status = "failed")
  <2>1. PICK k \in DOMAIN rows : Claimed(rows, k, i) /\ timelineRowHasError(rows[k])  BY <1>13, LaneFails
  <2> DEFINE u == place[k]
  <2>2. u \in DOMAIN unordered /\ rows[k] = unordered[u] /\ timelineRowHasError(unordered[u])  BY <1>6, <2>1
  <2>3. 4 \in 1..6 /\ 5 \in 1..6  OBVIOUS
  <2>4. \A n \in 1..6 : laneIdForRow(rows[k]) = Lanes[n] => i = n  BY <2>1, ClaimedByName
  <2>5. CASE store.action.status = "failed" /\ laneIdForRow(unordered[u]) = Lanes[5]  BY <2>2, <2>3, <2>4, <2>5
  <2>6. CASE \E p \in 1..Len(trace) :
                 /\ u = s + 2 + p /\ unordered[u].from = trace[p].nth /\ trace[p].nth # 0
                 /\ trace[p].status = "failed"
                 /\ \/ trace[p].type = "approval.recorded" /\ laneIdForRow(unordered[u]) = Lanes[4]
                    \/ trace[p].type = "remediation.executed" /\ laneIdForRow(unordered[u]) = Lanes[5]
    <3>1. PICK p \in 1..Len(trace) :
                 /\ u = s + 2 + p /\ unordered[u].from = trace[p].nth /\ trace[p].nth # 0
                 /\ trace[p].status = "failed"
                 /\ \/ trace[p].type = "approval.recorded" /\ laneIdForRow(unordered[u]) = Lanes[4]
                    \/ trace[p].type = "remediation.executed" /\ laneIdForRow(unordered[u]) = Lanes[5]
      BY <2>6
    <3>2. rows[k].from # 0  BY <2>2, <3>1
    <3>3. PICK q \in 1..Len(trace) : ~Repeated(trace, q) /\ place[k] = s + 2 + q  BY <1>8, <3>2
    <3>4. q = p
      <4>1. s + 2 + p = s + 2 + q  BY <3>1, <3>3
      <4>2. s \in Int /\ p \in Int /\ q \in Int  BY <1>3
      <4> QED  BY <4>1, <4>2
    <3>5. p \in DOMAIN trace /\ ~Repeated(trace, p) /\ trace[p].status = "failed"  BY <1>5, <3>1, <3>3, <3>4
    <3>6. CASE trace[p].type = "approval.recorded" /\ laneIdForRow(unordered[u]) = Lanes[4]
      <4>1. i = 4  BY <2>2, <2>3, <2>4, <3>6
      <4>2. FailedIn(trace, "approval.recorded")  BY <3>5, <3>6 DEF FailedIn
      <4> QED  BY <4>1, <4>2
    <3>7. CASE trace[p].type = "remediation.executed" /\ laneIdForRow(unordered[u]) = Lanes[5]
      <4>1. i = 5  BY <2>2, <2>3, <2>4, <3>7
      <4>2. FailedIn(trace, "remediation.executed")  BY <3>5, <3>7 DEF FailedIn
      <4> QED  BY <4>1, <4>2
    <3> QED  BY <3>1, <3>6, <3>7
  <2>7. \/ store.action.status = "failed" /\ laneIdForRow(unordered[u]) = Lanes[5]
        \/ \E p \in 1..Len(trace) :
                 /\ u = s + 2 + p /\ unordered[u].from = trace[p].nth /\ trace[p].nth # 0
                 /\ trace[p].status = "failed"
                 /\ \/ trace[p].type = "approval.recorded" /\ laneIdForRow(unordered[u]) = Lanes[4]
                    \/ trace[p].type = "remediation.executed" /\ laneIdForRow(unordered[u]) = Lanes[5]
    <3> HIDE DEF u
    <3> QED  BY <1>3, <2>2, ErrorsOfRows
  <2> QED  BY <2>5, <2>6, <2>7
<1>14. FailuresShown(trace, rows)  BY <1>11, <1>12, <1>13 DEF FailuresShown
<1> QED  BY <1>14, ShownIsThis DEF trace, unordered, rows

\* Whatever the services record, and with whatever clocks, the store stays what the page expects.
THEOREM TimelineInvariant == TimelineSpec => []TimelineInv
<1>1. TimelineInit => TimelineInv  BY TimelineBegins
<1>2. TimelineInv /\ [TimelineNext]_timelineVars => TimelineInv'  BY TimelineStep
<1> QED  BY <1>1, <1>2, PTL DEF TimelineSpec

\* The events stand in order in every store the services can leave: those the page keeps are
\* the latest, each is shown once unless it repeats another, in one lane, after what led to it.
THEOREM EventsAlwaysStandInOrder == TimelineSpec => []EventsStandInOrder
<1>1. TimelineInv => EventsStandInOrder  BY OrderHolds
<1> QED  BY <1>1, TimelineInvariant, PTL

\* A decision or execution that is shown as failed fails its lane and its section, and no
\* lane is failed for anything else.
THEOREM FailuresAreAlwaysShown == TimelineSpec => []FailuresAreShown
<1>1. TimelineInv => FailuresAreShown  BY FailuresHold
<1> QED  BY <1>1, TimelineInvariant, PTL

(***************************************************************************)
(* Loops                                                                   *)
(***************************************************************************)
\* What holds at first, and after a turn if before it, holds after every turn.
LEMMA Along ==
    ASSUME NEW n \in Nat, NEW P \in SUBSET (0..n), 0 \in P, \A k \in 1..n : k - 1 \in P => k \in P
    PROVE  \A k \in 0..n : k \in P
<1> DEFINE bad == {k \in 1..n : k \notin P}
<1>1. SUFFICES ASSUME bad # {} PROVE FALSE
  <2>1. \A k \in 0..n : k = 0 \/ k \in 1..n  OBVIOUS
  <2> QED  BY <2>1
<1>2. PICK m \in bad : \A k \in bad : m <= k  BY <1>1, LeastOf
<1>3. m \in 1..n /\ m \notin P /\ m - 1 \notin bad  BY <1>2
<1>4. m - 1 = 0 \/ m - 1 \in 1..n  BY <1>3
<1>5. m - 1 \in P  BY <1>3, <1>4
<1> QED  BY <1>3, <1>5

\* A loop comes to something: there is a list of what it holds after each turn.
Runs(f, n, S, init, step) ==
    /\ f \in [0..n -> S] /\ f[0] = init
    /\ \A k \in 1..n : f[k] = step[k][f[k - 1]]

\* Such a list exists when every turn stays among the values it starts from.
LEMMA Recursion ==
    ASSUME NEW n \in Nat, NEW S, NEW init \in S, NEW step \in [1..n -> [S -> S]]
    PROVE  \E f : Runs(f, n, S, init, step)
<1> DEFINE P == {m \in 0..n : \E f : Runs(f, m, S, init, step)}
<1>1. 0 \in P
  <2> DEFINE f == [k \in 0..0 |-> init]
  <2>1. f \in [0..0 -> S] /\ f[0] = init  OBVIOUS
  <2>2. \A k \in 1..0 : f[k] = step[k][f[k - 1]]  OBVIOUS
  <2> HIDE DEF f
  <2>3. Runs(f, 0, S, init, step)  BY <2>1, <2>2 DEF Runs
  <2> QED  BY <2>3
<1>2. ASSUME NEW m \in 1..n, m - 1 \in P PROVE m \in P
  <2>1. PICK f : Runs(f, m - 1, S, init, step)  BY <1>2
  <2> DEFINE g == [k \in 0..m |-> IF k = m THEN step[m][f[m - 1]] ELSE f[k]]
  <2>2. /\ f \in [0..(m - 1) -> S] /\ f[0] = init
        /\ \A k \in 1..(m - 1) : f[k] = step[k][f[k - 1]]
    BY <2>1 DEF Runs
  <2>3. step[m] \in [S -> S] /\ f[m - 1] \in S  BY <2>2
  <2>4. step[m][f[m - 1]] \in S  BY <2>3
  <2>5. \A k \in 0..m : k = m \/ k \in 0..(m - 1)  OBVIOUS
  <2>6. g \in [0..m -> S]  BY <2>2, <2>4, <2>5
  <2>7. g[0] = init  BY <2>2
  <2>8. g[m] = step[m][f[m - 1]] /\ \A k \in 0..(m - 1) : g[k] = f[k]  OBVIOUS
  <2> HIDE DEF g
  <2>9. ASSUME NEW k \in 1..m PROVE g[k] = step[k][g[k - 1]]
    <3>1. k - 1 \in 0..(m - 1) /\ g[k - 1] = f[k - 1]  BY <2>8
    <3>2. CASE k = m  BY <2>8, <3>1, <3>2
    <3>3. CASE k # m
      <4>1. k \in 1..(m - 1) /\ k \in 0..(m - 1)  BY <3>3
      <4> QED  BY <2>2, <2>8, <3>1, <4>1
    <3> QED  BY <3>2, <3>3
  <2>10. Runs(g, m, S, init, step)  BY <2>6, <2>7, <2>9 DEF Runs
  <2> QED  BY <2>10
<1> HIDE DEF P
<1>3. P \in SUBSET (0..n)  BY DEF P
<1>4. \A k \in 0..n : k \in P  BY <1>1, <1>2, <1>3, Along
<1>5. n \in P  BY <1>4
<1> QED  BY <1>5 DEF P

ValuesOn(f, S) == {f[x] : x \in S}

\* Different values of a list are as many as its places.
LEMMA CountOf ==
    ASSUME NEW n \in Nat, NEW f, \A k, l \in 1..n : f[k] = f[l] => k = l
    PROVE  IsFiniteSet(ValuesOn(f, 1..n)) /\ Cardinality(ValuesOn(f, 1..n)) = n
<1> DEFINE upTo(m) == {f[k] : k \in 1..m}
           P == {m \in 0..n : IsFiniteSet(upTo(m)) /\ Cardinality(upTo(m)) = m}
<1>1. 0 \in P
  <2>1. upTo(0) = {}  OBVIOUS
  <2> QED  BY <2>1, FS_EmptySet
<1>2. ASSUME NEW m \in 1..n, m - 1 \in P PROVE m \in P
  <2> DEFINE old == upTo(m - 1)
  <2>1. IsFiniteSet(old) /\ Cardinality(old) = m - 1  BY <1>2
  <2>2. upTo(m) = old \cup {f[m]}
    <3>1. \A k : k \in 1..m <=> k \in 1..(m - 1) \/ k = m  OBVIOUS
    <3> QED  BY <3>1
  <2>3. f[m] \notin old
    <3>1. ASSUME NEW k \in 1..(m - 1) PROVE f[k] # f[m]
      <4>1. k \in 1..n /\ k # m  OBVIOUS
      <4> QED  BY <4>1
    <3> QED  BY <3>1
  <2> HIDE DEF old
  <2> DEFINE new == f[m]
             count == Cardinality(old)
  <2>a. new \notin old /\ count = m - 1 /\ IsFiniteSet(old)  BY <2>1, <2>3
  <2>b. IsFiniteSet(old \cup {new}) /\ Cardinality(old \cup {new}) = count + 1
    <3> HIDE DEF new
    <3> QED  BY <2>a, FS_AddElement
  <2>4. IsFiniteSet(old \cup {f[m]}) /\ Cardinality(old \cup {f[m]}) = m
    BY <2>a, <2>b
  <2>5. IsFiniteSet(upTo(m)) /\ Cardinality(upTo(m)) = m  BY <2>2, <2>4
  <2> HIDE DEF upTo
  <2> QED  BY <2>5
<1> HIDE DEF P
<1>3. P \in SUBSET (0..n)  BY DEF P
<1>4. \A k \in 0..n : k \in P  BY <1>1, <1>2, <1>3, Along
<1>5. n \in P  BY <1>4
<1>6. ValuesOn(f, 1..n) = upTo(n)  BY DEF ValuesOn
<1> QED  BY <1>5, <1>6 DEF P

\* And of a set of numbers.
LEMMA ImageOf ==
    ASSUME NEW n \in Nat, NEW S \in SUBSET (1..n), NEW f, \A x, y \in S : f[x] = f[y] => x = y
    PROVE  Cardinality(ValuesOn(f, S)) = Cardinality(S)
<1> DEFINE order == Ascending(S)
           m == Cardinality(S)
           g == [k \in 1..m |-> f[order[k]]]
<1>1. /\ m \in Nat /\ order \in [1..m -> S]
      /\ \A k, l \in 1..m : k < l <=> order[k] < order[l]
      /\ \A x \in S : \E k \in 1..m : order[k] = x
  BY AscendingIs DEF Rising
<1>2. \A k \in 1..m : g[k] = f[order[k]]  OBVIOUS
<1> HIDE DEF order, m, g
<1>3. \A k \in 1..m : order[k] \in S  BY <1>1
<1>4. \A k \in 1..m : order[k] \in Nat
  <2>1. S \subseteq Nat  OBVIOUS
  <2> QED  BY <1>3, <2>1
<1>5. ASSUME NEW k \in 1..m, NEW l \in 1..m, g[k] = g[l] PROVE k = l
  <2>1. f[order[k]] = f[order[l]]  BY <1>2, <1>5
  <2>2. order[k] = order[l]  BY <1>3, <2>1
  <2>3. ~(k < l) /\ ~(l < k)  BY <1>1, <1>4, <2>2
  <2>4. k \in Nat /\ l \in Nat  BY <1>1
  <2> QED  BY <2>3, <2>4
<1>6. m \in Nat /\ \A k, l \in 1..m : g[k] = g[l] => k = l  BY <1>1, <1>5
<1>7. Cardinality(ValuesOn(g, 1..m)) = m  BY <1>6, CountOf
<1>8. ASSUME NEW x \in S PROVE f[x] \in ValuesOn(g, 1..m)
  <2>1. PICK k \in 1..m : order[k] = x  BY <1>1
  <2> QED  BY <1>2, <2>1 DEF ValuesOn
<1>9. \A k \in 1..m : g[k] \in ValuesOn(f, S)  BY <1>2, <1>3 DEF ValuesOn
<1>10. ValuesOn(g, 1..m) = ValuesOn(f, S)  BY <1>8, <1>9 DEF ValuesOn
<1> QED  BY <1>7, <1>10 DEF m

(***************************************************************************)
(* Rows of one alert                                                       *)
(***************************************************************************)
Closes(rows, n, S) ==
    /\ S \in SUBSET (1..n)
    /\ \A a \in S, b \in 1..n : Shares(rows[a], rows[b]) => b \in S

\* Linked is the least set that has the row and closes.
LEMMA LinkedIs ==
    ASSUME NEW rows, NEW n \in Nat, NEW i \in 1..n
    PROVE  /\ i \in Linked(rows, n, i)
           /\ Closes(rows, n, Linked(rows, n, i))
           /\ \A S : Closes(rows, n, S) /\ i \in S => Linked(rows, n, i) \subseteq S
<1>1. Linked(rows, n, i) = {j \in 1..n : \A S \in SUBSET (1..n) :
                               i \in S /\ Closes(rows, n, S) => j \in S}
  BY DEF Linked, Closes
<1>2. i \in Linked(rows, n, i)  BY <1>1
<1>3. Linked(rows, n, i) \in SUBSET (1..n)  BY <1>1
<1>4. ASSUME NEW a \in Linked(rows, n, i), NEW b \in 1..n, Shares(rows[a], rows[b])
      PROVE  b \in Linked(rows, n, i)
  <2>1. SUFFICES ASSUME NEW S \in SUBSET (1..n), i \in S, Closes(rows, n, S) PROVE b \in S
    BY <1>1
  <2>2. a \in S  BY <1>1, <2>1
  <2> QED  BY <1>4, <2>1, <2>2 DEF Closes
<1>5. Closes(rows, n, Linked(rows, n, i))  BY <1>3, <1>4 DEF Closes
<1>6. ASSUME NEW S, Closes(rows, n, S), i \in S PROVE Linked(rows, n, i) \subseteq S
  <2>1. S \in SUBSET (1..n)  BY <1>6 DEF Closes
  <2> QED  BY <1>1, <1>6, <2>1
<1> QED  BY <1>2, <1>5, <1>6

\* Rows that are linked stay so when one more row comes.
LEMMA LinkedGrows ==
    ASSUME NEW rows, NEW n \in Nat, n > 0, NEW i \in 1..(n - 1)
    PROVE  Linked(rows, n - 1, i) \subseteq Linked(rows, n, i)
<1> DEFINE S == Linked(rows, n, i) \cap 1..(n - 1)
<1>1. n - 1 \in Nat /\ i \in 1..n /\ 1..(n - 1) \subseteq 1..n  OBVIOUS
<1>2. i \in Linked(rows, n, i) /\ Closes(rows, n, Linked(rows, n, i))  BY <1>1, LinkedIs
<1>3. Closes(rows, n - 1, S)  BY <1>1, <1>2 DEF Closes
<1>4. Linked(rows, n - 1, i) \subseteq S  BY <1>1, <1>2, <1>3, LinkedIs
<1> QED  BY <1>4

\* What is linked to a linked row is linked.
LEMMA LinkedOn ==
    ASSUME NEW rows, NEW n \in Nat, NEW i \in 1..n, NEW j \in Linked(rows, n, i)
    PROVE  j \in 1..n /\ Linked(rows, n, j) \subseteq Linked(rows, n, i)
<1>1. Closes(rows, n, Linked(rows, n, i))  BY LinkedIs
<1>2. j \in 1..n  BY <1>1 DEF Closes
<1> QED  BY <1>1, <1>2, LinkedIs

\* Rows are of one group iff they are linked.
Together(rows, n, of) == \A i, j \in 1..n : of[i] = of[j] <=> j \in Linked(rows, n, i)

\* A row that shares an identity with one before, and goes to its group.
Continues(rows, n, of) == \E i \in 1..(n - 1) : Shares(rows[n], rows[i]) /\ of[n] = of[i]

\* A row that shares no identity with any before, and has a group of its own.
Starts(rows, n, of) == \A i \in 1..(n - 1) : ~Shares(rows[n], rows[i]) /\ of[n] # of[i]

\* Rows share identities with one another.
LEMMA SharesBoth ==
    ASSUME NEW a, NEW b PROVE Shares(a, b) <=> Shares(b, a)
BY DEF Shares

\* Linked rows are of one group, after a row that joins no two alerts.
LEMMA LinkedSame ==
    ASSUME NEW rows, NEW n \in Nat, n > 0, NEW of,
           Together(rows, n - 1, of), ~Bridges(rows, n),
           Continues(rows, n, of) \/ Starts(rows, n, of),
           NEW i \in 1..n, NEW j \in Linked(rows, n, i)
    PROVE  of[i] = of[j]
<1> DEFINE S == {k \in 1..n : of[k] = of[i]}
<1>1. n - 1 \in Nat /\ n \in 1..n /\ \A k \in 1..n : k = n \/ k \in 1..(n - 1)  OBVIOUS
<1>2. ASSUME NEW a \in 1..(n - 1), NEW b \in 1..(n - 1), Shares(rows[a], rows[b])
      PROVE  of[a] = of[b]
  <2>1. b \in Linked(rows, n - 1, a)  BY <1>1, <1>2, LinkedIs DEF Closes
  <2> QED  BY <2>1 DEF Together
<1>3. ASSUME NEW a \in 1..(n - 1), Shares(rows[n], rows[a]) PROVE of[n] = of[a]
  <2>1. Continues(rows, n, of)  BY <1>3 DEF Starts
  <2>2. PICK k \in 1..(n - 1) : Shares(rows[n], rows[k]) /\ of[n] = of[k]  BY <2>1 DEF Continues
  <2>3. a \in Linked(rows, n - 1, k)  BY <1>3, <2>2 DEF Bridges
  <2>4. of[k] = of[a]  BY <2>3 DEF Together
  <2> QED  BY <2>2, <2>4
<1>4. ASSUME NEW a \in 1..n, NEW b \in 1..n, Shares(rows[a], rows[b]) PROVE of[a] = of[b]
  <2>1. CASE a = n /\ b = n  BY <2>1
  <2>2. CASE a = n /\ b \in 1..(n - 1)  BY <1>3, <1>4, <2>2
  <2>3. CASE b = n /\ a \in 1..(n - 1)
    <3>1. Shares(rows[n], rows[a])  BY <1>4, <2>3, SharesBoth
    <3> QED  BY <1>3, <2>3, <3>1
  <2>4. CASE a \in 1..(n - 1) /\ b \in 1..(n - 1)  BY <1>2, <1>4, <2>4
  <2> QED  BY <1>1, <2>1, <2>2, <2>3, <2>4
<1>5. Closes(rows, n, S)  BY <1>4 DEF Closes
<1>6. j \in S  BY <1>5, LinkedIs
<1> QED  BY <1>6

\* Rows of one group are linked.
LEMMA SameLinked ==
    ASSUME NEW rows, NEW n \in Nat, n > 0, NEW of,
           Together(rows, n - 1, of),
           Continues(rows, n, of) \/ Starts(rows, n, of),
           NEW i \in 1..n, NEW j \in 1..n, of[i] = of[j]
    PROVE  j \in Linked(rows, n, i)
<1>1. n - 1 \in Nat /\ n \in 1..n /\ \A k \in 1..n : k = n \/ k \in 1..(n - 1)  OBVIOUS
<1>2. ASSUME NEW a \in 1..(n - 1), NEW b \in 1..(n - 1), of[a] = of[b]
      PROVE  b \in Linked(rows, n, a)
  <2>1. b \in Linked(rows, n - 1, a)  BY <1>2 DEF Together
  <2> QED  BY <2>1, LinkedGrows
<1>3. CASE i = n /\ j = n  BY <1>3, LinkedIs
<1>4. CASE i = n /\ j \in 1..(n - 1)
  <2>1. Continues(rows, n, of)  BY <1>4 DEF Starts
  <2>2. PICK k \in 1..(n - 1) : Shares(rows[n], rows[k]) /\ of[n] = of[k]  BY <2>1 DEF Continues
  <2>3. k \in 1..n  BY <1>1
  <2>4. n \in Linked(rows, n, n) /\ Closes(rows, n, Linked(rows, n, n))  BY <1>1, LinkedIs
  <2>5. k \in Linked(rows, n, n)  BY <2>2, <2>3, <2>4 DEF Closes
  <2>6. Linked(rows, n, k) \subseteq Linked(rows, n, n)  BY <1>1, <2>5, LinkedOn
  <2>7. j \in Linked(rows, n, k)  BY <1>2, <1>4, <2>2
  <2> QED  BY <1>4, <2>6, <2>7
<1>5. CASE j = n /\ i \in 1..(n - 1)
  <2>1. Continues(rows, n, of)  BY <1>5 DEF Starts
  <2>2. PICK k \in 1..(n - 1) : Shares(rows[n], rows[k]) /\ of[n] = of[k]  BY <2>1 DEF Continues
  <2>3. k \in Linked(rows, n, i)  BY <1>2, <1>5, <2>2
  <2>4. Closes(rows, n, Linked(rows, n, i))  BY LinkedIs
  <2>5. Shares(rows[k], rows[n])  BY <2>2, SharesBoth
  <2> QED  BY <1>1, <1>5, <2>3, <2>4, <2>5 DEF Closes
<1>6. CASE i \in 1..(n - 1) /\ j \in 1..(n - 1)  BY <1>2, <1>6
<1> QED  BY <1>1, <1>3, <1>4, <1>5, <1>6

\* So they stay together as rows come.
LEMMA TogetherStep ==
    ASSUME NEW rows, NEW n \in Nat, n > 0, NEW of,
           Together(rows, n - 1, of), ~Bridges(rows, n),
           Continues(rows, n, of) \/ Starts(rows, n, of)
    PROVE  Together(rows, n, of)
<1>1. \A i \in 1..n : \A j \in Linked(rows, n, i) : of[i] = of[j]  BY LinkedSame
<1>2. \A i, j \in 1..n : of[i] = of[j] => j \in Linked(rows, n, i)  BY SameLinked
<1> QED  BY <1>1, <1>2 DEF Together

(***************************************************************************)
(* The row that stands for an alert                                        *)
(***************************************************************************)
Triples == Int \X Int \X Int

\* Preference between two triples of numbers, written out.
LEMMA AboveIs ==
    ASSUME NEW a \in Int, NEW b \in Int, NEW c \in Int,
           NEW d \in Int, NEW e \in Int, NEW f \in Int
    PROVE  Above(<<a, b, c>>, <<d, e, f>>) <=>
              a > d \/ (a = d /\ (b > e \/ (b = e /\ c > f)))
<1> DEFINE p == <<a, b, c>>
           q == <<d, e, f>>
<1>1. DOMAIN p = 1..3 /\ p[1] = a /\ p[2] = b /\ p[3] = c /\ q[1] = d /\ q[2] = e /\ q[3] = f
  OBVIOUS
<1> HIDE DEF p, q
<1>2. 1..3 = {1, 2, 3} /\ 1..(1 - 1) = {} /\ 1..(2 - 1) = {1} /\ 1..(3 - 1) = {1, 2}  OBVIOUS
<1>3. Above(p, q) <=> \E k \in {1, 2, 3} : p[k] > q[k] /\ \A l \in 1..(k - 1) : p[l] = q[l]
  BY <1>1, <1>2 DEF Above
<1>4. Above(p, q) <=> a > d \/ (b > e /\ a = d) \/ (c > f /\ a = d /\ b = e)
  BY <1>1, <1>2, <1>3
<1> QED  BY <1>4 DEF p, q

(***************************************************************************)
(* Rows, with the texts the console itself gives them                      *)
(***************************************************************************)
AnyText ==
    STRING \cup {"-", "info", "warning", "closed incident", "Landing Pad Alert"}
    \cup {"fingerprint", "incident", "correlation", "external", "composite", "cross-source"}

AnyRows ==
    [id : AnyText, fingerprint : AnyText, incident : AnyText, correlation : AnyText, ticket : AnyText,
     name : AnyText, service : AnyText, severity : AnyText, signature : AnyText,
     time : Nat, channel : AnyText, landing : BOOLEAN, closed : BOOLEAN, data : Nat]

\* The rows the server lists are such rows.
LEMMA RowsAre == StreamRows \subseteq AnyRows
<1>1. STRING \subseteq AnyText  BY DEF AnyText
<1> HIDE DEF AnyText
<1> QED  BY <1>1 DEF StreamRows, AnyRows

\* What a row is preferred by are three numbers.
LEMMA RankIs ==
    ASSUME NEW row \in AnyRows, NEW latestState \in BOOLEAN
    PROVE  \E a, b, c \in Int : Rank(row, latestState) = <<a, b, c>>
<1>1. row.time \in Int /\ row.data \in Int  BY DEF AnyRows
<1>2. Score(row) \in Int  BY <1>1 DEF Score
<1>3. CASE latestState  BY <1>1, <1>2, <1>3 DEF Rank
<1>4. CASE ~latestState
  <2>1. CASE row.landing  BY <1>1, <1>2, <1>4, <2>1 DEF Rank
  <2>2. CASE ~row.landing  BY <1>1, <1>2, <1>4, <2>2 DEF Rank
  <2> QED  BY <2>1, <2>2
<1> QED  BY <1>3, <1>4

\* No row is preferred to itself, and preference is transitive.
LEMMA AboveOrders ==
    ASSUME NEW x \in AnyRows, NEW y \in AnyRows, NEW z \in AnyRows, NEW latestState \in BOOLEAN
    PROVE  /\ ~Above(Rank(x, latestState), Rank(x, latestState))
           /\ Above(Rank(x, latestState), Rank(y, latestState))
              /\ Above(Rank(y, latestState), Rank(z, latestState))
              => Above(Rank(x, latestState), Rank(z, latestState))
<1>1. PICK a, b, c \in Int : Rank(x, latestState) = <<a, b, c>>  BY RankIs
<1>2. PICK d, e, f \in Int : Rank(y, latestState) = <<d, e, f>>  BY RankIs
<1>3. PICK g, h, i \in Int : Rank(z, latestState) = <<g, h, i>>  BY RankIs
<1>4. ~Above(<<a, b, c>>, <<a, b, c>>)  BY AboveIs
<1>5. Above(<<a, b, c>>, <<d, e, f>>) <=> a > d \/ (a = d /\ (b > e \/ (b = e /\ c > f)))
  BY AboveIs
<1>6. Above(<<d, e, f>>, <<g, h, i>>) <=> d > g \/ (d = g /\ (e > h \/ (e = h /\ f > i)))
  BY AboveIs
<1>7. Above(<<a, b, c>>, <<g, h, i>>) <=> a > g \/ (a = g /\ (b > h \/ (b = h /\ c > i)))
  BY AboveIs
<1>8. Above(<<a, b, c>>, <<d, e, f>>) /\ Above(<<d, e, f>>, <<g, h, i>>) => Above(<<a, b, c>>, <<g, h, i>>)
  BY <1>5, <1>6, <1>7
<1> QED  BY <1>1, <1>2, <1>3, <1>4, <1>8

\* A row replaces another iff it is preferred to it.
LEMMA ReplacesIs ==
    ASSUME NEW x \in AnyRows, NEW y \in AnyRows, NEW latestState \in BOOLEAN
    PROVE  Replaces(x, y, latestState) <=> Above(Rank(x, latestState), Rank(y, latestState))
<1>1. /\ x.time \in Int /\ y.time \in Int /\ x.data \in Int /\ y.data \in Int
      /\ x.landing \in BOOLEAN /\ y.landing \in BOOLEAN
  BY DEF AnyRows
<1> DEFINE s == Score(x)
           t == Score(y)
           u == x.time
           v == y.time
<1>2. s \in Int /\ t \in Int /\ u \in Int /\ v \in Int  BY <1>1 DEF Score
<1>3. CASE latestState
  <2>1. Rank(x, latestState) = <<u, s, 0>> /\ Rank(y, latestState) = <<v, t, 0>>  BY <1>3 DEF Rank
  <2>2. Replaces(x, y, latestState) <=> u > v \/ (u = v /\ s > t)  BY <1>3 DEF Replaces
  <2> HIDE DEF s, t, u, v
  <2>3. Above(<<u, s, 0>>, <<v, t, 0>>) <=> u > v \/ (u = v /\ (s > t \/ (s = t /\ 0 > 0)))
    BY <1>2, AboveIs
  <2> QED  BY <2>1, <2>2, <2>3
<1>4. CASE ~latestState
  <2> DEFINE p == IF x.landing THEN 0 ELSE 1
             q == IF y.landing THEN 0 ELSE 1
  <2>1. Rank(x, latestState) = <<p, s, u>> /\ Rank(y, latestState) = <<q, t, v>>  BY <1>4 DEF Rank
  <2>2. Replaces(x, y, latestState) <=>
           \/ y.landing /\ ~x.landing
           \/ y.landing = x.landing /\ (s > t \/ (s = t /\ u > v))
    BY <1>4 DEF Replaces
  <2>3. p \in Int /\ q \in Int  OBVIOUS
  <2>4. (y.landing /\ ~x.landing <=> p > q) /\ (y.landing = x.landing <=> p = q)  BY <1>1
  <2> HIDE DEF p, q, s, t, u, v
  <2>5. Above(<<p, s, u>>, <<q, t, v>>) <=> p > q \/ (p = q /\ (s > t \/ (s = t /\ u > v)))
    BY <1>2, <2>3, AboveIs
  <2> QED  BY <2>1, <2>2, <2>4, <2>5
<1> QED  BY <1>3, <1>4

\* One more row: it stands for the alert if it replaces the row that did, or else that still does.
LEMMA StandsStep ==
    ASSUME NEW n \in Nat \ {0}, NEW rows, \A k \in 1..n : rows[k] \in AnyRows,
           NEW latestState \in BOOLEAN, NEW alert \in SUBSET (1..(n - 1)),
           NEW i, Stands(rows, latestState, alert, i)
    PROVE  IF Replaces(rows[n], rows[i], latestState)
           THEN Stands(rows, latestState, alert \cup {n}, n)
           ELSE Stands(rows, latestState, alert \cup {n}, i)
<1> DEFINE R(j) == Rank(rows[j], latestState)
<1>1. /\ i \in alert
      /\ \A j \in alert : ~Above(R(j), R(i)) /\ (j < i => R(j) # R(i))
  BY DEF Stands
<1>2. i \in 1..(n - 1) /\ i \in 1..n /\ n \in 1..n /\ \A j \in alert : j \in 1..n /\ j < n
  BY <1>1
<1>3. Replaces(rows[n], rows[i], latestState) <=> Above(R(n), R(i))  BY <1>2, ReplacesIs
<1>4. ASSUME Above(R(n), R(i)) PROVE Stands(rows, latestState, alert \cup {n}, n)
  <2>1. ASSUME NEW j \in alert PROVE ~Above(R(j), R(n)) /\ R(j) # R(n)
    <3>1. ~Above(R(j), R(i))  BY <1>1
    <3>2. Above(R(j), R(n)) /\ Above(R(n), R(i)) => Above(R(j), R(i))  BY <1>2, AboveOrders
    <3> HIDE DEF R
    <3> QED  BY <1>4, <3>1, <3>2
  <2>2. ~Above(R(n), R(n))  BY <1>2, AboveOrders
  <2>3. \A j \in alert \cup {n} : ~Above(R(j), R(n)) /\ (j < n => R(j) # R(n))
    <3> HIDE DEF R
    <3> QED  BY <2>1, <2>2
  <2> QED  BY <2>3 DEF Stands
<1>5. ASSUME ~Above(R(n), R(i)) PROVE Stands(rows, latestState, alert \cup {n}, i)
  <2>1. ~(n < i)  BY <1>2
  <2>2. \A j \in alert \cup {n} : ~Above(R(j), R(i)) /\ (j < i => R(j) # R(i))
    <3> HIDE DEF R
    <3> QED  BY <1>1, <1>5, <2>1
  <2> QED  BY <1>1, <2>2 DEF Stands
<1> QED  BY <1>3, <1>4, <1>5

\* A row stands for itself.
LEMMA StandsAlone ==
    ASSUME NEW n \in Nat, NEW rows, rows[n] \in AnyRows, NEW latestState \in BOOLEAN
    PROVE  Stands(rows, latestState, {n}, n)
<1>1. ~Above(Rank(rows[n], latestState), Rank(rows[n], latestState))  BY AboveOrders
<1> QED  BY <1>1 DEF Stands

(***************************************************************************)
(* The groups after each row                                               *)
(***************************************************************************)
AllKeys ==
    (AnyText \X AnyText) \cup (AnyText \X AnyText \X AnyText \X Nat)
    \cup (AnyText \X AnyText \X AnyText \X AnyText \X Nat)

\* The identities of a row are a list of keys.
LEMMA KeysTyped ==
    ASSUME NEW row \in AnyRows
    PROVE  IdentityKeys(row) \in Seq(AllKeys)
<1>1. /\ row.fingerprint \in AnyText /\ row.incident \in AnyText /\ row.correlation \in AnyText
      /\ row.ticket \in AnyText /\ row.name \in AnyText /\ row.service \in AnyText
      /\ row.severity \in AnyText /\ row.signature \in AnyText /\ row.time \in Nat
  BY DEF AnyRows
<1>2. ASSUME NEW field \in AnyText, NEW value \in AnyText
      PROVE  Present(field, value) \in Seq(AllKeys)
  <2>1. <<field, value>> \in AllKeys  BY DEF AllKeys
  <2> HIDE DEF AllKeys
  <2>2. <<>> \in Seq(AllKeys) /\ <<<<field, value>>>> \in Seq(AllKeys)  BY <2>1
  <2> QED  BY <2>2 DEF Present
<1> DEFINE c == IF row.name # "" /\ row.service # ""
                THEN <<<<"composite", row.name, row.service, row.severity, row.time \div 5>>>> ELSE <<>>
           s == IF row.service # "" /\ row.signature # ""
                THEN <<<<"cross-source", row.service, row.signature, row.time \div 10>>>> ELSE <<>>
<1>3. c \in Seq(AllKeys)
  <2>1. row.time \div 5 \in Nat  BY <1>1
  <2>a. ASSUME NEW h \in AnyText, NEW x \in AnyText, NEW y \in AnyText, NEW z \in AnyText, NEW m \in Nat
        PROVE  <<h, x, y, z, m>> \in AllKeys
    BY DEF AllKeys
  <2>b. "composite" \in AnyText  BY DEF AnyText
  <2>2. <<"composite", row.name, row.service, row.severity, row.time \div 5>> \in AllKeys
    BY <1>1, <2>1, <2>a, <2>b
  <2> DEFINE key == <<"composite", row.name, row.service, row.severity, row.time \div 5>>
  <2>3. key \in AllKeys  BY <2>2
  <2> HIDE DEF key
  <2>4. <<>> \in Seq(AllKeys) /\ <<key>> \in Seq(AllKeys)  BY <2>3
  <2> QED  BY <2>4 DEF key
<1>4. s \in Seq(AllKeys)
  <2>1. row.time \div 10 \in Nat  BY <1>1
  <2>a. ASSUME NEW h \in AnyText, NEW x \in AnyText, NEW y \in AnyText, NEW m \in Nat
        PROVE  <<h, x, y, m>> \in AllKeys
    BY DEF AllKeys
  <2>b. "cross-source" \in AnyText  BY DEF AnyText
  <2>2. <<"cross-source", row.service, row.signature, row.time \div 10>> \in AllKeys
    BY <1>1, <2>1, <2>a, <2>b
  <2> DEFINE key == <<"cross-source", row.service, row.signature, row.time \div 10>>
  <2>3. key \in AllKeys  BY <2>2
  <2> HIDE DEF key
  <2>4. <<>> \in Seq(AllKeys) /\ <<key>> \in Seq(AllKeys)  BY <2>3
  <2> QED  BY <2>4 DEF key
<1>a. "fingerprint" \in AnyText /\ "incident" \in AnyText /\ "correlation" \in AnyText /\ "external" \in AnyText
  BY DEF AnyText
<1>5. /\ Present("fingerprint", row.fingerprint) \in Seq(AllKeys)
      /\ Present("incident", row.incident) \in Seq(AllKeys)
      /\ Present("correlation", row.correlation) \in Seq(AllKeys)
      /\ Present("external", row.ticket) \in Seq(AllKeys)
  BY <1>1, <1>2, <1>a
<1>6. IdentityKeys(row) =
         Present("fingerprint", row.fingerprint) \o Present("incident", row.incident)
         \o Present("correlation", row.correlation) \o Present("external", row.ticket) \o c \o s
  BY DEF IdentityKeys
<1> HIDE DEF c, s
<1> DEFINE f == Present("fingerprint", row.fingerprint)
           i == Present("incident", row.incident)
           k == Present("correlation", row.correlation)
           e == Present("external", row.ticket)
<1>7. \A x, y \in Seq(AllKeys) : x \o y \in Seq(AllKeys)
  <2> DEFINE A == AllKeys
  <2> HIDE DEF A
  <2>1. \A x, y \in Seq(A) : x \o y \in Seq(A)  OBVIOUS
  <2> QED  BY <2>1 DEF A
<1>8. f \in Seq(AllKeys) /\ i \in Seq(AllKeys) /\ k \in Seq(AllKeys) /\ e \in Seq(AllKeys)  BY <1>5
<1>9. IdentityKeys(row) = f \o i \o k \o e \o c \o s  BY <1>6
<1> HIDE DEF f, i, k, e
<1>10. f \o i \o k \o e \in Seq(AllKeys)  BY <1>7, <1>8
<1> QED  BY <1>3, <1>4, <1>7, <1>9, <1>10

\* The set of them has each key of the list, and no other.
LEMMA KeysOfTyped ==
    ASSUME NEW row \in AnyRows
    PROVE  /\ KeysOf(row) \subseteq AllKeys
           /\ Len(IdentityKeys(row)) \in Nat
           /\ \A i \in 1..Len(IdentityKeys(row)) : IdentityKeys(row)[i] \in KeysOf(row)
           /\ \A k \in KeysOf(row) : \E i \in 1..Len(IdentityKeys(row)) : IdentityKeys(row)[i] = k
           /\ DOMAIN IdentityKeys(row) = 1..Len(IdentityKeys(row))
<1> DEFINE keys == IdentityKeys(row)
           A == AllKeys
<1>1. keys \in Seq(A)  BY KeysTyped
<1>2. KeysOf(row) = {keys[i] : i \in DOMAIN keys}  BY DEF KeysOf
<1> HIDE DEF keys, A
<1>3. Len(keys) \in Nat /\ DOMAIN keys = 1..Len(keys) /\ \A i \in 1..Len(keys) : keys[i] \in A
  BY <1>1
<1>4. KeysOf(row) \subseteq A  BY <1>2, <1>3
<1> QED  BY <1>2, <1>3, <1>4 DEF keys, A

GroupRows == [row : AnyRows, channels : SUBSET AnyText]
KeyMaps == UNION {[D -> Nat \ {0}] : D \in SUBSET AllKeys}
GroupStates == [groups : Seq(GroupRows), byKey : KeyMaps]

\* A row goes to a group that one of its identities leads to, or to one of its own.
LEMMA GroupOfIs ==
    ASSUME NEW state \in GroupStates, NEW row \in AnyRows
    PROVE  \/ /\ \A k \in KeysOf(row) : k \notin DOMAIN state.byKey
              /\ GroupOf(state, row) = Len(state.groups) + 1
           \/ \E k \in KeysOf(row) : k \in DOMAIN state.byKey /\ GroupOf(state, row) = state.byKey[k]
<1> DEFINE keys == IdentityKeys(row)
           known == {i \in DOMAIN keys : keys[i] \in DOMAIN state.byKey}
           first == CHOOSE i \in known : \A j \in known : i <= j
           count == Len(keys)
<1>1. GroupOf(state, row) = IF known = {} THEN Len(state.groups) + 1 ELSE state.byKey[keys[first]]
  BY DEF GroupOf
<1>2. /\ count \in Nat /\ DOMAIN keys = 1..count
      /\ \A i \in 1..count : keys[i] \in KeysOf(row)
      /\ \A k \in KeysOf(row) : \E i \in 1..count : keys[i] = k
  BY KeysOfTyped
<1> HIDE DEF keys, count
<1>3. CASE known = {}
  <2>1. \A i \in 1..count : keys[i] \notin DOMAIN state.byKey  BY <1>2, <1>3
  <2>2. \A k \in KeysOf(row) : k \notin DOMAIN state.byKey  BY <1>2, <2>1
  <2>3. GroupOf(state, row) = Len(state.groups) + 1  BY <1>1, <1>3
  <2> QED  BY <2>2, <2>3
<1>4. CASE known # {}
  <2>1. known \in SUBSET (1..count)  BY <1>2
  <2>2. \E i \in known : \A j \in known : i <= j
    <3> HIDE DEF known
    <3> QED  BY <1>2, <1>4, <2>1, LeastOf
  <2>3. first \in known  BY <2>2
  <2>4. keys[first] \in KeysOf(row) /\ keys[first] \in DOMAIN state.byKey
    <3> HIDE DEF first
    <3> QED  BY <1>2, <2>1, <2>3
  <2>5. GroupOf(state, row) = state.byKey[keys[first]]  BY <1>1, <1>4
  <2> HIDE DEF first, known
  <2> QED  BY <2>4, <2>5
<1> QED  BY <1>3, <1>4

\* Keys lead to numbers of groups.
LEMMA KeyMapsAre ==
    ASSUME NEW byKey \in KeyMaps
    PROVE  /\ DOMAIN byKey \subseteq AllKeys
           /\ byKey \in [DOMAIN byKey -> Nat \ {0}]
           /\ \A k \in DOMAIN byKey : byKey[k] \in Nat \ {0}
<1>1. PICK D \in SUBSET AllKeys : byKey \in [D -> Nat \ {0}]  BY DEF KeyMaps
<1> HIDE DEF AllKeys
<1> QED  BY <1>1

\* The group a row goes to has a number.
LEMMA GroupOfTyped ==
    ASSUME NEW state \in GroupStates, NEW row \in AnyRows
    PROVE  GroupOf(state, row) \in Nat \ {0}
<1>1. state.groups \in Seq(GroupRows) /\ state.byKey \in KeyMaps  BY DEF GroupStates
<1>2. Len(state.groups) \in Nat  BY <1>1
<1>3. \A k \in DOMAIN state.byKey : state.byKey[k] \in Nat \ {0}  BY <1>1, KeyMapsAre
<1> QED  BY <1>2, <1>3, GroupOfIs

\* What the keys lead to once a row has registered its own.
LEMMA RegisteredIs ==
    ASSUME NEW byKey \in KeyMaps, NEW row \in AnyRows, NEW group \in Nat \ {0}
    PROVE  /\ Registered(byKey, row, group) \in KeyMaps
           /\ DOMAIN Registered(byKey, row, group) = KeysOf(row) \cup DOMAIN byKey
           /\ \A k \in KeysOf(row) : Registered(byKey, row, group)[k] = group
           /\ \A k \in DOMAIN byKey \ KeysOf(row) : Registered(byKey, row, group)[k] = byKey[k]
<1> DEFINE D == KeysOf(row) \cup DOMAIN byKey
           new == Registered(byKey, row, group)
<1>1. D \in SUBSET AllKeys /\ \A k \in DOMAIN byKey : byKey[k] \in Nat \ {0}
  BY KeyMapsAre, KeysOfTyped
<1>2. new = [k \in D |-> IF k \in KeysOf(row) THEN group ELSE byKey[k]]  BY DEF Registered
<1>3. new \in [D -> Nat \ {0}]
  <2>1. \A k \in D : (IF k \in KeysOf(row) THEN group ELSE byKey[k]) \in Nat \ {0}  BY <1>1
  <2> HIDE DEF D, new
  <2> QED  BY <1>2, <2>1
<1>4. /\ DOMAIN new = D
      /\ \A k \in KeysOf(row) : new[k] = group
      /\ \A k \in DOMAIN byKey \ KeysOf(row) : new[k] = byKey[k]
  <2> HIDE DEF new
  <2> QED  BY <1>2
<1>5. new \in KeyMaps
  <2> HIDE DEF D, new
  <2> QED  BY <1>1, <1>3 DEF KeyMaps
<1> HIDE DEF new
<1>6. DOMAIN new = KeysOf(row) \cup DOMAIN byKey  BY <1>4
<1> QED  BY <1>4, <1>5, <1>6 DEF new

\* One row joins: a group of its own at the end, or one more row of a group.
JoinsAs(old, new, row, g, latestState) ==
    /\ g > Len(old) =>
          /\ Len(new) = Len(old) + 1
          /\ \A h \in 1..Len(old) : new[h] = old[h]
          /\ new[Len(old) + 1].row = row
          /\ new[Len(old) + 1].channels = {row.channel}
    /\ g <= Len(old) =>
          /\ Len(new) = Len(old)
          /\ \A h \in 1..Len(old) : h # g => new[h] = old[h]
          /\ new[g].row = IF Replaces(row, old[g].row, latestState) THEN row ELSE old[g].row
          /\ new[g].channels = old[g].channels \cup {row.channel}

\* A group with one more row.
LEMMA MergedTyped ==
    ASSUME NEW group \in GroupRows, NEW row \in AnyRows, NEW latestState
    PROVE  /\ Merged(group, row, latestState) \in GroupRows
           /\ Merged(group, row, latestState).row = IF Replaces(row, group.row, latestState) THEN row ELSE group.row
           /\ Merged(group, row, latestState).channels = group.channels \cup {row.channel}
<1>1. group.row \in AnyRows /\ group.channels \in SUBSET AnyText  BY DEF GroupRows
<1>2. row.channel \in AnyText
  <2> HIDE DEF AnyText
  <2> QED  BY DEF AnyRows
<1> DEFINE r == IF Replaces(row, group.row, latestState) THEN row ELSE group.row
           c == group.channels \cup {row.channel}
<1>3. r \in AnyRows /\ c \in SUBSET AnyText  BY <1>1, <1>2
<1>4. Merged(group, row, latestState) = [row |-> r, channels |-> c]  BY DEF Merged
<1> HIDE DEF r, c
<1>5. /\ Merged(group, row, latestState) \in GroupRows
      /\ Merged(group, row, latestState).row = r /\ Merged(group, row, latestState).channels = c
  BY <1>3, <1>4 DEF GroupRows
<1> QED  BY <1>5 DEF r, c

\* So joining the groups leaves groups, and changes one of them.
LEMMA JoinedIs ==
    ASSUME NEW state \in GroupStates, NEW row \in AnyRows, NEW latestState
    PROVE  /\ Joined(state, row, latestState) \in GroupStates
           /\ Joined(state, row, latestState).byKey = Registered(state.byKey, row, GroupOf(state, row))
           /\ JoinsAs(state.groups, Joined(state, row, latestState).groups, row, GroupOf(state, row), latestState)
<1> DEFINE g == GroupOf(state, row)
           old == state.groups
           one == [row |-> row, channels |-> {row.channel}]
           to == [old EXCEPT ![g] = Merged(@, row, latestState)]
           new == IF g > Len(old) THEN Append(old, one) ELSE to
<1>1. old \in Seq(GroupRows) /\ state.byKey \in KeyMaps  BY DEF GroupStates
<1>2. g \in Nat \ {0}  BY GroupOfTyped
<1>3. Joined(state, row, latestState) = [groups |-> new, byKey |-> Registered(state.byKey, row, g)]
  BY DEF Joined
<1>4. row.channel \in AnyText
  <2> HIDE DEF AnyText
  <2> QED  BY DEF AnyRows
<1>5. one \in GroupRows /\ one.row = row /\ one.channels = {row.channel}  BY <1>4 DEF GroupRows
<1> HIDE DEF g, old, one
<1>6. new \in Seq(GroupRows) /\ JoinsAs(old, new, row, g, latestState)
  <2>1. CASE g > Len(old)
    <3> DEFINE longer == Append(old, one)
    <3>1. longer \in Seq(GroupRows) /\ Len(longer) = Len(old) + 1 /\ Len(old) \in Nat  BY <1>1, <1>5
    <3>2. (\A h \in 1..Len(old) : longer[h] = old[h]) /\ longer[Len(old) + 1] = one  BY <1>1, <1>5
    <3>3. new = longer  BY <2>1
    <3> HIDE DEF longer, new
    <3> QED  BY <1>2, <1>5, <2>1, <3>1, <3>2, <3>3 DEF JoinsAs
  <2>2. CASE g <= Len(old)
    <3>1. Len(old) \in Nat /\ DOMAIN old = 1..Len(old) /\ old \in [1..Len(old) -> GroupRows]  BY <1>1
    <3>2. g \in 1..Len(old) /\ old[g] \in GroupRows  BY <1>2, <2>2, <3>1
    <3>3. to[g] = Merged(old[g], row, latestState)  BY <3>1, <3>2
    <3>4. \A h \in 1..Len(old) : h # g => to[h] = old[h]  BY <3>1
    <3>5. Merged(old[g], row, latestState) \in GroupRows  BY <3>2, MergedTyped
    <3>6. to \in [1..Len(old) -> GroupRows]  BY <3>1, <3>5
    <3>7. to \in Seq(GroupRows) /\ Len(to) = Len(old)
      <4> DEFINE m == Len(old)
      <4>1. m \in Nat /\ to \in [1..m -> GroupRows]  BY <3>1, <3>6
      <4> HIDE DEF to, m, GroupRows
      <4>2. to \in Seq(GroupRows)  BY <4>1, SeqDef
      <4>3. DOMAIN to = 1..m  BY <4>1
      <4>4. Len(to) = m  BY <4>1, <4>2, <4>3
      <4> QED  BY <4>2, <4>4 DEF m
    <3>8. new = to
      <4>1. ~(g > Len(old))  BY <1>2, <2>2, <3>1
      <4> HIDE DEF to
      <4> QED  BY <4>1
    <3>9. /\ to[g].row = IF Replaces(row, old[g].row, latestState) THEN row ELSE old[g].row
          /\ to[g].channels = old[g].channels \cup {row.channel}
      <4> HIDE DEF to
      <4> QED  BY <3>2, <3>3, MergedTyped
    <3>10. ~(g > Len(old))  BY <1>2, <2>2, <3>1
    <3> HIDE DEF to, new
    <3>11. JoinsAs(old, to, row, g, latestState)  BY <3>4, <3>7, <3>9, <3>10 DEF JoinsAs
    <3> QED  BY <3>7, <3>8, <3>11
  <2>3. Len(old) \in Nat  BY <1>1
  <2> QED  BY <1>2, <2>1, <2>2, <2>3
<1>7. Registered(state.byKey, row, g) \in KeyMaps  BY <1>1, <1>2, RegisteredIs
<1> DEFINE keys == Registered(state.byKey, row, g)
<1>8. /\ Joined(state, row, latestState).groups = new /\ Joined(state, row, latestState).byKey = keys
      /\ Joined(state, row, latestState) \in GroupStates
  <2> HIDE DEF new, keys, GroupRows, KeyMaps
  <2> QED  BY <1>3, <1>6, <1>7 DEF GroupStates, keys
<1> QED  BY <1>6, <1>8 DEF g, old

\* What the loop over the rows comes to.
LEMMA GroupingIs ==
    ASSUME NEW rows \in Seq(AnyRows), NEW latestState
    PROVE  /\ Grouping(rows, latestState) \in [0..Len(rows) -> GroupStates]
           /\ Grouping(rows, latestState)[0] = [groups |-> <<>>, byKey |-> <<>>]
           /\ \A n \in 1..Len(rows) :
                 Grouping(rows, latestState)[n] = Joined(Grouping(rows, latestState)[n - 1], rows[n], latestState)
<1> DEFINE count == Len(rows)
           none == [groups |-> <<>>, byKey |-> <<>>]
           step == [n \in 1..count |-> [state \in GroupStates |-> Joined(state, rows[n], latestState)]]
<1>1. count \in Nat /\ \A n \in 1..count : rows[n] \in AnyRows  BY DEF count
<1>2. none \in GroupStates
  <2>1. <<>> \in Seq(GroupRows)  OBVIOUS
  <2>2. <<>> \in [{} -> Nat \ {0}]
    <3>1. <<>> \in Seq(Nat \ {0}) /\ Len(<<>>) = 0 /\ 1..0 = {}  OBVIOUS
    <3> QED  BY <3>1
  <2>3. {} \in SUBSET AllKeys  OBVIOUS
  <2>4. <<>> \in KeyMaps  BY <2>2, <2>3 DEF KeyMaps
  <2> HIDE DEF GroupRows, KeyMaps
  <2> QED  BY <2>1, <2>4 DEF GroupStates
<1>3. step \in [1..count -> [GroupStates -> GroupStates]]
  <2>1. \A n \in 1..count : \A state \in GroupStates : Joined(state, rows[n], latestState) \in GroupStates
    BY <1>1, JoinedIs
  <2> QED  BY <2>1
<1>4. \A n \in 1..count : \A state \in GroupStates : step[n][state] = Joined(state, rows[n], latestState)
  OBVIOUS
<1> HIDE DEF step
<1>5. PICK f : Runs(f, count, GroupStates, none, step)  BY <1>1, <1>2, <1>3, Recursion
<1>6. /\ f \in [0..count -> GroupStates] /\ f[0] = none
      /\ \A n \in 1..count : f[n] = step[n][f[n - 1]]
  BY <1>5 DEF Runs
<1> DEFINE Loop(s) == [n \in 0..count |-> IF n = 0 THEN none ELSE Joined(s[n - 1], rows[n], latestState)]
<1>7. \A n \in 1..count : n - 1 \in 0..count  BY <1>1
<1>8. \A n \in 1..count : f[n] = Joined(f[n - 1], rows[n], latestState)  BY <1>4, <1>6, <1>7
<1>9. \A n \in 0..count : n = 0 \/ n \in 1..count  BY <1>1
<1>10. f = Loop(f)
  <2>1. \A n \in 0..count : f[n] = IF n = 0 THEN none ELSE Joined(f[n - 1], rows[n], latestState)
    BY <1>6, <1>8, <1>9
  <2> HIDE DEF none
  <2> QED  BY <1>6, <2>1
<1> DEFINE G == Grouping(rows, latestState)
<1>11. G = Loop(G)
  <2>1. G = CHOOSE s : s = Loop(s)  BY DEF Grouping
  <2> HIDE DEF Loop, G
  <2> QED  BY <1>10, <2>1
<1> HIDE DEF G
<1>12. DOMAIN G = 0..count /\ G[0] = none
      /\ \A n \in 1..count : G[n] = Joined(G[n - 1], rows[n], latestState)
  <2> DEFINE Turn(n) == IF n = 0 THEN none ELSE Joined(G[n - 1], rows[n], latestState)
  <2>1. G = [n \in 0..count |-> Turn(n)]  BY <1>11
  <2>2. 0 \in 0..count /\ \A n \in 1..count : n \in 0..count /\ n # 0  BY <1>1
  <2>3. Turn(0) = none /\ \A n \in 1..count : Turn(n) = Joined(G[n - 1], rows[n], latestState)  BY <2>2
  <2> HIDE DEF Turn
  <2> QED  BY <2>1, <2>2, <2>3
<1> HIDE DEF none
<1> DEFINE P == {n \in 0..count : G[n] \in GroupStates}
<1>13. 0 \in P  BY <1>1, <1>2, <1>12
<1>14. \A n \in 1..count : n - 1 \in P => n \in P
  <2>1. ASSUME NEW n \in 1..count, G[n - 1] \in GroupStates PROVE G[n] \in GroupStates
    BY <1>1, <1>12, <2>1, JoinedIs
  <2> QED  BY <2>1
<1> HIDE DEF P
<1>15. \A n \in 0..count : n \in P
  <2>1. P \in SUBSET (0..count)  BY DEF P
  <2> HIDE DEF count
  <2> QED  BY <1>1, <1>13, <1>14, <2>1, Along
<1>16. G = [n \in 0..count |-> G[n]]  BY <1>11
<1>17. G \in [0..count -> GroupStates]
  <2>1. \A n \in 0..count : G[n] \in GroupStates  BY <1>15 DEF P
  <2> QED  BY <1>16, <2>1
<1> QED  BY <1>12, <1>17 DEF G, none

(***************************************************************************)
(* One group for one alert                                                 *)
(***************************************************************************)
OfGroup(n, of, g) == {i \in 1..n : of[i] = g}
ChannelsOf(rows, alert) == {rows[i].channel : i \in alert}

Counted(n, groups, of) ==
    /\ \A i \in 1..n : of[i] \in 1..Len(groups)
    /\ \A g \in 1..Len(groups) : \E i \in 1..n : of[i] = g

Keyed(rows, n, byKey, of) ==
    /\ \A i \in 1..n : KeysOf(rows[i]) \subseteq DOMAIN byKey
    /\ \A k \in DOMAIN byKey : \E i \in 1..n : k \in KeysOf(rows[i]) /\ byKey[k] = of[i]

Holds(rows, latestState, alert, group) ==
    /\ group.channels = ChannelsOf(rows, alert)
    /\ \E i \in alert : Stands(rows, latestState, alert, i) /\ group.row = rows[i]

AllHold(rows, n, latestState, groups, of) ==
    \A g \in 1..Len(groups) : Holds(rows, latestState, OfGroup(n, of, g), groups[g])

\* A row goes to the group of one it shares an identity with, or else to a new one.
LEMMA ContinuesOrStarts ==
    ASSUME NEW rows, NEW n \in Nat \ {0}, rows[n] \in AnyRows, NEW of,
           NEW state \in GroupStates,
           Counted(n - 1, state.groups, of), Keyed(rows, n - 1, state.byKey, of),
           of[n] = GroupOf(state, rows[n])
    PROVE  \/ Starts(rows, n, of) /\ of[n] = Len(state.groups) + 1
           \/ Continues(rows, n, of) /\ of[n] \in 1..Len(state.groups)
<1> DEFINE count == Len(state.groups)
<1>1. count \in Nat
  <2>1. state.groups \in Seq(GroupRows)  BY DEF GroupStates
  <2> QED  BY <2>1
<1>2. CASE (\A k \in KeysOf(rows[n]) : k \notin DOMAIN state.byKey) /\ GroupOf(state, rows[n]) = count + 1
  <2>1. ASSUME NEW i \in 1..(n - 1) PROVE ~Shares(rows[n], rows[i]) /\ of[n] # of[i]
    <3>1. KeysOf(rows[i]) \subseteq DOMAIN state.byKey  BY DEF Keyed
    <3>2. ~Shares(rows[n], rows[i])  BY <1>2, <3>1 DEF Shares
    <3>3. of[i] \in 1..count  BY DEF Counted
    <3>4. of[n] = count + 1  BY <1>2
    <3> HIDE DEF count
    <3>5. of[n] # of[i]  BY <1>1, <3>3, <3>4
    <3> QED  BY <3>2, <3>5
  <2> QED  BY <1>2, <2>1 DEF Starts
<1>3. CASE \E k \in KeysOf(rows[n]) : k \in DOMAIN state.byKey /\ GroupOf(state, rows[n]) = state.byKey[k]
  <2>1. PICK k \in KeysOf(rows[n]) : k \in DOMAIN state.byKey /\ GroupOf(state, rows[n]) = state.byKey[k]
    BY <1>3
  <2>2. PICK i \in 1..(n - 1) : k \in KeysOf(rows[i]) /\ state.byKey[k] = of[i]  BY <2>1 DEF Keyed
  <2>3. Shares(rows[n], rows[i])  BY <2>1, <2>2 DEF Shares
  <2>4. of[i] \in 1..count  BY <2>2 DEF Counted
  <2> QED  BY <2>1, <2>2, <2>3, <2>4 DEF Continues
<1> QED  BY <1>2, <1>3, GroupOfIs

\* No group is without rows, and no row without a group.
LEMMA CountedStep ==
    ASSUME NEW n \in Nat \ {0}, NEW of, NEW old, NEW new, NEW row, NEW latestState,
           Len(old) \in Nat, Counted(n - 1, old, of), of[n] \in 1..(Len(old) + 1),
           JoinsAs(old, new, row, of[n], latestState)
    PROVE  Counted(n, new, of)
<1> DEFINE count == Len(old)
           g == of[n]
<1>1. /\ \A i \in 1..n : i = n \/ i \in 1..(n - 1)
      /\ n \in 1..n /\ \A i \in 1..(n - 1) : i \in 1..n
  OBVIOUS
<1>2. \A i \in 1..(n - 1) : of[i] \in 1..count  BY DEF Counted
<1>3. \A h \in 1..count : \E i \in 1..(n - 1) : of[i] = h  BY DEF Counted
<1>4. CASE g > count
  <2>1. Len(new) = count + 1  BY <1>4 DEF JoinsAs
  <2>2. g = count + 1  BY <1>4
  <2> HIDE DEF count
  <2>3. \A h \in 1..(count + 1) : h = count + 1 \/ h \in 1..count  BY DEF count
  <2>4. \A h \in 1..count : h \in 1..(count + 1)  BY DEF count
  <2>5. \A i \in 1..n : of[i] \in 1..(count + 1)  BY <1>1, <1>2, <2>2, <2>4 DEF count
  <2>6. \A h \in 1..(count + 1) : \E i \in 1..n : of[i] = h  BY <1>1, <1>3, <2>2, <2>3
  <2> QED  BY <2>1, <2>5, <2>6 DEF Counted
<1>5. CASE g <= count
  <2>1. Len(new) = count  BY <1>5 DEF JoinsAs
  <2>2. g \in 1..count  BY <1>5
  <2> HIDE DEF count
  <2>3. \A i \in 1..n : of[i] \in 1..count  BY <1>1, <1>2, <2>2
  <2>4. \A h \in 1..count : \E i \in 1..n : of[i] = h  BY <1>1, <1>3
  <2> QED  BY <2>1, <2>3, <2>4 DEF Counted
<1> QED  BY <1>4, <1>5

\* The known keys are those of the rows so far, and lead to the group of such a row.
LEMMA KeyedStep ==
    ASSUME NEW n \in Nat \ {0}, NEW rows, rows[n] \in AnyRows, NEW of, NEW byKey \in KeyMaps,
           Keyed(rows, n - 1, byKey, of), of[n] \in Nat \ {0}
    PROVE  Keyed(rows, n, Registered(byKey, rows[n], of[n]), of)
<1> DEFINE new == Registered(byKey, rows[n], of[n])
           keys == KeysOf(rows[n])
<1>1. /\ \A i \in 1..n : i = n \/ i \in 1..(n - 1)
      /\ n \in 1..n /\ \A i \in 1..(n - 1) : i \in 1..n
  OBVIOUS
<1>2. /\ DOMAIN new = keys \cup DOMAIN byKey
      /\ \A k \in keys : new[k] = of[n]
      /\ \A k \in DOMAIN byKey \ keys : new[k] = byKey[k]
  BY RegisteredIs
<1>3. /\ \A i \in 1..(n - 1) : KeysOf(rows[i]) \subseteq DOMAIN byKey
      /\ \A k \in DOMAIN byKey : \E i \in 1..(n - 1) : k \in KeysOf(rows[i]) /\ byKey[k] = of[i]
  BY DEF Keyed
<1> HIDE DEF new
<1>4. \A i \in 1..n : KeysOf(rows[i]) \subseteq DOMAIN new  BY <1>1, <1>2, <1>3
<1>5. ASSUME NEW k \in DOMAIN new PROVE \E i \in 1..n : k \in KeysOf(rows[i]) /\ new[k] = of[i]
  <2>1. CASE k \in keys  BY <1>1, <1>2, <2>1
  <2>2. CASE k \in DOMAIN byKey \ keys  BY <1>1, <1>2, <1>3, <2>2
  <2> QED  BY <1>2, <2>1, <2>2
<1> QED  BY <1>4, <1>5 DEF Keyed, new

\* Every group has the sources of its rows, and the row that stands for them.
LEMMA HoldsStep ==
    ASSUME NEW n \in Nat \ {0}, NEW rows, \A k \in 1..n : rows[k] \in AnyRows, NEW latestState \in BOOLEAN,
           NEW of, NEW old, NEW new, Len(old) \in Nat,
           Counted(n - 1, old, of), of[n] \in 1..(Len(old) + 1),
           AllHold(rows, n - 1, latestState, old, of),
           JoinsAs(old, new, rows[n], of[n], latestState)
    PROVE  AllHold(rows, n, latestState, new, of)
<1> DEFINE count == Len(old)
           g == of[n]
           Prior(h) == OfGroup(n - 1, of, h)
<1>1. /\ \A i \in 1..n : i = n \/ i \in 1..(n - 1)
      /\ n \in 1..n /\ \A i \in 1..(n - 1) : i \in 1..n /\ i # n
  OBVIOUS
<1>2. \A h : h # g => OfGroup(n, of, h) = Prior(h)  BY <1>1 DEF OfGroup
<1>3. OfGroup(n, of, g) = Prior(g) \cup {n}  BY <1>1 DEF OfGroup
<1>4. \A h \in 1..count : Holds(rows, latestState, Prior(h), old[h])  BY DEF AllHold
<1>5. ASSUME NEW h \in 1..count, h # g, new[h] = old[h]
      PROVE  Holds(rows, latestState, OfGroup(n, of, h), new[h])
  BY <1>2, <1>4, <1>5
<1>6. CASE g > count
  <2>1. /\ Len(new) = count + 1
        /\ \A h \in 1..count : new[h] = old[h]
        /\ new[count + 1].row = rows[n]
        /\ new[count + 1].channels = {rows[n].channel}
    BY <1>6 DEF JoinsAs
  <2>2. g = count + 1  BY <1>6
  <2>3. OfGroup(n, of, g) = {n}
    <3>1. \A i \in 1..(n - 1) : of[i] \in 1..count  BY DEF Counted
    <3> HIDE DEF count
    <3>2. \A i \in 1..(n - 1) : of[i] # g  BY <2>2, <3>1 DEF count
    <3>3. Prior(g) = {}  BY <3>2 DEF OfGroup
    <3> QED  BY <1>3, <3>3
  <2>4. Stands(rows, latestState, {n}, n)  BY <1>1, StandsAlone
  <2>5. ChannelsOf(rows, {n}) = {rows[n].channel}  BY DEF ChannelsOf
  <2>6. Holds(rows, latestState, {n}, new[count + 1])
    <3> DEFINE alone == new[count + 1]
    <3>1. alone.row = rows[n] /\ alone.channels = ChannelsOf(rows, {n})  BY <2>1, <2>5
    <3> HIDE DEF alone
    <3>2. Holds(rows, latestState, {n}, alone)  BY <2>4, <3>1 DEF Holds
    <3> QED  BY <3>2 DEF alone
  <2>7. ASSUME NEW h \in 1..(count + 1) PROVE Holds(rows, latestState, OfGroup(n, of, h), new[h])
    <3>1. CASE h = count + 1  BY <2>2, <2>3, <2>6, <3>1
    <3>2. CASE h \in 1..count
      <4>1. h # g  BY <2>2, <3>2
      <4> QED  BY <1>5, <2>1, <3>2, <4>1
    <3> QED  BY <3>1, <3>2
  <2> QED  BY <2>1, <2>7 DEF AllHold
<1>7. CASE g <= count
  <2>1. /\ Len(new) = count
        /\ \A h \in 1..count : h # g => new[h] = old[h]
        /\ new[g].row = IF Replaces(rows[n], old[g].row, latestState) THEN rows[n] ELSE old[g].row
        /\ new[g].channels = old[g].channels \cup {rows[n].channel}
    BY <1>7 DEF JoinsAs
  <2>2. g \in 1..count  BY <1>7
  <2> DEFINE was == old[g]
             is == new[g]
             alert == Prior(g)
  <2>3. Holds(rows, latestState, alert, was)  BY <1>4, <2>2
  <2>4. is.channels = ChannelsOf(rows, alert \cup {n})
    <3>1. was.channels = ChannelsOf(rows, alert)  BY <2>3 DEF Holds
    <3>2. is.channels = was.channels \cup {rows[n].channel}  BY <2>1
    <3> HIDE DEF is, was, alert
    <3>3. ChannelsOf(rows, alert \cup {n}) = ChannelsOf(rows, alert) \cup {rows[n].channel}
      BY DEF ChannelsOf
    <3> QED  BY <3>1, <3>2, <3>3
  <2>5. PICK i \in alert : Stands(rows, latestState, alert, i) /\ was.row = rows[i]
    <3> HIDE DEF was, alert
    <3> QED  BY <2>3 DEF Holds
  <2>6. is.row = IF Replaces(rows[n], rows[i], latestState) THEN rows[n] ELSE rows[i]
    BY <2>1, <2>5
  <2>7. alert \in SUBSET (1..(n - 1))  BY DEF OfGroup
  <2> HIDE DEF is, was, alert
  <2>8. IF Replaces(rows[n], rows[i], latestState)
        THEN Stands(rows, latestState, alert \cup {n}, n)
        ELSE Stands(rows, latestState, alert \cup {n}, i)
    BY <2>5, <2>7, StandsStep
  <2>9. Holds(rows, latestState, alert \cup {n}, is)
    <3>1. CASE Replaces(rows[n], rows[i], latestState)
      <4>1. n \in alert \cup {n} /\ Stands(rows, latestState, alert \cup {n}, n) /\ is.row = rows[n]
        BY <2>6, <2>8, <3>1
      <4> QED  BY <2>4, <4>1 DEF Holds
    <3>2. CASE ~Replaces(rows[n], rows[i], latestState)
      <4>1. i \in alert \cup {n} /\ Stands(rows, latestState, alert \cup {n}, i) /\ is.row = rows[i]
        BY <2>5, <2>6, <2>8, <3>2
      <4> QED  BY <2>4, <4>1 DEF Holds
    <3> QED  BY <3>1, <3>2
  <2>10. Holds(rows, latestState, OfGroup(n, of, g), new[g])  BY <1>3, <2>9 DEF is, alert
  <2>11. \A h \in 1..count : Holds(rows, latestState, OfGroup(n, of, h), new[h])
    <3>1. ASSUME NEW h \in 1..count, h # g PROVE Holds(rows, latestState, OfGroup(n, of, h), new[h])
      BY <1>5, <2>1, <3>1
    <3> QED  BY <2>10, <3>1
  <2> QED  BY <2>1, <2>11 DEF AllHold
<1> QED  BY <1>6, <1>7

\* All of it, after n rows.
GroupedSoFar(rows, n, latestState, state, of) ==
    /\ state \in GroupStates
    /\ Counted(n, state.groups, of)
    /\ Keyed(rows, n, state.byKey, of)
    /\ AllHold(rows, n, latestState, state.groups, of)
    /\ Together(rows, n, of)

\* Before the first row there is nothing to show.
LEMMA GroupedAtFirst ==
    ASSUME NEW rows, NEW latestState, NEW of,
           [groups |-> <<>>, byKey |-> <<>>] \in GroupStates
    PROVE  GroupedSoFar(rows, 0, latestState, [groups |-> <<>>, byKey |-> <<>>], of)
<1>1. 1..0 = {} /\ Len(<<>>) = 0 /\ DOMAIN <<>> = {}  OBVIOUS
<1>2. Counted(0, <<>>, of)  BY <1>1 DEF Counted
<1>3. Keyed(rows, 0, <<>>, of)  BY <1>1 DEF Keyed
<1>4. AllHold(rows, 0, latestState, <<>>, of)  BY <1>1 DEF AllHold
<1>5. Together(rows, 0, of)  BY <1>1 DEF Together
<1> DEFINE none == [groups |-> <<>>, byKey |-> <<>>]
<1>6. none.groups = <<>> /\ none.byKey = <<>>  OBVIOUS
<1>7. none \in GroupStates  OBVIOUS
<1> HIDE DEF none
<1>8. GroupedSoFar(rows, 0, latestState, none, of)
  BY <1>2, <1>3, <1>4, <1>5, <1>6, <1>7 DEF GroupedSoFar
<1> QED  BY <1>8 DEF none

\* One more row that joins no two alerts.
LEMMA GroupedStep ==
    ASSUME NEW n \in Nat \ {0}, NEW rows, \A k \in 1..n : rows[k] \in AnyRows, NEW latestState \in BOOLEAN,
           NEW state, NEW of, GroupedSoFar(rows, n - 1, latestState, state, of),
           of[n] = GroupOf(state, rows[n]), ~Bridges(rows, n)
    PROVE  GroupedSoFar(rows, n, latestState, Joined(state, rows[n], latestState), of)
<1> DEFINE old == state.groups
           after == Joined(state, rows[n], latestState)
<1>1. /\ state \in GroupStates /\ Counted(n - 1, old, of) /\ Keyed(rows, n - 1, state.byKey, of)
      /\ AllHold(rows, n - 1, latestState, old, of) /\ Together(rows, n - 1, of)
  BY DEF GroupedSoFar
<1>2. n \in 1..n /\ rows[n] \in AnyRows  OBVIOUS
<1>3. state.byKey \in KeyMaps /\ Len(old) \in Nat
  <2>1. state.byKey \in KeyMaps /\ old \in Seq(GroupRows)  BY <1>1 DEF GroupStates
  <2> HIDE DEF old
  <2> QED  BY <2>1
<1>4. /\ after \in GroupStates
      /\ after.byKey = Registered(state.byKey, rows[n], of[n])
      /\ JoinsAs(old, after.groups, rows[n], of[n], latestState)
  BY <1>1, <1>2, JoinedIs
<1>5. \/ Starts(rows, n, of) /\ of[n] = Len(old) + 1
      \/ Continues(rows, n, of) /\ of[n] \in 1..Len(old)
  BY <1>1, <1>2, ContinuesOrStarts
<1> HIDE DEF old, after
<1>6. of[n] \in 1..(Len(old) + 1) /\ of[n] \in Nat \ {0}  BY <1>3, <1>5
<1>7. Counted(n, after.groups, of)  BY <1>1, <1>3, <1>4, <1>6, CountedStep
<1>8. Keyed(rows, n, after.byKey, of)  BY <1>1, <1>2, <1>3, <1>4, <1>6, KeyedStep
<1>9. AllHold(rows, n, latestState, after.groups, of)  BY <1>1, <1>3, <1>4, <1>6, HoldsStep
<1>10. Together(rows, n, of)  BY <1>1, <1>5, TogetherStep
<1>11. GroupedSoFar(rows, n, latestState, after, of)
  BY <1>4, <1>7, <1>8, <1>9, <1>10 DEF GroupedSoFar
<1> QED  BY <1>11 DEF after

\* And so after all rows.
LEMMA GroupedAll ==
    ASSUME NEW rows \in Seq(AnyRows), NEW latestState \in BOOLEAN,
           \A n \in DOMAIN rows : ~Bridges(rows, n)
    PROVE  \E of : GroupedSoFar(rows, Len(rows), latestState, Grouping(rows, latestState)[Len(rows)], of)
<1> DEFINE G == Grouping(rows, latestState)
           count == Len(rows)
           of == [i \in 1..count |-> GroupOf(G[i - 1], rows[i])]
           P == {n \in 0..count : GroupedSoFar(rows, n, latestState, G[n], of)}
<1>1. count \in Nat /\ DOMAIN rows = 1..count /\ \A n \in 1..count : rows[n] \in AnyRows  BY DEF count
<1>2. /\ G \in [0..count -> GroupStates]
      /\ G[0] = [groups |-> <<>>, byKey |-> <<>>]
      /\ \A n \in 1..count : G[n] = Joined(G[n - 1], rows[n], latestState)
  BY GroupingIs
<1>3. \A i \in 1..count : of[i] = GroupOf(G[i - 1], rows[i])  OBVIOUS
<1> HIDE DEF G, of, count
<1>4. 0 \in P
  <2>1. 0 \in 0..count  BY <1>1
  <2>2. G[0] \in GroupStates  BY <1>2, <2>1
  <2>3. [groups |-> <<>>, byKey |-> <<>>] \in GroupStates  BY <1>2, <2>2
  <2>4. GroupedSoFar(rows, 0, latestState, G[0], of)  BY <1>2, <2>3, GroupedAtFirst
  <2> QED  BY <2>1, <2>4
<1>5. ASSUME NEW n \in 1..count, n - 1 \in P PROVE n \in P
  <2>1. GroupedSoFar(rows, n - 1, latestState, G[n - 1], of)  BY <1>5
  <2>2. n \in Nat \ {0} /\ n \in 0..count /\ \A k \in 1..n : rows[k] \in AnyRows
    <3>1. \A k \in 1..n : k \in 1..count  BY <1>1
    <3> QED  BY <1>1, <3>1
  <2>3. ~Bridges(rows, n)  BY <1>1
  <2>4. GroupedSoFar(rows, n, latestState, Joined(G[n - 1], rows[n], latestState), of)
    BY <1>3, <2>1, <2>2, <2>3, GroupedStep
  <2> QED  BY <1>2, <2>2, <2>4
<1> HIDE DEF P
<1>6. P \in SUBSET (0..count)  BY DEF P
<1>7. \A n \in 0..count : n \in P  BY <1>1, <1>4, <1>5, <1>6, Along
<1>8. count \in P  BY <1>1, <1>7
<1> QED  BY <1>8 DEF P, G, count

\* For any rows: one group for one alert, the one that is preferred, with all its sources.
LEMMA OneRow ==
    ASSUME NEW rows \in Seq(AnyRows), NEW latestState \in BOOLEAN
    PROVE  OneGroupPerAlert(rows, latestState)
<1> DEFINE n == Len(rows)
           groups == Groups(rows, latestState)
           alerts == {Linked(rows, n, i) : i \in DOMAIN rows}
<1>1. SUFFICES ASSUME \A m \in DOMAIN rows : ~Bridges(rows, m)
               PROVE  /\ Len(groups) = Cardinality(alerts)
                      /\ \A alert \in alerts : \E g \in DOMAIN groups :
                            /\ \E i \in alert : Stands(rows, latestState, alert, i) /\ groups[g].row = rows[i]
                            /\ groups[g].channels = {rows[i].channel : i \in alert}
  BY DEF OneGroupPerAlert
<1> DEFINE state == Grouping(rows, latestState)[n]
           count == Len(groups)
<1>2. PICK of : GroupedSoFar(rows, n, latestState, state, of)  BY <1>1, GroupedAll
<1>3. groups = state.groups  BY DEF Groups
<1>4. /\ state \in GroupStates /\ Counted(n, groups, of)
      /\ AllHold(rows, n, latestState, groups, of) /\ Together(rows, n, of)
  BY <1>2, <1>3 DEF GroupedSoFar
<1>5. n \in Nat /\ DOMAIN rows = 1..n  OBVIOUS
<1>6. count \in Nat /\ DOMAIN groups = 1..count
  <2>1. groups \in Seq(GroupRows)  BY <1>3, <1>4 DEF GroupStates
  <2> HIDE DEF groups
  <2> QED  BY <2>1
<1> HIDE DEF state, groups, n
<1> DEFINE alertOf == [g \in 1..count |-> OfGroup(n, of, g)]
<1>7. ASSUME NEW i \in 1..n PROVE Linked(rows, n, i) = OfGroup(n, of, of[i]) /\ of[i] \in 1..count
  <2>1. \A j \in 1..n : of[j] = of[i] <=> j \in Linked(rows, n, i)  BY <1>4 DEF Together
  <2>2. Linked(rows, n, i) \subseteq 1..n  BY <1>5, LinkedIs DEF Closes
  <2>3. of[i] \in 1..count  BY <1>4 DEF Counted
  <2> QED  BY <2>1, <2>2, <2>3 DEF OfGroup
<1>8. ASSUME NEW g \in 1..count PROVE \E i \in 1..n : of[i] = g
  BY <1>4 DEF Counted
<1>9. alerts = ValuesOn(alertOf, 1..count)
  <2>1. ASSUME NEW i \in 1..n PROVE Linked(rows, n, i) \in ValuesOn(alertOf, 1..count)
    BY <1>7 DEF ValuesOn
  <2>2. ASSUME NEW g \in 1..count PROVE OfGroup(n, of, g) \in alerts
    <3>1. PICK i \in 1..n : of[i] = g  BY <1>8
    <3> QED  BY <1>5, <1>7, <3>1
  <2>3. ValuesOn(alertOf, 1..count) = {OfGroup(n, of, g) : g \in 1..count}  BY DEF ValuesOn
  <2> QED  BY <1>5, <2>1, <2>2, <2>3
<1>10. \A g, h \in 1..count : alertOf[g] = alertOf[h] => g = h
  <2>1. ASSUME NEW g \in 1..count, NEW h \in 1..count, OfGroup(n, of, g) = OfGroup(n, of, h) PROVE g = h
    <3>1. PICK i \in 1..n : of[i] = g  BY <1>8
    <3>2. i \in OfGroup(n, of, h)  BY <2>1, <3>1 DEF OfGroup
    <3> QED  BY <3>1, <3>2 DEF OfGroup
  <2> QED  BY <2>1
<1>11. Cardinality(alerts) = count
  <2> HIDE DEF alertOf, alerts, count
  <2> QED  BY <1>6, <1>9, <1>10, CountOf
<1>12. ASSUME NEW alert \in alerts
       PROVE  \E g \in DOMAIN groups :
                 /\ \E i \in alert : Stands(rows, latestState, alert, i) /\ groups[g].row = rows[i]
                 /\ groups[g].channels = {rows[i].channel : i \in alert}
  <2>1. PICK g \in 1..count : alert = OfGroup(n, of, g)
    <3>1. PICK i \in 1..n : alert = Linked(rows, n, i)  BY <1>5
    <3> QED  BY <1>7, <3>1
  <2> DEFINE group == groups[g]
  <2>2. Holds(rows, latestState, alert, group)  BY <1>4, <2>1 DEF AllHold
  <2> HIDE DEF group
  <2>3. /\ \E i \in alert : Stands(rows, latestState, alert, i) /\ group.row = rows[i]
        /\ group.channels = {rows[i].channel : i \in alert}
    BY <2>2 DEF Holds, ChannelsOf
  <2> QED  BY <1>6, <2>3 DEF group
<1> QED  BY <1>11, <1>12

(***************************************************************************)
(* The latest of each source                                               *)
(***************************************************************************)

\* What the first round comes to.
LEMMA ReservedIs ==
    ASSUME NEW rows, Len(rows) \in Nat
    PROVE  /\ Reserved(rows) \in [0..Len(rows) -> SUBSET (1..Len(rows))]
           /\ Reserved(rows)[0] = {}
           /\ \A n \in 1..Len(rows) : Reserved(rows)[n] = Reserve(Reserved(rows)[n - 1], rows, n)
<1> DEFINE count == Len(rows)
           none == {}
           G == Reserved(rows)
           step == [n \in 1..count |-> [was \in SUBSET (1..Len(rows)) |-> Reserve(was, rows, n)]]
<1>1. count \in Nat  OBVIOUS
<1>2. none \in SUBSET (1..Len(rows))  OBVIOUS
<1>3. \A n \in 1..count : \A was \in SUBSET (1..Len(rows)) : Reserve(was, rows, n) \in SUBSET (1..Len(rows))
  BY <1>1 DEF Reserve
<1>4. step \in [1..count -> [SUBSET (1..Len(rows)) -> SUBSET (1..Len(rows))]]  BY <1>3
<1>5. \A n \in 1..count : \A was \in SUBSET (1..Len(rows)) : step[n][was] = Reserve(was, rows, n)
  OBVIOUS
<1> HIDE DEF step
<1>6. PICK f : Runs(f, count, SUBSET (1..Len(rows)), none, step)  BY <1>1, <1>2, <1>4, Recursion
<1>7. /\ f \in [0..count -> SUBSET (1..Len(rows))] /\ f[0] = none
      /\ \A n \in 1..count : f[n] = step[n][f[n - 1]]
  BY <1>6 DEF Runs
<1> DEFINE Loop(s) == [n \in 0..count |-> IF n = 0 THEN none ELSE Reserve(s[n - 1], rows, n)]
<1>8. \A n \in 1..count : n - 1 \in 0..count  BY <1>1
<1>9. \A n \in 1..count : f[n] = Reserve(f[n - 1], rows, n)  BY <1>5, <1>7, <1>8
<1>10. \A n \in 0..count : n = 0 \/ n \in 1..count  BY <1>1
<1>11. f = Loop(f)
  <2>1. \A n \in 0..count : f[n] = IF n = 0 THEN none ELSE Reserve(f[n - 1], rows, n)
    BY <1>7, <1>9, <1>10
  <2> HIDE DEF none
  <2> QED  BY <1>7, <2>1
<1>12. G = Loop(G)
  <2>1. G = CHOOSE s : s = Loop(s)  BY DEF Reserved
  <2> HIDE DEF Loop, G
  <2> QED  BY <1>11, <2>1
<1> HIDE DEF G
<1>13. /\ DOMAIN G = 0..count /\ G[0] = none
       /\ \A n \in 1..count : G[n] = Reserve(G[n - 1], rows, n)
  <2> DEFINE Turn(n) == IF n = 0 THEN none ELSE Reserve(G[n - 1], rows, n)
  <2>1. G = [n \in 0..count |-> Turn(n)]  BY <1>12
  <2>2. 0 \in 0..count /\ \A n \in 1..count : n \in 0..count /\ n # 0  BY <1>1
  <2>3. Turn(0) = none /\ \A n \in 1..count : Turn(n) = Reserve(G[n - 1], rows, n)  BY <2>2
  <2> HIDE DEF Turn
  <2> QED  BY <2>1, <2>2, <2>3
<1> HIDE DEF none
<1> DEFINE P == {n \in 0..count : G[n] \in SUBSET (1..Len(rows))}
<1>14. 0 \in P
  <2>1. 0 \in 0..count  BY <1>1
  <2>2. G[0] \in SUBSET (1..Len(rows))  BY <1>2, <1>13
  <2> QED  BY <2>1, <2>2
<1>15. \A n \in 1..count : n - 1 \in P => n \in P  BY <1>1, <1>3, <1>13
<1>16. \A n \in 0..count : n \in P
  <2>1. P \in SUBSET (0..count)  OBVIOUS
  <2> HIDE DEF P, count
  <2> QED  BY <1>1, <1>14, <1>15, <2>1, Along
<1>17. G \in [0..count -> SUBSET (1..Len(rows))]
  <2>1. \A n \in 0..count : G[n] \in SUBSET (1..Len(rows))  BY <1>16
  <2>2. G = [n \in 0..count |-> G[n]]  BY <1>12
  <2> QED  BY <2>1, <2>2
<1> QED  BY <1>13, <1>17 DEF G, none

\* What the second round comes to.
LEMMA FilledIs ==
    ASSUME NEW rows, Len(rows) \in Nat
    PROVE  /\ Filled(rows) \in [0..Len(rows) -> SUBSET (1..Len(rows))]
           /\ Filled(rows)[0] = Reserved(rows)[Len(rows)]
           /\ \A n \in 1..Len(rows) : Filled(rows)[n] = Fill(Filled(rows)[n - 1], rows, n)
<1> DEFINE count == Len(rows)
           none == Reserved(rows)[Len(rows)]
           G == Filled(rows)
           step == [n \in 1..count |-> [was \in SUBSET (1..Len(rows)) |-> Fill(was, rows, n)]]
<1>1. count \in Nat  OBVIOUS
<1>2. none \in SUBSET (1..Len(rows))  BY ReservedIs
<1>3. \A n \in 1..count : \A was \in SUBSET (1..Len(rows)) : Fill(was, rows, n) \in SUBSET (1..Len(rows))
  BY <1>1 DEF Fill
<1>4. step \in [1..count -> [SUBSET (1..Len(rows)) -> SUBSET (1..Len(rows))]]  BY <1>3
<1>5. \A n \in 1..count : \A was \in SUBSET (1..Len(rows)) : step[n][was] = Fill(was, rows, n)
  OBVIOUS
<1> HIDE DEF step
<1>6. PICK f : Runs(f, count, SUBSET (1..Len(rows)), none, step)  BY <1>1, <1>2, <1>4, Recursion
<1>7. /\ f \in [0..count -> SUBSET (1..Len(rows))] /\ f[0] = none
      /\ \A n \in 1..count : f[n] = step[n][f[n - 1]]
  BY <1>6 DEF Runs
<1> DEFINE Loop(s) == [n \in 0..count |-> IF n = 0 THEN none ELSE Fill(s[n - 1], rows, n)]
<1>8. \A n \in 1..count : n - 1 \in 0..count  BY <1>1
<1>9. \A n \in 1..count : f[n] = Fill(f[n - 1], rows, n)  BY <1>5, <1>7, <1>8
<1>10. \A n \in 0..count : n = 0 \/ n \in 1..count  BY <1>1
<1>11. f = Loop(f)
  <2>1. \A n \in 0..count : f[n] = IF n = 0 THEN none ELSE Fill(f[n - 1], rows, n)
    BY <1>7, <1>9, <1>10
  <2> HIDE DEF none
  <2> QED  BY <1>7, <2>1
<1>12. G = Loop(G)
  <2>1. G = CHOOSE s : s = Loop(s)  BY DEF Filled
  <2> HIDE DEF Loop, G
  <2> QED  BY <1>11, <2>1
<1> HIDE DEF G
<1>13. /\ DOMAIN G = 0..count /\ G[0] = none
       /\ \A n \in 1..count : G[n] = Fill(G[n - 1], rows, n)
  <2> DEFINE Turn(n) == IF n = 0 THEN none ELSE Fill(G[n - 1], rows, n)
  <2>1. G = [n \in 0..count |-> Turn(n)]  BY <1>12
  <2>2. 0 \in 0..count /\ \A n \in 1..count : n \in 0..count /\ n # 0  BY <1>1
  <2>3. Turn(0) = none /\ \A n \in 1..count : Turn(n) = Fill(G[n - 1], rows, n)  BY <2>2
  <2> HIDE DEF Turn
  <2> QED  BY <2>1, <2>2, <2>3
<1> HIDE DEF none
<1> DEFINE P == {n \in 0..count : G[n] \in SUBSET (1..Len(rows))}
<1>14. 0 \in P
  <2>1. 0 \in 0..count  BY <1>1
  <2>2. G[0] \in SUBSET (1..Len(rows))  BY <1>2, <1>13
  <2> QED  BY <2>1, <2>2
<1>15. \A n \in 1..count : n - 1 \in P => n \in P  BY <1>1, <1>3, <1>13
<1>16. \A n \in 0..count : n \in P
  <2>1. P \in SUBSET (0..count)  OBVIOUS
  <2> HIDE DEF P, count
  <2> QED  BY <1>1, <1>14, <1>15, <2>1, Along
<1>17. G \in [0..count -> SUBSET (1..Len(rows))]
  <2>1. \A n \in 0..count : G[n] \in SUBSET (1..Len(rows))  BY <1>16
  <2>2. G = [n \in 0..count |-> G[n]]  BY <1>12
  <2> QED  BY <2>1, <2>2
<1> QED  BY <1>13, <1>17 DEF G, none

\* Newest first: the same rows, each once, by their times.
InNewestOrder(rows, n, order) ==
    /\ order \in [1..n -> 1..n]
    /\ \A k, l \in 1..n : k < l <=> Ahead(rows, order[k], order[l])
    /\ \A i \in 1..n : \E k \in 1..n : order[k] = i
    /\ NewestFirst(rows) = [k \in 1..n |-> rows[order[k]]]

\* The sort by times is such an order: equal times stay in place.
LEMMA InNewestOrderOf ==
    ASSUME NEW rows \in Seq(AnyRows)
    PROVE  \E order : InNewestOrder(rows, Len(rows), order)
<1> DEFINE n == Len(rows)
           below == [i \in 1..n |-> {j \in 1..n : Ahead(rows, j, i)}]
           order == AtRank(Ranks(1..n, below))
<1>1. n \in Nat /\ DOMAIN rows = 1..n /\ \A i \in 1..n : rows[i] \in AnyRows  BY DEF n
<1>2. \A i \in 1..n : rows[i].time \in Nat  BY <1>1 DEF AnyRows
<1> HIDE DEF n
<1>3. OneOrder(1..n, below)
  <2>1. below \in [1..n -> SUBSET (1..n)]  OBVIOUS
  <2>2. \A i, j \in 1..n : j \in below[i] <=> Ahead(rows, j, i)  OBVIOUS
  <2> HIDE DEF below
  <2>3. \A i \in 1..n : ~Ahead(rows, i, i)  BY <1>2 DEF Ahead
  <2>4. \A i, j \in 1..n : i = j \/ Ahead(rows, i, j) \/ Ahead(rows, j, i)  BY <1>2 DEF Ahead
  <2>5. ASSUME NEW i \in 1..n, NEW j \in 1..n, NEW k \in 1..n, Ahead(rows, i, j), Ahead(rows, j, k)
        PROVE  Ahead(rows, i, k)
    BY <1>2, <2>5 DEF Ahead
  <2> QED  BY <2>1, <2>2, <2>3, <2>4, <2>5 DEF OneOrder
<1>4. AllInOrder(1..n, below) /\ Cardinality(1..n) = n
  <2>1. IsFiniteSet(1..n) /\ Cardinality(1..n) = n  BY <1>1, FS_Interval
  <2> HIDE DEF below
  <2> QED  BY <1>3, <2>1, AtRankOrders
<1>5. /\ order \in [1..n -> 1..n]
      /\ \A k, l \in 1..n : k < l <=> order[k] \in below[order[l]]
      /\ \A i \in 1..n : Ranks(1..n, below)[i] \in 1..n /\ order[Ranks(1..n, below)[i]] = i
  <2> HIDE DEF below
  <2> QED  BY <1>4 DEF AllInOrder
<1>6. NewestFirst(rows) = [k \in 1..n |-> rows[order[k]]]
  <2>1. Ranks(1..n, below) = [i \in 1..n |-> Cardinality({j \in 1..n : Ahead(rows, j, i)}) + 1]
    BY DEF Ranks
  <2> QED  BY <1>1, <2>1 DEF NewestFirst
<1>7. \A i, j \in 1..n : i \in below[j] <=> Ahead(rows, i, j)  OBVIOUS
<1> HIDE DEF below
<1>8. \A k \in 1..n : order[k] \in 1..n  BY <1>5
<1> HIDE DEF order
<1>9. \A k, l \in 1..n : k < l <=> Ahead(rows, order[k], order[l])  BY <1>5, <1>7, <1>8
<1>10. \A i \in 1..n : \E k \in 1..n : order[k] = i  BY <1>5
<1>11. InNewestOrder(rows, n, order)  BY <1>5, <1>6, <1>9, <1>10 DEF InNewestOrder
<1> QED  BY <1>11 DEF n

\* So the sorted rows are the same rows, none after an older one.
LEMMA NewestFirstIs ==
    ASSUME NEW rows \in Seq(AnyRows)
    PROVE  /\ NewestFirst(rows) \in Seq(AnyRows) /\ Len(NewestFirst(rows)) = Len(rows)
           /\ \A i \in 1..Len(rows) : \E k \in 1..Len(rows) : NewestFirst(rows)[k] = rows[i]
           /\ \A k, l \in 1..Len(rows) : k <= l => NewestFirst(rows)[k].time >= NewestFirst(rows)[l].time
<1> DEFINE n == Len(rows)
           new == NewestFirst(rows)
<1>1. n \in Nat /\ \A i \in 1..n : rows[i] \in AnyRows  OBVIOUS
<1>2. \A i \in 1..n : rows[i].time \in Nat  BY <1>1 DEF AnyRows
<1>3. PICK order : InNewestOrder(rows, n, order)  BY InNewestOrderOf
<1> HIDE DEF n, new
<1>4. /\ order \in [1..n -> 1..n]
      /\ \A k, l \in 1..n : k < l <=> Ahead(rows, order[k], order[l])
      /\ \A i \in 1..n : \E k \in 1..n : order[k] = i
      /\ new = [k \in 1..n |-> rows[order[k]]]
  BY <1>3 DEF InNewestOrder, new
<1>5. \A k \in 1..n : order[k] \in 1..n /\ new[k] = rows[order[k]]  BY <1>4
<1>6. new \in [1..n -> AnyRows]  BY <1>1, <1>4
<1>7. new \in Seq(AnyRows)  BY <1>1, <1>6, SeqDef
<1>8. Len(new) = n  BY <1>1, <1>4, <1>7
<1>9. \A i \in 1..n : \E k \in 1..n : new[k] = rows[i]  BY <1>4, <1>5
<1>10. ASSUME NEW k \in 1..n, NEW l \in 1..n, k <= l PROVE new[k].time >= new[l].time
  <2>1. CASE k = l
    <3>1. rows[order[k]].time \in Nat  BY <1>2, <1>5
    <3> QED  BY <1>5, <2>1, <3>1
  <2>2. CASE k < l
    <3>1. Ahead(rows, order[k], order[l])  BY <1>4, <2>2
    <3>2. rows[order[k]].time \in Nat /\ rows[order[l]].time \in Nat  BY <1>2, <1>5
    <3>3. rows[order[k]].time >= rows[order[l]].time  BY <3>1, <3>2 DEF Ahead
    <3> QED  BY <1>5, <3>3
  <2> QED  BY <1>1, <1>10, <2>1, <2>2
<1> QED  BY <1>7, <1>8, <1>9, <1>10 DEF n, new

OfSource(rows, S, channel) == {j \in S : rows[j].channel = channel}
Alike(rows, i, j) == rows[i].channel = rows[j].channel /\ Type(rows[i]) = Type(rows[j])

\* No source has more than its quota.
Within(rows, S) == \A channel : Cardinality(OfSource(rows, S, channel)) <= MaxPerSource

\* The first of every type, or a full source.
FirstOfType(rows, S, i) ==
    \/ \E j \in S : j <= i /\ Alike(rows, j, i)
    \/ Cardinality(OfSource(rows, S, rows[i].channel)) >= MaxPerSource

ReservedSoFar(rows, m, S) ==
    /\ S \in SUBSET (1..m)
    /\ Within(rows, S)
    /\ \A i, j \in S : Alike(rows, i, j) => i = j
    /\ \A i \in 1..m : FirstOfType(rows, S, i)

\* Fewer rows have no more of a source, and all of them if as many.
LEMMA OfSourceIs ==
    ASSUME NEW n \in Nat, NEW S \in SUBSET (1..n), NEW rows, NEW channel
    PROVE  /\ IsFiniteSet(OfSource(rows, S, channel)) /\ Cardinality(OfSource(rows, S, channel)) \in Nat
           /\ \A T \in SUBSET S : Cardinality(OfSource(rows, T, channel)) <= Cardinality(OfSource(rows, S, channel))
           /\ \A T \in SUBSET S : Cardinality(OfSource(rows, T, channel)) = Cardinality(OfSource(rows, S, channel))
                                  => OfSource(rows, T, channel) = OfSource(rows, S, channel)
<1>1. IsFiniteSet(1..n)  BY FS_Interval
<1>2. \A T \in SUBSET S : OfSource(rows, T, channel) \subseteq OfSource(rows, S, channel)  BY DEF OfSource
<1>3. OfSource(rows, S, channel) \subseteq 1..n  BY DEF OfSource
<1>4. IsFiniteSet(OfSource(rows, S, channel))  BY <1>1, <1>3, FS_Subset
<1> QED  BY <1>2, <1>4, FS_Subset, FS_CardinalityType

\* A source that has room may have one more.
LEMMA OneMore ==
    ASSUME NEW n \in Nat, NEW S \in SUBSET (1..n), NEW rows, NEW i \in 1..n, i \notin S,
           Within(rows, S), Fits(S, rows, i), MaxPerSource \in Nat
    PROVE  Within(rows, S \cup {i})
<1> SUFFICES ASSUME NEW channel
             PROVE  Cardinality(OfSource(rows, S \cup {i}, channel)) <= MaxPerSource
  BY DEF Within
<1> DEFINE old == OfSource(rows, S, channel)
<1>1. Cardinality(old) <= MaxPerSource /\ IsFiniteSet(old) /\ Cardinality(old) \in Nat
  BY OfSourceIs DEF Within
<1>2. CASE rows[i].channel = channel
  <2>1. Cardinality(old) < MaxPerSource  BY <1>2 DEF Fits, OfSource
  <2>2. OfSource(rows, S \cup {i}, channel) = old \cup {i}  BY <1>2 DEF OfSource
  <2>3. i \notin old  BY DEF OfSource
  <2> HIDE DEF old
  <2>4. Cardinality(old \cup {i}) = Cardinality(old) + 1  BY <1>1, <2>3, FS_AddElement
  <2> QED  BY <1>1, <2>1, <2>2, <2>4
<1>3. CASE rows[i].channel # channel
  <2>1. OfSource(rows, S \cup {i}, channel) = old  BY <1>3 DEF OfSource
  <2> QED  BY <1>1, <2>1
<1> QED  BY <1>2, <1>3

\* The first round, one more row: the newest of its type has a slot or there is none left.
LEMMA ReserveStep ==
    ASSUME NEW m \in Nat \ {0}, NEW rows, NEW S, ReservedSoFar(rows, m - 1, S), MaxPerSource \in Nat
    PROVE  ReservedSoFar(rows, m, Reserve(S, rows, m))
<1>1. /\ S \in SUBSET (1..(m - 1)) /\ Within(rows, S)
      /\ \A i, j \in S : Alike(rows, i, j) => i = j
      /\ \A i \in 1..(m - 1) : FirstOfType(rows, S, i)
  BY DEF ReservedSoFar
<1>2. /\ m \in 1..m /\ m \in Nat /\ S \in SUBSET (1..m) /\ m \notin S
      /\ \A i \in 1..m : i = m \/ i \in 1..(m - 1)
      /\ \A i \in S : i <= m
  BY <1>1
<1> DEFINE known == \E j \in S : Alike(rows, j, m)
<1>3. Reserve(S, rows, m) = IF Fits(S, rows, m) /\ ~known THEN S \cup {m} ELSE S
  BY DEF Reserve, Alike
<1>4. CASE Fits(S, rows, m) /\ ~known
  <2> DEFINE T == S \cup {m}
  <2>1. Reserve(S, rows, m) = T  BY <1>3, <1>4
  <2>2. Within(rows, T)  BY <1>1, <1>2, <1>4, OneMore
  <2>3. ASSUME NEW i \in T, NEW j \in T, Alike(rows, i, j) PROVE i = j
    <3>1. CASE i \in S /\ j \in S  BY <1>1, <2>3, <3>1
    <3>2. CASE i = m /\ j = m  BY <3>2
    <3>3. CASE i = m /\ j \in S
      <4>1. Alike(rows, j, m)  BY <2>3, <3>3 DEF Alike
      <4> QED  BY <1>4, <3>3, <4>1
    <3>4. CASE j = m /\ i \in S  BY <1>4, <2>3, <3>4
    <3> QED  BY <3>1, <3>2, <3>3, <3>4
  <2>4. ASSUME NEW i \in 1..m PROVE FirstOfType(rows, T, i)
    <3>1. CASE i = m
      <4>1. m <= m /\ Alike(rows, m, m)  BY <1>2 DEF Alike
      <4> QED  BY <3>1, <4>1 DEF FirstOfType
    <3>2. CASE \E j \in S : j <= i /\ Alike(rows, j, i)  BY <3>2 DEF FirstOfType
    <3>3. CASE i # m /\ Cardinality(OfSource(rows, S, rows[i].channel)) >= MaxPerSource
      <4> DEFINE c == rows[i].channel
                 x == Cardinality(OfSource(rows, S, c))
                 y == Cardinality(OfSource(rows, T, c))
      <4>1. T \in SUBSET (1..m) /\ S \in SUBSET T  BY <1>2
      <4>2. x <= y /\ y \in Nat /\ x \in Nat
        <5> HIDE DEF c, T
        <5> QED  BY <1>2, <4>1, OfSourceIs
      <4>3. x >= MaxPerSource  BY <3>3
      <4> HIDE DEF x, y
      <4>4. y >= MaxPerSource  BY <4>2, <4>3
      <4> QED  BY <4>4 DEF FirstOfType, y
    <3>4. i # m => FirstOfType(rows, S, i)  BY <1>1, <1>2
    <3> QED  BY <3>1, <3>2, <3>3, <3>4 DEF FirstOfType
  <2>5. T \in SUBSET (1..m)  BY <1>2
  <2>6. ReservedSoFar(rows, m, T)
    <3> HIDE DEF T
    <3> QED  BY <2>2, <2>3, <2>4, <2>5 DEF ReservedSoFar
  <2> QED  BY <2>1, <2>6
<1>5. CASE ~(Fits(S, rows, m) /\ ~known)
  <2>1. Reserve(S, rows, m) = S  BY <1>3, <1>5
  <2>2. FirstOfType(rows, S, m)
    <3>1. CASE known  BY <1>2, <3>1 DEF FirstOfType
    <3>2. CASE ~Fits(S, rows, m)
      <4>1. ~(Cardinality(OfSource(rows, S, rows[m].channel)) < MaxPerSource)
        BY <3>2 DEF Fits, OfSource
      <4>2. Cardinality(OfSource(rows, S, rows[m].channel)) \in Nat  BY <1>2, OfSourceIs
      <4>3. Cardinality(OfSource(rows, S, rows[m].channel)) >= MaxPerSource  BY <4>1, <4>2
      <4> QED  BY <4>3 DEF FirstOfType
    <3> QED  BY <1>5, <3>1, <3>2
  <2>3. \A i \in 1..m : FirstOfType(rows, S, i)  BY <1>1, <1>2, <2>2
  <2>4. ReservedSoFar(rows, m, S)  BY <1>1, <1>2, <2>3 DEF ReservedSoFar
  <2> QED  BY <2>1, <2>4
<1> QED  BY <1>4, <1>5

\* The second round takes nothing away and exceeds no quota.
LEMMA FillStep ==
    ASSUME NEW n \in Nat, NEW S \in SUBSET (1..n), NEW rows, NEW i \in 1..n,
           Within(rows, S), MaxPerSource \in Nat
    PROVE  S \subseteq Fill(S, rows, i) /\ Within(rows, Fill(S, rows, i))
<1>1. CASE i \notin S /\ Fits(S, rows, i)
  <2>1. Fill(S, rows, i) = S \cup {i}  BY <1>1 DEF Fill
  <2> QED  BY <1>1, <2>1, OneMore
<1>2. CASE ~(i \notin S /\ Fits(S, rows, i))
  <2>1. Fill(S, rows, i) = S  BY <1>2 DEF Fill
  <2> QED  BY <2>1
<1> QED  BY <1>1, <1>2

\* What the two rounds choose, of any rows.
LEMMA ChosenAre ==
    ASSUME NEW rows, NEW n \in Nat, Len(rows) = n
    PROVE  /\ ReservedSoFar(rows, n, Reserved(rows)[n])
           /\ Reserved(rows)[n] \subseteq Filled(rows)[n]
           /\ Filled(rows)[n] \in SUBSET (1..n)
           /\ Within(rows, Filled(rows)[n])
<1> DEFINE R == Reserved(rows)
           F == Filled(rows)
           P == {m \in 0..n : ReservedSoFar(rows, m, R[m])}
           Q == {m \in 0..n : R[n] \subseteq F[m] /\ Within(rows, F[m])}
<1>0. MaxPerSource \in Nat  BY ConsolidationAssumption
<1>1. R[0] = {} /\ \A m \in 1..n : R[m] = Reserve(R[m - 1], rows, m)  BY ReservedIs
<1>2. F[0] = R[n] /\ \A m \in 1..n : F[m] = Fill(F[m - 1], rows, m)  BY FilledIs
<1>3. \A m \in 0..n : F[m] \in SUBSET (1..n)
  <2>1. F \in [0..n -> SUBSET (1..n)]  BY FilledIs
  <2> QED  BY <2>1
<1> HIDE DEF R, F
<1>4. 0 \in P
  <2>1. \A channel : Cardinality(OfSource(rows, {}, channel)) <= MaxPerSource
    <3>1. \A channel : OfSource(rows, {}, channel) = {}  BY DEF OfSource
    <3>2. Cardinality({}) = 0  BY FS_EmptySet
    <3> QED  BY <1>0, <3>1, <3>2
  <2>2. Within(rows, {})  BY <2>1 DEF Within
  <2>3. 1..0 = {}  OBVIOUS
  <2>4. ReservedSoFar(rows, 0, {})  BY <2>2, <2>3 DEF ReservedSoFar
  <2>5. R[0] = {}  BY <1>1
  <2>6. ReservedSoFar(rows, 0, R[0])  BY <2>4, <2>5, Zenon
  <2> QED  BY <2>6
<1>5. ASSUME NEW m \in 1..n, m - 1 \in P PROVE m \in P
  <2>1. ReservedSoFar(rows, m - 1, R[m - 1])  BY <1>5
  <2>2. m \in Nat \ {0} /\ m \in 0..n  OBVIOUS
  <2>3. ReservedSoFar(rows, m, Reserve(R[m - 1], rows, m))  BY <1>0, <2>1, <2>2, ReserveStep
  <2> QED  BY <1>1, <2>2, <2>3
<1>6. ReservedSoFar(rows, n, R[n])
  <2>1. P \in SUBSET (0..n)  OBVIOUS
  <2> HIDE DEF P
  <2>2. \A m \in 0..n : m \in P  BY <1>4, <1>5, <2>1, Along
  <2>3. n \in P  BY <2>2
  <2> QED  BY <2>3 DEF P
<1>7. 0 \in Q
  <2>1. Within(rows, R[n])  BY <1>6 DEF ReservedSoFar
  <2>2. 0 \in 0..n /\ R[n] \subseteq F[0] /\ Within(rows, F[0])  BY <1>2, <2>1
  <2> QED  BY <2>2
<1>8. ASSUME NEW m \in 1..n, m - 1 \in Q PROVE m \in Q
  <2>1. R[n] \subseteq F[m - 1] /\ Within(rows, F[m - 1])  BY <1>8
  <2>2. m \in 0..n /\ m - 1 \in 0..n /\ F[m - 1] \in SUBSET (1..n)  BY <1>3
  <2> DEFINE S == F[m - 1]
  <2>3. S \subseteq Fill(S, rows, m) /\ Within(rows, Fill(S, rows, m))
    <3>1. S \in SUBSET (1..n) /\ Within(rows, S)  BY <2>1, <2>2
    <3> HIDE DEF S
    <3> QED  BY <1>0, <3>1, FillStep
  <2>4. F[m] = Fill(S, rows, m)  BY <1>2
  <2>5. R[n] \subseteq F[m] /\ Within(rows, F[m])  BY <2>1, <2>3, <2>4
  <2> QED  BY <2>2, <2>5
<1>9. R[n] \subseteq F[n] /\ Within(rows, F[n])
  <2>1. Q \in SUBSET (0..n)  OBVIOUS
  <2> HIDE DEF Q
  <2>2. \A m \in 0..n : m \in Q  BY <1>7, <1>8, <2>1, Along
  <2>3. n \in Q  BY <2>2
  <2> QED  BY <2>3 DEF Q
<1> QED  BY <1>3, <1>6, <1>9 DEF R, F

\* What is shown are these, in the order they have.
Picks(sorted, S, order, count, list) ==
    /\ count \in Nat /\ list \in Seq(AnyRows) /\ Len(list) = count /\ DOMAIN list = 1..count
    /\ \A k \in 1..count : order[k] \in S /\ list[k] = sorted[order[k]]
    /\ \A i \in S : \E k \in 1..count : order[k] = i

\* The rows shown are the rows chosen, from the newest.
LEMMA CapLatestIs ==
    ASSUME NEW rows \in Seq(AnyRows)
    PROVE  \E order : Picks(NewestFirst(rows), Filled(NewestFirst(rows))[Len(rows)], order,
                            Cardinality(Filled(NewestFirst(rows))[Len(rows)]), CapLatest(rows))
<1> DEFINE sorted == NewestFirst(rows)
           n == Len(rows)
           S == Filled(sorted)[n]
           order == Ascending(S)
           count == Cardinality(S)
           list == CapLatest(rows)
<1>1. n \in Nat  OBVIOUS
<1>2. sorted \in Seq(AnyRows) /\ Len(sorted) = n  BY NewestFirstIs
<1>3. list = [k \in DOMAIN order |-> sorted[order[k]]]  BY DEF CapLatest
<1> HIDE DEF sorted, n, list
<1>4. S \in SUBSET (1..n)  BY <1>1, <1>2, ChosenAre
<1> HIDE DEF S
<1>5. Rising(S, order, count)  BY <1>1, <1>4, AscendingIs
<1> HIDE DEF order, count
<1>6. /\ count \in Nat /\ order \in [1..count -> S]
      /\ \A i \in S : \E k \in 1..count : order[k] = i
  BY <1>5 DEF Rising
<1>7. \A i \in 1..n : sorted[i] \in AnyRows  BY <1>2
<1>8. \A k \in 1..count : order[k] \in S /\ sorted[order[k]] \in AnyRows  BY <1>4, <1>6, <1>7
<1>9. list = [k \in 1..count |-> sorted[order[k]]]  BY <1>3, <1>6
<1>10. list \in [1..count -> AnyRows]  BY <1>8, <1>9
<1>11. list \in Seq(AnyRows)  BY <1>6, <1>10, SeqDef
<1>12. DOMAIN list = 1..count  BY <1>9
<1>13. Len(list) = count  BY <1>6, <1>11, <1>12
<1>14. \A k \in 1..count : list[k] = sorted[order[k]]  BY <1>9
<1>15. Picks(sorted, S, order, count, list)  BY <1>6, <1>8, <1>11, <1>12, <1>13, <1>14 DEF Picks
<1>16. \E o : Picks(sorted, S, o, count, list)  BY <1>15
<1> QED  BY <1>16 DEF sorted, S, n, count, list

\* And they are rows.
LEMMA CapLatestTyped ==
    ASSUME NEW rows \in Seq(AnyRows)
    PROVE  CapLatest(rows) \in Seq(AnyRows)
BY CapLatestIs DEF Picks

\* So many types as rows, where no two rows have the same.
LEMMA TypesOf ==
    ASSUME NEW n \in Nat, NEW S \in SUBSET (1..n), NEW rows,
           \A i, j \in S : Alike(rows, i, j) => i = j, NEW channel
    PROVE  Cardinality(ValuesOn([i \in 1..n |-> Type(rows[i])], OfSource(rows, S, channel)))
              = Cardinality(OfSource(rows, S, channel))
<1> DEFINE T == OfSource(rows, S, channel)
           f == [i \in 1..n |-> Type(rows[i])]
<1>1. T \in SUBSET (1..n) /\ T \subseteq S  BY DEF OfSource
<1>2. \A i \in 1..n : f[i] = Type(rows[i])  OBVIOUS
<1>3. ASSUME NEW i \in T, NEW j \in T, f[i] = f[j] PROVE i = j
  <2>1. rows[i].channel = rows[j].channel  BY DEF OfSource
  <2>2. Type(rows[i]) = Type(rows[j])
    <3> HIDE DEF f, T
    <3> QED  BY <1>1, <1>2, <1>3
  <2>3. Alike(rows, i, j)  BY <2>1, <2>2 DEF Alike
  <2> QED  BY <1>1, <2>3
<1> HIDE DEF f, T
<1>4. Cardinality(ValuesOn(f, T)) = Cardinality(T)  BY <1>1, <1>3, ImageOf
<1> QED  BY <1>4 DEF f, T

\* For any rows: no type is hidden but by a quota full of others.
LEMMA NoTypeHidden ==
    ASSUME NEW rows \in Seq(AnyRows)
    PROVE  BurstHidesNoType(rows)
<1> DEFINE n == Len(rows)
           sorted == NewestFirst(rows)
           R == Reserved(sorted)[n]
           S == Filled(sorted)[n]
           count == Cardinality(S)
           list == CapLatest(rows)
           Of(c) == {j \in DOMAIN list : list[j].channel = c}
           Types(c) == {Type(list[j]) : j \in Of(c)}
<1>1. n \in Nat /\ DOMAIN rows = 1..n  OBVIOUS
<1>2. /\ Len(sorted) = n
      /\ \A i \in 1..n : \E k \in 1..n : sorted[k] = rows[i]
      /\ \A k, l \in 1..n : k <= l => sorted[k].time >= sorted[l].time
  BY NewestFirstIs
<1>3. PICK order : Picks(sorted, S, order, count, list)  BY CapLatestIs
<1> HIDE DEF n, sorted
<1>4. ReservedSoFar(sorted, n, R) /\ R \subseteq S /\ S \in SUBSET (1..n) /\ Within(sorted, S)
  BY <1>1, <1>2, ChosenAre
<1> HIDE DEF R, S, count, list
<1>5. /\ DOMAIN list = 1..count
      /\ \A k \in 1..count : order[k] \in S /\ list[k] = sorted[order[k]]
      /\ \A i \in S : \E k \in 1..count : order[k] = i
  BY <1>3 DEF Picks
<1>6. /\ R \in SUBSET (1..n)
      /\ \A i, j \in R : Alike(sorted, i, j) => i = j
      /\ \A i \in 1..n : FirstOfType(sorted, R, i)
  BY <1>4 DEF ReservedSoFar
<1>7. MaxPerSource \in Nat  BY ConsolidationAssumption
<1>8. ASSUME NEW i \in 1..n
      PROVE  \/ \E j \in Of(rows[i].channel) : Type(list[j]) = Type(rows[i]) /\ list[j].time >= rows[i].time
             \/ Cardinality(Types(rows[i].channel)) = MaxPerSource
  <2>1. PICK p \in 1..n : sorted[p] = rows[i]  BY <1>2
  <2>2. CASE \E k \in R : k <= p /\ Alike(sorted, k, p)
    <3>1. PICK k \in R : k <= p /\ Alike(sorted, k, p)  BY <2>2
    <3>2. k \in S /\ k \in 1..n  BY <1>4, <1>6
    <3>3. PICK x \in 1..count : order[x] = k  BY <1>5, <3>2
    <3>4. list[x] = sorted[k]  BY <1>5, <3>3
    <3>5. sorted[k].time >= sorted[p].time  BY <1>2, <3>1, <3>2
    <3>6. sorted[k].channel = rows[i].channel /\ Type(sorted[k]) = Type(rows[i])
      BY <2>1, <3>1 DEF Alike
    <3>7. x \in Of(rows[i].channel)  BY <1>5, <3>4, <3>6
    <3>8. Type(list[x]) = Type(rows[i]) /\ list[x].time >= rows[i].time  BY <2>1, <3>4, <3>5, <3>6
    <3> QED  BY <3>7, <3>8
  <2>3. CASE Cardinality(OfSource(sorted, R, sorted[p].channel)) >= MaxPerSource
    <3> DEFINE c == rows[i].channel
               few == OfSource(sorted, R, c)
               all == OfSource(sorted, S, c)
               x == Cardinality(few)
               y == Cardinality(all)
    <3>1. x >= MaxPerSource  BY <2>1, <2>3
    <3>2. y <= MaxPerSource  BY <1>4 DEF Within
    <3>3. y \in Nat /\ x <= y /\ (x = y => few = all) /\ x \in Nat
      <4> HIDE DEF c
      <4>1. R \in SUBSET S  BY <1>4
      <4>2. y \in Nat /\ x <= y /\ (x = y => few = all)  BY <1>1, <1>4, <4>1, OfSourceIs
      <4>3. x \in Nat  BY <1>1, <1>6, OfSourceIs
      <4> QED  BY <4>2, <4>3
    <3>4. x = MaxPerSource /\ x = y
      <4> HIDE DEF x, y
      <4> QED  BY <1>7, <3>1, <3>2, <3>3
    <3>5. few = all  BY <3>3, <3>4
    <3> DEFINE f == [k \in 1..n |-> Type(sorted[k])]
    <3>6. Cardinality(ValuesOn(f, few)) = MaxPerSource
      <4> HIDE DEF c
      <4>1. Cardinality(ValuesOn(f, few)) = x  BY <1>1, <1>6, TypesOf
      <4> QED  BY <3>4, <4>1
    <3>7. \A k \in 1..n : f[k] = Type(sorted[k])  OBVIOUS
    <3> HIDE DEF f
    <3>8. \A j \in Of(c) : order[j] \in all /\ Type(list[j]) = f[order[j]]
      <4> HIDE DEF c
      <4>1. ASSUME NEW j \in Of(c) PROVE order[j] \in all /\ Type(list[j]) = f[order[j]]
        <5>1. j \in 1..count /\ list[j].channel = c  BY <1>5
        <5>2. order[j] \in S /\ list[j] = sorted[order[j]]  BY <1>5, <5>1
        <5>3. order[j] \in all  BY <5>1, <5>2 DEF OfSource
        <5>4. order[j] \in 1..n  BY <1>4, <5>2
        <5>5. f[order[j]] = Type(sorted[order[j]])  BY <3>7, <5>4
        <5> QED  BY <5>2, <5>3, <5>5
      <4> QED  BY <4>1
    <3>9. \A k \in all : \E j \in Of(c) : Type(list[j]) = f[k]
      <4> HIDE DEF c
      <4>1. ASSUME NEW k \in all PROVE \E j \in Of(c) : Type(list[j]) = f[k]
        <5>1. k \in S /\ sorted[k].channel = c  BY DEF OfSource
        <5>2. PICK j \in 1..count : order[j] = k  BY <1>5, <5>1
        <5>3. list[j] = sorted[k]  BY <1>5, <5>2
        <5>4. j \in Of(c)  BY <1>5, <5>1, <5>3
        <5>5. f[k] = Type(sorted[k])  BY <1>4, <3>7, <5>1
        <5> QED  BY <5>3, <5>4, <5>5
      <4> QED  BY <4>1
    <3>10. Types(c) = ValuesOn(f, few)
      <4> HIDE DEF few, all, c
      <4>1. Types(c) \subseteq ValuesOn(f, all)  BY <3>8 DEF ValuesOn
      <4>2. ValuesOn(f, all) \subseteq Types(c)  BY <3>9 DEF ValuesOn
      <4> QED  BY <3>5, <4>1, <4>2
    <3> QED  BY <3>6, <3>10
  <2>4. FirstOfType(sorted, R, p)  BY <1>6
  <2> QED  BY <2>2, <2>3, <2>4 DEF FirstOfType
<1> QED  BY <1>1, <1>8 DEF BurstHidesNoType, list

(***************************************************************************)
(* The lists on the screen                                                 *)
(***************************************************************************)

\* What the loop that restores rows comes to.
LEMMA RestoredIs ==
    ASSUME NEW rows \in Seq(AnyRows), NEW newest \in Seq(AnyRows)
    PROVE  /\ Restored(rows, newest) \in [0..Len(newest) -> Seq(AnyRows)]
           /\ Restored(rows, newest)[0] = rows
           /\ \A n \in 1..Len(newest) : Restored(rows, newest)[n] = Restore(Restored(rows, newest)[n - 1], newest[n])
<1> DEFINE count == Len(newest)
           none == rows
           G == Restored(rows, newest)
           step == [n \in 1..count |-> [was \in Seq(AnyRows) |-> Restore(was, newest[n])]]
<1>1. count \in Nat  OBVIOUS
<1>2. none \in Seq(AnyRows)  OBVIOUS
<1>3. \A n \in 1..count : \A was \in Seq(AnyRows) : Restore(was, newest[n]) \in Seq(AnyRows)
  <2>1. \A n \in 1..count : newest[n] \in AnyRows  OBVIOUS
  <2> QED  BY <2>1 DEF Restore
<1>4. step \in [1..count -> [Seq(AnyRows) -> Seq(AnyRows)]]  BY <1>3
<1>5. \A n \in 1..count : \A was \in Seq(AnyRows) : step[n][was] = Restore(was, newest[n])
  OBVIOUS
<1> HIDE DEF step
<1>6. PICK f : Runs(f, count, Seq(AnyRows), none, step)  BY <1>1, <1>2, <1>4, Recursion
<1>7. /\ f \in [0..count -> Seq(AnyRows)] /\ f[0] = none
      /\ \A n \in 1..count : f[n] = step[n][f[n - 1]]
  BY <1>6 DEF Runs
<1> DEFINE Loop(s) == [n \in 0..count |-> IF n = 0 THEN none ELSE Restore(s[n - 1], newest[n])]
<1>8. \A n \in 1..count : n - 1 \in 0..count  BY <1>1
<1>9. \A n \in 1..count : f[n] = Restore(f[n - 1], newest[n])  BY <1>5, <1>7, <1>8
<1>10. \A n \in 0..count : n = 0 \/ n \in 1..count  BY <1>1
<1>11. f = Loop(f)
  <2>1. \A n \in 0..count : f[n] = IF n = 0 THEN none ELSE Restore(f[n - 1], newest[n])
    BY <1>7, <1>9, <1>10
  <2> HIDE DEF none
  <2> QED  BY <1>7, <2>1
<1>12. G = Loop(G)
  <2>1. G = CHOOSE s : s = Loop(s)  BY DEF Restored
  <2> HIDE DEF Loop, G
  <2> QED  BY <1>11, <2>1
<1> HIDE DEF G
<1>13. /\ DOMAIN G = 0..count /\ G[0] = none
       /\ \A n \in 1..count : G[n] = Restore(G[n - 1], newest[n])
  <2> DEFINE Turn(n) == IF n = 0 THEN none ELSE Restore(G[n - 1], newest[n])
  <2>1. G = [n \in 0..count |-> Turn(n)]  BY <1>12
  <2>2. 0 \in 0..count /\ \A n \in 1..count : n \in 0..count /\ n # 0  BY <1>1
  <2>3. Turn(0) = none /\ \A n \in 1..count : Turn(n) = Restore(G[n - 1], newest[n])  BY <2>2
  <2> HIDE DEF Turn
  <2> QED  BY <2>1, <2>2, <2>3
<1> HIDE DEF none
<1> DEFINE P == {n \in 0..count : G[n] \in Seq(AnyRows)}
<1>14. 0 \in P
  <2>1. 0 \in 0..count  BY <1>1
  <2>2. G[0] \in Seq(AnyRows)  BY <1>2, <1>13
  <2> QED  BY <2>1, <2>2
<1>15. \A n \in 1..count : n - 1 \in P => n \in P  BY <1>1, <1>3, <1>13
<1>16. \A n \in 0..count : n \in P
  <2>1. P \in SUBSET (0..count)  OBVIOUS
  <2> HIDE DEF P, count
  <2> QED  BY <1>1, <1>14, <1>15, <2>1, Along
<1>17. G \in [0..count -> Seq(AnyRows)]
  <2>1. \A n \in 0..count : G[n] \in Seq(AnyRows)  BY <1>16
  <2>2. G = [n \in 0..count |-> G[n]]  BY <1>12
  <2> QED  BY <2>1, <2>2
<1> QED  BY <1>13, <1>17 DEF G, none

\* What the loop that leaves out known ids comes to.
LEMMA AddedIs ==
    ASSUME NEW rows \in Seq(AnyRows)
    PROVE  /\ Added(rows) \in [0..Len(rows) -> Seq(AnyRows)]
           /\ Added(rows)[0] = <<>>
           /\ \A n \in 1..Len(rows) : Added(rows)[n] = Add(Added(rows)[n - 1], rows[n])
<1> DEFINE count == Len(rows)
           none == <<>>
           G == Added(rows)
           step == [n \in 1..count |-> [was \in Seq(AnyRows) |-> Add(was, rows[n])]]
<1>1. count \in Nat  OBVIOUS
<1>2. none \in Seq(AnyRows)  OBVIOUS
<1>3. \A n \in 1..count : \A was \in Seq(AnyRows) : Add(was, rows[n]) \in Seq(AnyRows)
  <2>1. \A n \in 1..count : rows[n] \in AnyRows  OBVIOUS
  <2>2. ASSUME NEW was \in Seq(AnyRows), NEW row \in AnyRows PROVE Add(was, row) \in Seq(AnyRows)
    <3>1. Append(was, row) \in Seq(AnyRows)  OBVIOUS
    <3>2. Add(was, row) = was \/ Add(was, row) = Append(was, row)  BY DEF Add
    <3> QED  BY <3>1, <3>2
  <2> QED  BY <2>1, <2>2
<1>4. step \in [1..count -> [Seq(AnyRows) -> Seq(AnyRows)]]  BY <1>3
<1>5. \A n \in 1..count : \A was \in Seq(AnyRows) : step[n][was] = Add(was, rows[n])
  OBVIOUS
<1> HIDE DEF step
<1>6. PICK f : Runs(f, count, Seq(AnyRows), none, step)  BY <1>1, <1>2, <1>4, Recursion
<1>7. /\ f \in [0..count -> Seq(AnyRows)] /\ f[0] = none
      /\ \A n \in 1..count : f[n] = step[n][f[n - 1]]
  BY <1>6 DEF Runs
<1> DEFINE Loop(s) == [n \in 0..count |-> IF n = 0 THEN none ELSE Add(s[n - 1], rows[n])]
<1>8. \A n \in 1..count : n - 1 \in 0..count  BY <1>1
<1>9. \A n \in 1..count : f[n] = Add(f[n - 1], rows[n])  BY <1>5, <1>7, <1>8
<1>10. \A n \in 0..count : n = 0 \/ n \in 1..count  BY <1>1
<1>11. f = Loop(f)
  <2>1. \A n \in 0..count : f[n] = IF n = 0 THEN none ELSE Add(f[n - 1], rows[n])
    BY <1>7, <1>9, <1>10
  <2> HIDE DEF none
  <2> QED  BY <1>7, <2>1
<1>12. G = Loop(G)
  <2>1. G = CHOOSE s : s = Loop(s)  BY DEF Added
  <2> HIDE DEF Loop, G
  <2> QED  BY <1>11, <2>1
<1> HIDE DEF G
<1>13. /\ DOMAIN G = 0..count /\ G[0] = none
       /\ \A n \in 1..count : G[n] = Add(G[n - 1], rows[n])
  <2> DEFINE Turn(n) == IF n = 0 THEN none ELSE Add(G[n - 1], rows[n])
  <2>1. G = [n \in 0..count |-> Turn(n)]  BY <1>12
  <2>2. 0 \in 0..count /\ \A n \in 1..count : n \in 0..count /\ n # 0  BY <1>1
  <2>3. Turn(0) = none /\ \A n \in 1..count : Turn(n) = Add(G[n - 1], rows[n])  BY <2>2
  <2> HIDE DEF Turn
  <2> QED  BY <2>1, <2>2, <2>3
<1> HIDE DEF none
<1> DEFINE P == {n \in 0..count : G[n] \in Seq(AnyRows)}
<1>14. 0 \in P
  <2>1. 0 \in 0..count  BY <1>1
  <2>2. G[0] \in Seq(AnyRows)  BY <1>2, <1>13
  <2> QED  BY <2>1, <2>2
<1>15. \A n \in 1..count : n - 1 \in P => n \in P  BY <1>1, <1>3, <1>13
<1>16. \A n \in 0..count : n \in P
  <2>1. P \in SUBSET (0..count)  OBVIOUS
  <2> HIDE DEF P, count
  <2> QED  BY <1>1, <1>14, <1>15, <2>1, Along
<1>17. G \in [0..count -> Seq(AnyRows)]
  <2>1. \A n \in 0..count : G[n] \in Seq(AnyRows)  BY <1>16
  <2>2. G = [n \in 0..count |-> G[n]]  BY <1>12
  <2> QED  BY <2>1, <2>2
<1> QED  BY <1>13, <1>17 DEF G, none

\* Sorting leaves as many rows.
LEMMA NewestFirstTyped ==
    ASSUME NEW rows \in Seq(AnyRows)
    PROVE  NewestFirst(rows) \in Seq(AnyRows) /\ Len(NewestFirst(rows)) = Len(rows)
BY NewestFirstIs

\* Rows with the minimum of their sources are rows.
LEMMA EnsureMinimumTyped ==
    ASSUME NEW rows \in Seq(AnyRows), NEW sourceRows \in Seq(AnyRows)
    PROVE  EnsureMinimum(rows, sourceRows) \in Seq(AnyRows)
<1> DEFINE newest == NewestFirst(sourceRows)
           n == Len(sourceRows)
           all == Restored(rows, newest)[n]
<1>1. newest \in Seq(AnyRows) /\ Len(newest) = n /\ n \in Nat  BY NewestFirstTyped
<1>2. Restored(rows, newest) \in [0..n -> Seq(AnyRows)]
  <2> HIDE DEF newest, n
  <2> QED  BY <1>1, RestoredIs
<1>3. n \in 0..n  BY <1>1
<1>4. all \in Seq(AnyRows)
  <2> HIDE DEF newest, n
  <2> QED  BY <1>2, <1>3
<1>5. EnsureMinimum(rows, sourceRows) = NewestFirst(all)  BY DEF EnsureMinimum
<1> HIDE DEF all
<1> QED  BY <1>4, <1>5, NewestFirstTyped

\* The rows of the groups are a list of rows.
LEMMA GroupsAreRows ==
    ASSUME NEW rows \in Seq(AnyRows), NEW latestState
    PROVE  RowsOfGroups(Groups(rows, latestState)) \in Seq(AnyRows)
<1> DEFINE n == Len(rows)
           state == Grouping(rows, latestState)[n]
           groups == Groups(rows, latestState)
<1>1. n \in Nat /\ n \in 0..n  OBVIOUS
<1>2. state \in GroupStates
  <2>1. Grouping(rows, latestState) \in [0..n -> GroupStates]  BY GroupingIs
  <2> HIDE DEF n
  <2> QED  BY <1>1, <2>1
<1>3. groups = state.groups  BY DEF Groups
<1> HIDE DEF state
<1>4. groups \in Seq(GroupRows)  BY <1>2, <1>3 DEF GroupStates
<1> DEFINE count == Len(groups)
<1> HIDE DEF groups
<1>5. count \in Nat /\ DOMAIN groups = 1..count /\ \A g \in 1..count : groups[g] \in GroupRows  BY <1>4
<1>6. \A g \in 1..count : groups[g].row \in AnyRows  BY <1>5 DEF GroupRows
<1> HIDE DEF count
<1>7. RowsOfGroups(groups) \in [1..count -> AnyRows]  BY <1>5, <1>6 DEF RowsOfGroups
<1>8. RowsOfGroups(groups) \in Seq(AnyRows)  BY <1>5, <1>7, SeqDef
<1> QED  BY <1>8 DEF groups

\* And sorted they are one, too.
LEMMA ConsolidatedTyped ==
    ASSUME NEW rows \in Seq(AnyRows), NEW latestState
    PROVE  Consolidated(rows, latestState) \in Seq(AnyRows)
<1>1. Consolidated(rows, latestState) = NewestFirst(RowsOfGroups(Groups(rows, latestState)))
  BY DEF Consolidated, RowsOfGroups
<1> QED  BY <1>1, GroupsAreRows, NewestFirstTyped

\* A field or what is shown for it.
LEMMA DefaultTyped ==
    ASSUME NEW value \in AnyText, NEW other \in AnyText
    PROVE  Default(value, other) \in AnyText
BY DEF Default

\* A closed incident as a row.
LEMMA AsClosedTyped ==
    ASSUME NEW row \in AnyRows
    PROVE  AsClosed(row) \in AnyRows
<1>1. /\ row.id \in AnyText /\ row.incident \in AnyText /\ row.service \in AnyText /\ row.severity \in AnyText
      /\ row.name \in AnyText
  <2> HIDE DEF AnyText
  <2> QED  BY DEF AnyRows
<1>2. "-" \in AnyText /\ "info" \in AnyText /\ "closed incident" \in AnyText  BY DEF AnyText
<1>3. /\ Default(row.id, row.incident) \in AnyText /\ Default(row.service, "-") \in AnyText
      /\ Default(row.severity, "info") \in AnyText /\ Default(row.name, "closed incident") \in AnyText
  BY <1>1, <1>2, DefaultTyped
<1> QED  BY <1>3 DEF AnyRows, AsClosed

\* A file of the landing pad as a row.
LEMMA AsLandedTyped ==
    ASSUME NEW row \in AnyRows
    PROVE  AsLanded(row) \in AnyRows
<1>1. /\ row.id \in AnyText /\ row.incident \in AnyText /\ row.service \in AnyText /\ row.severity \in AnyText
      /\ row.name \in AnyText
  <2> HIDE DEF AnyText
  <2> QED  BY DEF AnyRows
<1>2. "-" \in AnyText /\ "warning" \in AnyText /\ "Landing Pad Alert" \in AnyText  BY DEF AnyText
<1>3. /\ Default(row.incident, row.id) \in AnyText /\ Default(row.service, "-") \in AnyText
      /\ Default(row.severity, "warning") \in AnyText /\ Default(row.name, "Landing Pad Alert") \in AnyText
  BY <1>1, <1>2, DefaultTyped
<1> QED  BY <1>3 DEF AnyRows, AsLanded

\* Two lists of one kind make one.
LEMMA Concatenated ==
    ASSUME NEW S, NEW x \in Seq(S), NEW y \in Seq(S)
    PROVE  x \o y \in Seq(S)
OBVIOUS

\* The answers are lists of rows.
ListsInv ==
    /\ alertAnswer \in Seq(StreamRows)
    /\ closedAnswer \in Seq(StreamRows)
    /\ landingAnswer \in Seq(StreamRows)

\* And so does one row in front.
LEMMA ListedTyped ==
    ASSUME NEW S, NEW answer \in Seq(S), NEW row \in S
    PROVE  <<row>> \o answer \in Seq(S)
OBVIOUS

\* They always are: all that is listed comes from the server's rows.
THEOREM ListsInvariant == ListsSpec => []ListsInv
<1>1. ListsInit => ListsInv  BY DEF ListsInit, ListsInv
<1>2. ASSUME ListsInv, [ListsNext]_listVars PROVE ListsInv'
  <2>0. AlertRows \subseteq StreamRows /\ ClosedRows \subseteq StreamRows /\ LandingRows \subseteq StreamRows
    BY ConsolidationAssumption
  <2>1. alertAnswer \in Seq(StreamRows) /\ closedAnswer \in Seq(StreamRows) /\ landingAnswer \in Seq(StreamRows)
    BY <1>2 DEF ListsInv
  <2>2. CASE AlertListed
    <3>1. PICK row \in AlertRows : alertAnswer' = <<row>> \o alertAnswer  BY <2>2 DEF AlertListed, Listed
    <3>2. alertAnswer' \in Seq(StreamRows)  BY <2>0, <2>1, <3>1, ListedTyped
    <3> QED  BY <2>1, <2>2, <3>2 DEF AlertListed, ListsInv
  <2>3. CASE IncidentClosed
    <3>1. PICK row \in ClosedRows : closedAnswer' = <<row>> \o closedAnswer  BY <2>3 DEF IncidentClosed, Listed
    <3>2. closedAnswer' \in Seq(StreamRows)  BY <2>0, <2>1, <3>1, ListedTyped
    <3> QED  BY <2>1, <2>3, <3>2 DEF IncidentClosed, ListsInv
  <2>4. CASE FileLanded
    <3>1. PICK row \in LandingRows : landingAnswer' = <<row>> \o landingAnswer  BY <2>4 DEF FileLanded, Listed
    <3>2. landingAnswer' \in Seq(StreamRows)  BY <2>0, <2>1, <3>1, ListedTyped
    <3> QED  BY <2>1, <2>4, <3>2 DEF FileLanded, ListsInv
  <2>5. CASE UNCHANGED listVars  BY <2>1, <2>5 DEF listVars, ListsInv
  <2> QED  BY <1>2, <2>2, <2>3, <2>4, <2>5 DEF ListsNext
<1> QED  BY <1>1, <1>2, PTL DEF ListsSpec

\* All lists on the screen are lists of rows.
LEMMA AllTyped ==
    ASSUME ListsInv
    PROVE  /\ alertAnswer \in Seq(AnyRows) /\ MergedRows \in Seq(AnyRows)
           /\ AllStreamRows \in Seq(AnyRows) /\ BalancedRows \in Seq(AnyRows)
<1>1. alertAnswer \in Seq(AnyRows) /\ closedAnswer \in Seq(AnyRows) /\ landingAnswer \in Seq(AnyRows)
  BY RowsAre, SeqMonotonic DEF ListsInv
<1>2. Alerts \in Seq(AnyRows) /\ LandingPad \in Seq(AnyRows)
  BY <1>1, CapLatestTyped DEF Alerts, LandingPad
<1>3. ASSUME NEW list \in Seq(AnyRows)
      PROVE  /\ [i \in DOMAIN list |-> AsClosed(list[i])] \in Seq(AnyRows)
             /\ [i \in DOMAIN list |-> AsLanded(list[i])] \in Seq(AnyRows)
  <2> DEFINE n == Len(list)
             closed == [i \in DOMAIN list |-> AsClosed(list[i])]
             landed == [i \in DOMAIN list |-> AsLanded(list[i])]
  <2>1. n \in Nat /\ DOMAIN list = 1..n /\ \A i \in 1..n : list[i] \in AnyRows  OBVIOUS
  <2>2. \A i \in 1..n : AsClosed(list[i]) \in AnyRows /\ AsLanded(list[i]) \in AnyRows
    BY <2>1, AsClosedTyped, AsLandedTyped
  <2> HIDE DEF n
  <2>3. closed \in [1..n -> AnyRows] /\ landed \in [1..n -> AnyRows]  BY <2>1, <2>2
  <2> HIDE DEF closed, landed
  <2>4. closed \in Seq(AnyRows) /\ landed \in Seq(AnyRows)  BY <2>1, <2>3, SeqDef
  <2> QED  BY <2>4 DEF closed, landed
<1>4. MergedRows \in Seq(AnyRows)
  <2> DEFINE open == CapLatest(EnsureMinimum(Alerts, Alerts))
             closed == [i \in DOMAIN closedAnswer |-> AsClosed(closedAnswer[i])]
             rows == open \o closed
             n == Len(rows)
  <2>1. open \in Seq(AnyRows)  BY <1>2, EnsureMinimumTyped, CapLatestTyped
  <2>2. closed \in Seq(AnyRows)  BY <1>1, <1>3
  <2>3. MergedRows = Added(rows)[n]  BY DEF MergedRows
  <2> HIDE DEF open, closed
  <2>4. rows \in Seq(AnyRows)  BY <2>1, <2>2, Concatenated
  <2> HIDE DEF rows
  <2>5. Added(rows) \in [0..n -> Seq(AnyRows)]  BY <2>4, AddedIs
  <2>6. n \in 0..n  BY <2>4
  <2> QED  BY <2>3, <2>5, <2>6
<1>5. AllStreamRows \in Seq(AnyRows)
  <2> DEFINE pad == [i \in DOMAIN LandingPad |-> AsLanded(LandingPad[i])]
             open == [i \in DOMAIN Alerts |-> AsLanded(Alerts[i])]
  <2>1. pad \in Seq(AnyRows) /\ open \in Seq(AnyRows)  BY <1>2, <1>3
  <2>2. AllStreamRows = pad \o open  BY DEF AllStreamRows
  <2> HIDE DEF pad, open
  <2> QED  BY <2>1, <2>2, Concatenated
<1>6. BalancedRows \in Seq(AnyRows)
  BY <1>5, ConsolidatedTyped, EnsureMinimumTyped DEF BalancedRows
<1> QED  BY <1>1, <1>4, <1>5, <1>6

(***************************************************************************)
(* What is shown of the merged rows                                        *)
(***************************************************************************)
\* A list has every row of the others, and no more of a source unless they are few.
HasRows(rows, visible, minimum) ==
    /\ \A i \in DOMAIN rows : \E j \in DOMAIN visible : visible[j] = rows[i]
    /\ \A channel : \/ Cardinality(OfChannel(visible, channel)) <= minimum
                    \/ Cardinality(OfChannel(visible, channel)) = Cardinality(OfChannel(rows, channel))

\* Sorting keeps every row, and as many of each source.
LEMMA SortHasRows ==
    ASSUME NEW rows \in Seq(AnyRows)
    PROVE  /\ \A i \in DOMAIN rows : \E k \in DOMAIN NewestFirst(rows) : NewestFirst(rows)[k] = rows[i]
           /\ \A channel : Cardinality(OfChannel(NewestFirst(rows), channel)) = Cardinality(OfChannel(rows, channel))
<1> DEFINE n == Len(rows)
           new == NewestFirst(rows)
<1>1. n \in Nat /\ DOMAIN rows = 1..n /\ \A i \in 1..n : rows[i] \in AnyRows  OBVIOUS
<1>2. \A i \in 1..n : rows[i].time \in Nat  BY <1>1 DEF AnyRows
<1>3. PICK order : InNewestOrder(rows, n, order)  BY InNewestOrderOf
<1> HIDE DEF n, new
<1>4. /\ order \in [1..n -> 1..n]
      /\ \A k, l \in 1..n : k < l <=> Ahead(rows, order[k], order[l])
      /\ \A i \in 1..n : \E k \in 1..n : order[k] = i
      /\ new = [k \in 1..n |-> rows[order[k]]]
  BY <1>3 DEF InNewestOrder, new
<1>5. DOMAIN new = 1..n /\ \A k \in 1..n : order[k] \in 1..n /\ new[k] = rows[order[k]]  BY <1>4
<1>6. \A i \in DOMAIN rows : \E k \in DOMAIN new : new[k] = rows[i]  BY <1>1, <1>4, <1>5
<1>7. \A k, l \in 1..n : order[k] = order[l] => k = l
  <2>1. \A i \in 1..n : ~Ahead(rows, i, i)  BY <1>1, <1>2 DEF Ahead
  <2>2. \A k, l \in 1..n : order[k] = order[l] => ~(k < l) /\ ~(l < k)  BY <1>4, <1>5, <2>1
  <2> QED  BY <1>1, <2>2
<1>8. ASSUME NEW channel
      PROVE  Cardinality(OfChannel(new, channel)) = Cardinality(OfChannel(rows, channel))
  <2> DEFINE S == OfChannel(new, channel)
  <2>1. S \in SUBSET (1..n)  BY <1>5 DEF OfChannel
  <2>2. ValuesOn(order, S) = OfChannel(rows, channel)
    <3>1. \A k \in S : order[k] \in OfChannel(rows, channel)  BY <1>1, <1>5 DEF OfChannel
    <3>2. ASSUME NEW i \in OfChannel(rows, channel) PROVE \E k \in S : order[k] = i
      <4>1. i \in 1..n /\ rows[i].channel = channel  BY <1>1 DEF OfChannel
      <4>2. PICK k \in 1..n : order[k] = i  BY <1>4, <4>1
      <4>3. k \in S  BY <1>5, <4>1, <4>2 DEF OfChannel
      <4> QED  BY <4>2, <4>3
    <3> HIDE DEF S
    <3> QED  BY <3>1, <3>2 DEF ValuesOn
  <2>3. \A x, y \in S : order[x] = order[y] => x = y  BY <1>7, <2>1
  <2> HIDE DEF S
  <2>4. Cardinality(ValuesOn(order, S)) = Cardinality(S)  BY <1>1, <2>1, <2>3, ImageOf
  <2> QED  BY <2>2, <2>4 DEF S
<1> QED  BY <1>6, <1>8 DEF new

\* One row put back: the source had fewer than the minimum.
LEMMA RestoreHasRows ==
    ASSUME NEW rows, NEW selected \in Seq(AnyRows), NEW row \in AnyRows, HasRows(rows, selected, MinPerSource)
    PROVE  HasRows(rows, Restore(selected, row), MinPerSource)
<1> DEFINE new == Append(selected, row)
           n == Len(selected)
<1>1. CASE Restore(selected, row) = selected  BY <1>1
<1>2. CASE /\ Restore(selected, row) = new
           /\ Cardinality(OfChannel(selected, row.channel)) < MinPerSource
  <2>1. /\ n \in Nat /\ DOMAIN selected = 1..n /\ DOMAIN new = 1..(n + 1)
        /\ new[n + 1] = row /\ \A i \in 1..n : new[i] = selected[i]
    OBVIOUS
  <2> HIDE DEF new, n
  <2>2. \A i \in DOMAIN rows : \E j \in DOMAIN new : new[j] = rows[i]
    <3>1. \A j \in 1..n : j \in 1..(n + 1)  BY <2>1
    <3> QED  BY <2>1, <3>1 DEF HasRows
  <2>3. ASSUME NEW channel
        PROVE  \/ Cardinality(OfChannel(new, channel)) <= MinPerSource
               \/ Cardinality(OfChannel(new, channel)) = Cardinality(OfChannel(rows, channel))
    <3>1. \A j : j \in 1..(n + 1) <=> j \in 1..n \/ j = n + 1  BY <2>1
    <3>2. CASE channel = row.channel
      <4> DEFINE S == OfChannel(selected, channel)
      <4>1. S \subseteq 1..n /\ n + 1 \notin S  BY <2>1 DEF OfChannel
      <4>2. OfChannel(new, channel) = S \cup {n + 1}  BY <2>1, <3>1, <3>2 DEF OfChannel
      <4>3. Cardinality(S) < MinPerSource  BY <1>2, <3>2
      <4> HIDE DEF S
      <4>4. IsFiniteSet(S) /\ Cardinality(S) \in Nat
        <5>1. IsFiniteSet(1..n)  BY <2>1, FS_Interval
        <5>2. IsFiniteSet(S)  BY <4>1, <5>1, FS_Subset
        <5> QED  BY <5>2, FS_CardinalityType
      <4>5. Cardinality(S \cup {n + 1}) = Cardinality(S) + 1  BY <4>1, <4>4, FS_AddElement
      <4>6. MinPerSource \in Nat  BY ConsolidationAssumption
      <4> QED  BY <4>2, <4>3, <4>4, <4>5, <4>6
    <3>3. CASE channel # row.channel
      <4>1. OfChannel(new, channel) = OfChannel(selected, channel)
        BY <2>1, <3>1, <3>3 DEF OfChannel
      <4> QED  BY <4>1 DEF HasRows
    <3> QED  BY <3>2, <3>3
  <2> QED  BY <1>2, <2>2, <2>3 DEF HasRows
<1>3. Restore(selected, row) = selected \/ (/\ Restore(selected, row) = new
                                              /\ Cardinality(OfChannel(selected, row.channel)) < MinPerSource)
  BY DEF Restore, OfChannel
<1> QED  BY <1>1, <1>2, <1>3

\* A list completed to the minimum has its rows, and more only in a source that was short.
LEMMA MinimumHasRows ==
    ASSUME NEW rows \in Seq(AnyRows), NEW sourceRows \in Seq(AnyRows)
    PROVE  HasRows(rows, EnsureMinimum(rows, sourceRows), MinPerSource)
<1> DEFINE newest == NewestFirst(sourceRows)
           n == Len(sourceRows)
           G == Restored(rows, newest)
<1>1. newest \in Seq(AnyRows) /\ Len(newest) = n /\ n \in Nat  BY NewestFirstTyped
<1>2. EnsureMinimum(rows, sourceRows) = NewestFirst(G[n])  BY DEF EnsureMinimum
<1> HIDE DEF newest, n
<1>3. /\ G \in [0..n -> Seq(AnyRows)] /\ G[0] = rows
      /\ \A k \in 1..n : G[k] = Restore(G[k - 1], newest[k])
  BY <1>1, RestoredIs
<1> HIDE DEF G
<1> DEFINE P == {k \in 0..n : HasRows(rows, G[k], MinPerSource)}
<1>4. 0 \in P
  <2>1. HasRows(rows, rows, MinPerSource)  BY DEF HasRows
  <2> QED  BY <1>1, <1>3, <2>1
<1>5. ASSUME NEW k \in 1..n, k - 1 \in P PROVE k \in P
  <2>1. k \in 0..n /\ k - 1 \in 0..n /\ newest[k] \in AnyRows  BY <1>1
  <2>2. G[k - 1] \in Seq(AnyRows) /\ HasRows(rows, G[k - 1], MinPerSource)  BY <1>3, <1>5, <2>1
  <2>3. HasRows(rows, Restore(G[k - 1], newest[k]), MinPerSource)  BY <2>1, <2>2, RestoreHasRows
  <2> QED  BY <1>3, <2>1, <2>3
<1>6. P \in SUBSET (0..n)  OBVIOUS
<1> HIDE DEF P
<1>7. n \in 0..n /\ n \in P
  <2>1. n \in Nat /\ \A k \in 1..n : k - 1 \in P => k \in P  BY <1>1, <1>5
  <2>2. \A k \in 0..n : k \in P  BY <1>4, <1>6, <2>1, Along
  <2> QED  BY <2>1, <2>2
<1>8. HasRows(rows, G[n], MinPerSource) /\ G[n] \in Seq(AnyRows)  BY <1>3, <1>7 DEF P
<1> DEFINE all == G[n]
<1> HIDE DEF all
<1>9. all \in Seq(AnyRows) /\ HasRows(rows, all, MinPerSource)  BY <1>8 DEF all
<1>10. HasRows(rows, NewestFirst(all), MinPerSource)
  <2>1. /\ \A i \in DOMAIN all : \E k \in DOMAIN NewestFirst(all) : NewestFirst(all)[k] = all[i]
        /\ \A channel : Cardinality(OfChannel(NewestFirst(all), channel)) = Cardinality(OfChannel(all, channel))
    BY <1>9, SortHasRows
  <2> QED  BY <1>9, <2>1 DEF HasRows
<1> QED  BY <1>2, <1>10 DEF all

\* A consolidated list has a row for each group and no other.
LEMMA ConsolidatedHasRows ==
    ASSUME NEW rows \in Seq(AnyRows), NEW latestState
    PROVE  HasRows(RowsOfGroups(Groups(rows, latestState)), Consolidated(rows, latestState), 0)
<1> DEFINE list == RowsOfGroups(Groups(rows, latestState))
<1>1. list \in Seq(AnyRows)  BY GroupsAreRows
<1>2. Consolidated(rows, latestState) = NewestFirst(list)  BY DEF Consolidated, RowsOfGroups
<1> HIDE DEF list
<1>3. /\ \A i \in DOMAIN list : \E k \in DOMAIN NewestFirst(list) : NewestFirst(list)[k] = list[i]
      /\ \A channel : Cardinality(OfChannel(NewestFirst(list), channel)) = Cardinality(OfChannel(list, channel))
  BY <1>1, SortHasRows
<1> QED  BY <1>2, <1>3 DEF HasRows, list

\* The stream puts rows back into a consolidated list.
LEMMA BalancedHasRows ==
    ASSUME ListsInv
    PROVE  HasRows(RowsOfGroups(Groups(AllStreamRows, TRUE)), BalancedRows, MinPerSource)
<1> DEFINE list == RowsOfGroups(Groups(AllStreamRows, TRUE))
           merged == Consolidated(AllStreamRows, TRUE)
<1>1. AllStreamRows \in Seq(AnyRows)  BY AllTyped
<1>2. merged \in Seq(AnyRows) /\ HasRows(list, merged, 0)  BY <1>1, ConsolidatedTyped, ConsolidatedHasRows
<1>3. BalancedRows = EnsureMinimum(merged, AllStreamRows)  BY DEF BalancedRows
<1> HIDE DEF list, merged
<1>4. HasRows(merged, BalancedRows, MinPerSource)  BY <1>1, <1>2, <1>3, MinimumHasRows
<1>5. ASSUME NEW channel
      PROVE  \/ Cardinality(OfChannel(BalancedRows, channel)) <= MinPerSource
             \/ Cardinality(OfChannel(BalancedRows, channel)) = Cardinality(OfChannel(list, channel))
  <2>1. MinPerSource \in Nat  BY ConsolidationAssumption
  <2>2. \/ Cardinality(OfChannel(merged, channel)) <= 0
        \/ Cardinality(OfChannel(merged, channel)) = Cardinality(OfChannel(list, channel))
    BY <1>2 DEF HasRows
  <2>3. \/ Cardinality(OfChannel(BalancedRows, channel)) <= MinPerSource
        \/ Cardinality(OfChannel(BalancedRows, channel)) = Cardinality(OfChannel(merged, channel))
    BY <1>4 DEF HasRows
  <2>4. Cardinality(OfChannel(merged, channel)) \in Nat
    <3>1. OfChannel(merged, channel) \subseteq 1..Len(merged) /\ Len(merged) \in Nat  BY <1>2 DEF OfChannel
    <3>2. IsFiniteSet(1..Len(merged))  BY <3>1, FS_Interval
    <3>3. IsFiniteSet(OfChannel(merged, channel))  BY <3>1, <3>2, FS_Subset
    <3> QED  BY <3>3, FS_CardinalityType
  <2> QED  BY <2>1, <2>2, <2>3, <2>4
<1>6. \A i \in DOMAIN list : \E j \in DOMAIN BalancedRows : BalancedRows[j] = list[i]
  BY <1>2, <1>4 DEF HasRows
<1>7. HasRows(list, BalancedRows, MinPerSource)  BY <1>5, <1>6 DEF HasRows
<1> QED  BY <1>7 DEF list

\* Rows that share an identity, directly or through others, are merged into the one that
\* is preferred, with every source they came from; the alert list shows these alone, the
\* stream shows them all and more only in a source short of its minimum; and no burst of
\* one alert pushes another type out of its source: whatever rows the server lists, and
\* how many of them.
THEOREM AlertsAreAlwaysToldApart == ListsSpec => []AlertsAreToldApart
<1>1. ListsInv => AlertsAreToldApart
  <2> SUFFICES ASSUME ListsInv PROVE AlertsAreToldApart  OBVIOUS
  <2>1. /\ alertAnswer \in Seq(AnyRows) /\ MergedRows \in Seq(AnyRows)
        /\ AllStreamRows \in Seq(AnyRows) /\ BalancedRows \in Seq(AnyRows)
    BY AllTyped
  <2>2. OneGroupPerAlert(MergedRows, FALSE) /\ OneGroupPerAlert(AllStreamRows, TRUE)  BY <2>1, OneRow
  <2>3. BurstHidesNoType(alertAnswer) /\ BurstHidesNoType(BalancedRows)  BY <2>1, NoTypeHidden
  <2>4. ShowsRows(RowsOfGroups(Groups(MergedRows, FALSE)), VisibleAlerts, 0)
    <3>1. HasRows(RowsOfGroups(Groups(MergedRows, FALSE)), VisibleAlerts, 0)
      BY <2>1, ConsolidatedHasRows DEF VisibleAlerts
    <3> QED  BY <3>1 DEF HasRows, ShowsRows
  <2>5. ShowsRows(RowsOfGroups(Groups(AllStreamRows, TRUE)), BalancedRows, MinPerSource)
    BY BalancedHasRows DEF HasRows, ShowsRows
  <2> QED  BY <2>2, <2>3, <2>4, <2>5 DEF AlertsAreToldApart
<1> QED  BY <1>1, ListsInvariant, PTL

=============================================================================
