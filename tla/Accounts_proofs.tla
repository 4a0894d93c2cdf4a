-------------------------- MODULE Accounts_proofs ---------------------------
(***************************************************************************)
(* Proofs about Accounts, for any users, clients and requests at once, and *)
(* any number of tokens and edits.                                         *)
(***************************************************************************)
EXTENDS Accounts, TLAPS

(* The conjuncts of the type invariant by the tables they speak of.        *)
UserType == role \in [Users -> Roles \cup {"none"}] /\ born \in SUBSET Users
SessionType == /\ owner \in [SessionIds -> Users]
               /\ token \in [SessionIds -> 0..MaxTokens]
               /\ fresh \in SUBSET SessionIds
               /\ issued \in 0..MaxTokens
RequestType == request \in [Requests -> {NoRequest} \cup Verified \cup Selected
                                          \cup Written]
ClientType == /\ held \in [Clients -> 0..MaxTokens]
              /\ access \in [Clients -> Claims \cup {NoClaims}]
HistoryType == /\ edits \in 0..MaxEdits
               /\ over \in SUBSET SessionIds
               /\ good \in [Clients -> 0..MaxTokens]

LEMMA TypeParts ==
  /\ AccountsTypeOK <=> /\ UserType /\ SessionType /\ RequestType
                        /\ ClientType /\ HistoryType
  /\ AccountsTypeOK' <=> /\ UserType' /\ SessionType' /\ RequestType'
                         /\ ClientType' /\ HistoryType'
BY DEF AccountsTypeOK, UserType, SessionType, RequestType, ClientType,
       HistoryType

LEMMA EditStep ==
  ASSUME edits \in 0..MaxEdits, Edit PROVE edits' \in 0..MaxEdits
BY AccountsAssumption DEF Edit

(* What a request in each state is.                                        *)
LEMMA RequestShape ==
  ASSUME RequestType, NEW r \in Requests
  PROVE  /\ request[r] = NoRequest => request[r].step = "none"
         /\ request[r].step = "verified" => request[r] \in Verified
         /\ request[r].step = "selected" => request[r] \in Selected
         /\ request[r].step = "written" => request[r] \in Written
         /\ request[r] # NoRequest =>
              request[r].step \in {"verified", "selected", "written"}
BY DEF RequestType, NoRequest, Verified, Selected, Written

LEMMA BusyType ==
  ASSUME HistoryType, NEW c \in Clients, NotGoodIfBusy(c)
  PROVE  good' \in [Clients -> 0..MaxTokens]
BY AccountsAssumption DEF HistoryType, NotGoodIfBusy

LEMMA EndType ==
  ASSUME SessionType, HistoryType, NEW S \in SUBSET SessionIds, EndSessions(S)
  PROVE  /\ token' \in [SessionIds -> 0..MaxTokens]
         /\ fresh' \in SUBSET SessionIds
         /\ over' \in SUBSET SessionIds
         /\ good' \in [Clients -> 0..MaxTokens]
BY AccountsAssumption DEF SessionType, HistoryType, EndSessions

(* No session is without its user: what makes the role of a session one a  *)
(* user can have.                                                          *)
RowsHaveUsers ==
  \A i \in SessionIds : token[i] # 0 => role[owner[i]] \in Roles

LEMMA SelectType ==
  ASSUME AccountsTypeOK, RowsHaveUsers, NEW r \in Requests, NEW c \in Clients,
         RefreshSelect(r, c) \/ \E u \in Users : LoginSelect(r, c, u)
  PROVE  AccountsTypeOK'
<1>1. RequestType'
  <2>1. CASE RefreshSelect(r, c)
    <3>1. PICK i \in SessionIds :
            /\ Accepts(i)
            /\ request' = [request EXCEPT ![r] =
                 [step |-> "selected", client |-> c, id |-> i,
                  claims |-> [user |-> owner[i], role |-> role[owner[i]]]]]
      BY <2>1 DEF RefreshSelect
    <3>2. [user |-> owner[i], role |-> role[owner[i]]] \in Claims
      BY <3>1 DEF RowsHaveUsers, Accepts, Claims, AccountsTypeOK
    <3>3. QED
      BY <3>1, <3>2, TypeParts DEF RequestType, Selected
  <2>2. ASSUME NEW u \in Users, LoginSelect(r, c, u) PROVE RequestType'
    <3>1. [user |-> u, role |-> role[u]] \in Claims
      BY <2>2 DEF LoginSelect, Claims
    <3>2. QED
      BY <2>2, <3>1, TypeParts DEF LoginSelect, RequestType, Verified
  <2>3. QED
    BY <2>1, <2>2
<1>2. NotGoodIfBusy(c) /\ UNCHANGED <<userVars, sessionVars, clientVars,
                                      edits, over>>
  BY DEF RefreshSelect, LoginSelect
<1>3. HistoryType'
  BY <1>2, TypeParts, BusyType DEF HistoryType
<1>4. QED
  BY <1>1, <1>2, <1>3, TypeParts
     DEF UserType, SessionType, ClientType, userVars, sessionVars, clientVars

LEMMA LoginInsertType ==
  ASSUME AccountsTypeOK, NEW r \in Requests, LoginInsert(r)
  PROVE  AccountsTypeOK'
<1>1. request[r] \in Verified
  BY TypeParts, RequestShape DEF LoginInsert
<1>2. RequestType' /\ SessionType'
  <2>1. CASE UNCHANGED sessionVars /\ request' = [request EXCEPT ![r] = NoRequest]
    BY <2>1, TypeParts DEF RequestType, SessionType, sessionVars
  <2>2. CASE ~(UNCHANGED sessionVars
               /\ request' = [request EXCEPT ![r] = NoRequest])
    <3>1. /\ issued + 1 \in Tokens
          /\ issued' = issued + 1
          /\ owner' = [owner EXCEPT ![issued + 1] = request[r].claims.user]
          /\ token' = [token EXCEPT ![issued + 1] = issued + 1]
          /\ fresh' = fresh \cup {issued + 1}
          /\ request' = [request EXCEPT ![r] =
               [step |-> "written", client |-> request[r].client,
                claims |-> request[r].claims, id |-> issued + 1,
                token |-> issued + 1]]
      BY <2>2 DEF LoginInsert
    <3>2. /\ request[r].client \in Clients /\ request[r].claims \in Claims
          /\ request[r].claims.user \in Users
      BY <1>1 DEF Verified, Claims
    <3>3. RequestType'
      BY <3>1, <3>2, TypeParts DEF RequestType, Written, SessionIds
    <3>4. SessionType'
      BY <3>1, <3>2, TypeParts DEF SessionType, SessionIds, Tokens
    <3>5. QED
      BY <3>3, <3>4
  <2>3. QED
    BY <2>1, <2>2
<1>3. QED
  BY <1>2, TypeParts
     DEF LoginInsert, UserType, ClientType, HistoryType, userVars, clientVars

LEMMA RefreshUpdateType ==
  ASSUME AccountsTypeOK, NEW r \in Requests, RefreshUpdate(r)
  PROVE  AccountsTypeOK'
<1>1. request[r] \in Selected
  BY TypeParts, RequestShape DEF RefreshUpdate
<1>2. /\ request[r].client \in Clients /\ request[r].claims \in Claims
      /\ request[r].id \in SessionIds
  BY <1>1 DEF Selected
<1>3. RequestType'
  BY <1>2, TypeParts DEF RefreshUpdate, RequestType, Written
<1>4. SessionType'
  BY <1>2, TypeParts DEF RefreshUpdate, SessionType, SessionIds, Tokens
<1>5. QED
  BY <1>3, <1>4, TypeParts
     DEF RefreshUpdate, UserType, ClientType, HistoryType, userVars, clientVars

LEMMA RespondType ==
  ASSUME AccountsTypeOK, NEW r \in Requests, Respond(r)
  PROVE  AccountsTypeOK'
<1>1. request[r] \in Written
  BY TypeParts, RequestShape DEF Respond
<1>2. /\ request[r].client \in Clients /\ request[r].claims \in Claims
      /\ request[r].id \in 0..MaxTokens /\ request[r].token \in 0..MaxTokens
  BY <1>1, AccountsAssumption DEF Written, SessionIds, Tokens
<1>3. RequestType' /\ ClientType'
  BY <1>2, TypeParts DEF Respond, RequestType, ClientType
<1>4. HistoryType'
  BY <1>2, TypeParts, AccountsAssumption DEF Respond, HistoryType
<1>5. QED
  BY <1>3, <1>4, TypeParts
     DEF Respond, UserType, SessionType, userVars, sessionVars

LEMMA NoAnswerType ==
  ASSUME AccountsTypeOK, NEW r \in Requests, NoAnswer(r)
  PROVE  AccountsTypeOK'
<1>1. RequestType'
  BY TypeParts DEF NoAnswer, RequestType
<1>2. good' \in [Clients -> 0..MaxTokens]
  <2>1. 0 \in 0..MaxTokens /\ good \in [Clients -> 0..MaxTokens]
    BY AccountsAssumption DEF AccountsTypeOK
  <2>2. [good EXCEPT ![request[r].client] = 0] \in [Clients -> 0..MaxTokens]
    BY <2>1
  <2>3. good' = good \/ good' = [good EXCEPT ![request[r].client] = 0]
    BY DEF NoAnswer
  <2>4. QED
    BY <2>1, <2>2, <2>3
<1>3. QED
  BY <1>1, <1>2, TypeParts
     DEF NoAnswer, HistoryType, UserType, SessionType, ClientType, userVars, sessionVars,
         clientVars

(* What an administrator, an expiry or a sign-out changes.                 *)
LEMMA EditType ==
  ASSUME AccountsTypeOK, AccountsNext, Edit, UNCHANGED <<request, held>>
  PROVE  AccountsTypeOK'
<1>1. edits' \in 0..MaxEdits
  BY EditStep DEF AccountsTypeOK
<1>2. ASSUME NEW c \in Clients, Logout(c) PROVE AccountsTypeOK'
  <2>1. SessionsOf(access[c].user) \in SUBSET SessionIds
    BY DEF SessionsOf
  <2>2. QED
    BY <1>1, <1>2, <2>1, EndType, TypeParts
       DEF Logout, UserType, SessionType, RequestType, ClientType,
           HistoryType, userVars, clientVars
<1>3. ASSUME NEW c \in Clients, AccessExpires(c) PROVE AccountsTypeOK'
  BY <1>1, <1>3, TypeParts
     DEF AccessExpires, UserType, SessionType, RequestType, ClientType,
         HistoryType, userVars, sessionVars
<1>4. ASSUME NEW i \in SessionIds, SessionExpires(i) PROVE AccountsTypeOK'
  <2>1. HistoryType' /\ fresh' \in SUBSET SessionIds
    BY <1>1, <1>4, TypeParts, AccountsAssumption
       DEF SessionExpires, HistoryType, SessionType
  <2>2. QED
    BY <1>4, <2>1, TypeParts
       DEF SessionExpires, UserType, SessionType, RequestType, ClientType,
           userVars, clientVars
<1>5. ASSUME NEW c \in Clients, NEW u \in Users, NEW new \in Roles,
             CreateUser(c, u, new) \/ UpdateUser(c, u, new)
      PROVE  AccountsTypeOK'
  BY <1>1, <1>5, TypeParts
     DEF CreateUser, UpdateUser, UserType, SessionType, RequestType,
         ClientType, HistoryType, sessionVars, clientVars
<1>6. ASSUME NEW c \in Clients, NEW u \in Users, DeleteUser(c, u)
      PROVE  AccountsTypeOK'
  <2>1. SessionsOf(u) \in SUBSET SessionIds
    BY DEF SessionsOf
  <2>2. QED
    BY <1>1, <1>6, <2>1, EndType, TypeParts
       DEF DeleteUser, UserType, SessionType, RequestType, ClientType,
           HistoryType, clientVars
<1>7. ASSUME NEW r \in Requests,
             \/ LoginInsert(r) \/ RefreshUpdate(r) \/ Respond(r) \/ NoAnswer(r)
             \/ \E c \in Clients : \/ RefreshSelect(r, c)
                                   \/ \E u \in Users : LoginSelect(r, c, u)
      PROVE  FALSE
  BY <1>7, AccountsAssumption
     DEF AccountsTypeOK, Edit, LoginInsert, RefreshUpdate, Respond, NoAnswer,
         RefreshSelect, LoginSelect
<1>8. QED
  BY <1>2, <1>3, <1>4, <1>5, <1>6, <1>7 DEF AccountsNext

(* Every step takes a request further or is an edit.                       *)
LEMMA StepKinds ==
  ASSUME AccountsNext
  PROVE  \/ \E r \in Requests, c \in Clients :
              RefreshSelect(r, c) \/ \E u \in Users : LoginSelect(r, c, u)
         \/ \E r \in Requests : \/ LoginInsert(r) \/ RefreshUpdate(r)
                                \/ Respond(r) \/ NoAnswer(r)
         \/ Edit /\ UNCHANGED <<request, held>>
BY DEF AccountsNext, Logout, AccessExpires, SessionExpires, CreateUser,
       UpdateUser, DeleteUser, clientVars

LEMMA UsersStep ==
  ASSUME AccountsTypeOK, RowsHaveUsers, [AccountsNext]_accountsVars
  PROVE  RowsHaveUsers'
<1>1. CASE UNCHANGED <<role, owner, token>>
  BY <1>1 DEF RowsHaveUsers
<1>2. ASSUME NEW r \in Requests, LoginInsert(r) PROVE RowsHaveUsers'
  BY <1>2 DEF LoginInsert, RowsHaveUsers, AccountsTypeOK, sessionVars,
              userVars, SessionIds
<1>3. ASSUME NEW r \in Requests, RefreshUpdate(r) PROVE RowsHaveUsers'
  BY <1>3 DEF RefreshUpdate, RowsHaveUsers, AccountsTypeOK, userVars
<1>4. ASSUME NEW c \in Clients, Logout(c) PROVE RowsHaveUsers'
  BY <1>4 DEF Logout, EndSessions, RowsHaveUsers, userVars, SessionIds, Tokens
<1>5. ASSUME NEW c \in Clients, NEW u \in Users, NEW new \in Roles,
             CreateUser(c, u, new) \/ UpdateUser(c, u, new)
      PROVE  RowsHaveUsers'
  BY <1>5 DEF CreateUser, UpdateUser, RowsHaveUsers, AccountsTypeOK,
              sessionVars
<1>6. ASSUME NEW c \in Clients, NEW u \in Users, DeleteUser(c, u)
      PROVE  RowsHaveUsers'
  BY <1>6 DEF DeleteUser, EndSessions, SessionsOf, RowsHaveUsers,
              AccountsTypeOK
<1>7. QED
  BY <1>1, <1>2, <1>3, <1>4, <1>5, <1>6
     DEF AccountsNext, accountsVars, RefreshSelect, LoginSelect, Respond,
         NoAnswer, AccessExpires, SessionExpires, userVars, sessionVars

(* Every variable keeps its shape: a session's role is always a user's.    *)
THEOREM AccountsTypeCorrect == AccountsSpec => [](AccountsTypeOK /\ RowsHaveUsers)
<1>1. AccountsInit => AccountsTypeOK /\ RowsHaveUsers
  BY AccountsAssumption
     DEF AccountsInit, AccountsTypeOK, RowsHaveUsers, Roles
<1>2. AccountsTypeOK /\ RowsHaveUsers /\ [AccountsNext]_accountsVars
        => AccountsTypeOK'
  <2> SUFFICES ASSUME AccountsTypeOK, RowsHaveUsers,
                      [AccountsNext]_accountsVars
               PROVE  AccountsTypeOK'
    OBVIOUS
  <2>1. CASE UNCHANGED accountsVars
    BY <2>1 DEF accountsVars, AccountsTypeOK, userVars, sessionVars, clientVars
  <2>2. CASE AccountsNext
    BY <2>2, StepKinds, SelectType, LoginInsertType, RefreshUpdateType,
       RespondType, NoAnswerType, EditType
  <2>3. QED
    BY <2>1, <2>2
<1>3. QED
  BY <1>1, <1>2, UsersStep, PTL DEF AccountsSpec

-----------------------------------------------------------------------------
(* Why a session that is over stays over: no refresh that has it in hand   *)
(* finds its row, and nobody is signed in to a session nobody has opened.  *)
SelectedNotOver ==
  \A r \in Requests :
    /\ request[r].step = "selected"
    /\ token[request[r].id] # 0
    => request[r].id \notin over
FreshNotOver == \A i \in SessionIds : Accepts(i) => i \notin over
RowsAreIssued ==
  /\ \A i \in SessionIds : token[i] # 0 => i \in 1..issued
  /\ over \subseteq 1..issued

OverInv == SelectedNotOver /\ FreshNotOver /\ RowsAreIssued

LEMMA OverSelect ==
  ASSUME AccountsTypeOK, OverInv, NEW r \in Requests, NEW c \in Clients,
         RefreshSelect(r, c) \/ \E u \in Users : LoginSelect(r, c, u)
  PROVE  OverInv'
<1>1. UNCHANGED <<token, fresh, issued, over>>
  BY DEF RefreshSelect, LoginSelect, sessionVars
<1>2. FreshNotOver' /\ RowsAreIssued'
  BY <1>1 DEF OverInv, FreshNotOver, RowsAreIssued, Accepts
<1>3. SelectedNotOver'
  <2>1. CASE RefreshSelect(r, c)
    <3>1. PICK i \in SessionIds :
            /\ Accepts(i)
            /\ request' = [request EXCEPT ![r] =
                 [step |-> "selected", client |-> c, id |-> i,
                  claims |-> [user |-> owner[i], role |-> role[owner[i]]]]]
      BY <2>1 DEF RefreshSelect
    <3>2. request'[r].id = i /\ \A s \in Requests \ {r} : request'[s] = request[s]
      BY <3>1 DEF AccountsTypeOK
    <3>3. QED
      BY <1>1, <3>1, <3>2 DEF OverInv, SelectedNotOver, FreshNotOver
  <2>2. ASSUME NEW u \in Users, LoginSelect(r, c, u) PROVE SelectedNotOver'
    <3>1. /\ request'[r].step = "verified"
          /\ \A s \in Requests \ {r} : request'[s] = request[s]
      BY <2>2 DEF LoginSelect, AccountsTypeOK
    <3>2. QED
      BY <1>1, <3>1 DEF OverInv, SelectedNotOver
  <2>3. QED
    BY <2>1, <2>2
<1>4. QED
  BY <1>2, <1>3 DEF OverInv

LEMMA OverWrite ==
  ASSUME AccountsTypeOK, OverInv, NEW r \in Requests,
         LoginInsert(r) \/ RefreshUpdate(r)
  PROVE  OverInv'
<1>1. CASE UNCHANGED sessionVars /\ request' = [request EXCEPT ![r] = NoRequest]
  <2>1. UNCHANGED <<token, fresh, issued, over>>
    BY <1>1 DEF sessionVars, LoginInsert, RefreshUpdate
  <2>2. /\ request'[r].step = "none"
        /\ \A s \in Requests \ {r} : request'[s] = request[s]
    BY <1>1 DEF AccountsTypeOK, NoRequest
  <2>3. QED
    BY <2>1, <2>2
       DEF OverInv, SelectedNotOver, FreshNotOver, RowsAreIssued, Accepts
<1>2. ASSUME NEW i \in SessionIds, i \notin over,
             issued + 1 \in Tokens, issued' = issued + 1, i \in 1..(issued + 1),
             \/ token' = [token EXCEPT ![i] = issued + 1]
             \/ token' = token /\ token[i] = 0,
             fresh' \subseteq fresh \cup {i}, over' = over,
             request'[r].step = "written",
             \A s \in Requests \ {r} : request'[s] = request[s]
      PROVE  OverInv'
  <2>1. \A j \in SessionIds \ {i} : token'[j] = token[j] /\ (j \in fresh' => j \in fresh)
    BY <1>2 DEF AccountsTypeOK
  <2>2. issued \in Nat /\ 1..issued \subseteq 1..issued'
    BY <1>2, AccountsAssumption DEF AccountsTypeOK
  <2>3. RowsAreIssued'
    BY <1>2, <2>1, <2>2 DEF OverInv, RowsAreIssued
  <2>4. FreshNotOver'
    BY <1>2, <2>1 DEF OverInv, FreshNotOver, Accepts
  <2>5. SelectedNotOver'
    <3> SUFFICES ASSUME NEW s \in Requests, request'[s].step = "selected",
                        token'[request'[s].id] # 0
                 PROVE  request'[s].id \notin over'
      BY DEF SelectedNotOver
    <3>1. s # r /\ request'[s] = request[s]
      BY <1>2
    <3>2. request[s].id \in SessionIds
      BY <3>1, TypeParts, RequestShape DEF Selected
    <3>3. QED
      BY <1>2, <2>1, <3>1, <3>2 DEF OverInv, SelectedNotOver
  <2>6. QED
    BY <2>3, <2>4, <2>5 DEF OverInv
<1>3. CASE LoginInsert(r) /\ ~(UNCHANGED sessionVars
                               /\ request' = [request EXCEPT ![r] = NoRequest])
  <2>1. /\ issued + 1 \in Tokens
        /\ issued' = issued + 1
        /\ token' = [token EXCEPT ![issued + 1] = issued + 1]
        /\ fresh' = fresh \cup {issued + 1}
        /\ over' = over
        /\ request' = [request EXCEPT ![r] =
             [step |-> "written", client |-> request[r].client,
              claims |-> request[r].claims, id |-> issued + 1,
              token |-> issued + 1]]
    BY <1>3 DEF LoginInsert
  <2>2. /\ request'[r].step = "written"
        /\ \A s \in Requests \ {r} : request'[s] = request[s]
    BY <2>1 DEF AccountsTypeOK
  <2>3. issued + 1 \notin over /\ issued + 1 \in 1..(issued + 1)
    BY AccountsAssumption DEF OverInv, RowsAreIssued, AccountsTypeOK
  <2>4. QED
    BY <1>2, <2>1, <2>2, <2>3 DEF SessionIds
<1>4. CASE RefreshUpdate(r)
  <2>1. request[r].step = "selected" /\ request[r].id \in SessionIds
    BY <1>4, TypeParts, RequestShape DEF RefreshUpdate, Selected
  <2> DEFINE i == request[r].id
  <2>2. /\ issued + 1 \in Tokens
        /\ issued' = issued + 1
        /\ over' = over
    BY <1>4 DEF RefreshUpdate
  <2>3. /\ request'[r].step = "written"
        /\ \A s \in Requests \ {r} : request'[s] = request[s]
    BY <1>4 DEF RefreshUpdate, AccountsTypeOK
  <2>4. CASE token[i] # 0
    <3>1. issued \in Nat
      BY AccountsAssumption DEF AccountsTypeOK
    <3>2. i \in 1..issued
      BY <2>1, <2>4 DEF OverInv, RowsAreIssued
    <3>3. i \in 1..(issued + 1)
      BY <3>1, <3>2
    <3>4. i \notin over
      BY <2>1, <2>4 DEF OverInv, SelectedNotOver
    <3>5. token' = [token EXCEPT ![i] = issued + 1] /\ fresh' = fresh \cup {i}
      BY <1>4, <2>1, <2>4 DEF RefreshUpdate
    <3>6. QED
      BY <1>2, <2>1, <2>2, <2>3, <3>5, <3>3, <3>4
  <2>5. CASE token[i] = 0
    <3>1. UNCHANGED <<token, fresh>>
      BY <1>4, <2>1, <2>5 DEF RefreshUpdate, AccountsTypeOK
    <3>2. issued \in Nat
      BY AccountsAssumption DEF AccountsTypeOK
    <3>3. RowsAreIssued'
      BY <2>2, <3>1, <3>2 DEF OverInv, RowsAreIssued
    <3>4. QED
      BY <2>2, <2>3, <3>1, <3>3
         DEF OverInv, SelectedNotOver, FreshNotOver, Accepts
  <2>6. QED
    BY <2>4, <2>5
<1>5. QED
  BY <1>1, <1>3, <1>4

LEMMA OverAnswer ==
  ASSUME AccountsTypeOK, OverInv, NEW r \in Requests, Respond(r) \/ NoAnswer(r)
  PROVE  OverInv'
<1>1. UNCHANGED <<token, fresh, issued, over>>
  BY DEF Respond, NoAnswer, sessionVars
<1>2. /\ request'[r].step = "none"
      /\ \A s \in Requests \ {r} : request'[s] = request[s]
  BY DEF Respond, NoAnswer, NoRequest, AccountsTypeOK
<1>3. QED
  BY <1>1, <1>2
     DEF OverInv, SelectedNotOver, FreshNotOver, RowsAreIssued, Accepts

(* Sessions that had rows may end, whatever ends them.                     *)
LEMMA OverEnd ==
  ASSUME AccountsTypeOK, OverInv, NEW u, EndSessions(SessionsOf(u)),
         UNCHANGED <<issued, request>>
  PROVE  OverInv'
<1>1. \A i \in SessionIds :
        /\ token'[i] # 0 => token[i] # 0 /\ i \notin SessionsOf(u)
        /\ i \in SessionsOf(u) => token[i] # 0
  BY DEF EndSessions, SessionsOf
<1>2. over' = over \cup SessionsOf(u) /\ fresh' \subseteq fresh
  BY DEF EndSessions
<1>3. SessionsOf(u) \subseteq SessionIds
  BY DEF SessionsOf
<1>4. RowsAreIssued'
  BY <1>1, <1>2, <1>3 DEF OverInv, RowsAreIssued
<1>5. FreshNotOver'
  BY <1>1, <1>2 DEF OverInv, FreshNotOver, Accepts
<1>6. SelectedNotOver'
  <2> SUFFICES ASSUME NEW s \in Requests, request[s].step = "selected",
                      token'[request[s].id] # 0
               PROVE  request[s].id \notin over'
    BY DEF SelectedNotOver
  <2>1. request[s].id \in SessionIds
    BY TypeParts, RequestShape DEF Selected
  <2>2. QED
    BY <1>1, <1>2, <2>1 DEF OverInv, SelectedNotOver
<1>7. QED
  BY <1>4, <1>5, <1>6 DEF OverInv

LEMMA OverExpires ==
  ASSUME AccountsTypeOK, OverInv, NEW i \in SessionIds, SessionExpires(i)
  PROVE  OverInv'
<1>1. /\ token[i] # 0 /\ fresh' = fresh \ {i} /\ UNCHANGED <<token, issued, request>>
      /\ \/ over' = over
         \/ /\ over' = over \cup {i}
            /\ ~\E r \in Requests : /\ request[r].step = "selected"
                                    /\ request[r].id = i
  BY DEF SessionExpires, Accepts
<1>2. QED
  BY <1>1
     DEF OverInv, SelectedNotOver, FreshNotOver, RowsAreIssued, Accepts

LEMMA OverStep ==
  ASSUME AccountsTypeOK, OverInv, [AccountsNext]_accountsVars
  PROVE  OverInv'
<1>1. CASE UNCHANGED <<token, fresh, issued, request, over>>
  BY <1>1 DEF OverInv, SelectedNotOver, FreshNotOver, RowsAreIssued, Accepts
<1>2. ASSUME NEW c \in Clients, Logout(c) PROVE OverInv'
  BY <1>2, OverEnd DEF Logout
<1>3. ASSUME NEW c \in Clients, NEW u \in Users, DeleteUser(c, u)
      PROVE  OverInv'
  BY <1>3, OverEnd DEF DeleteUser
<1>4. QED
  BY <1>1, <1>2, <1>3, OverSelect, OverWrite, OverAnswer, OverExpires
     DEF AccountsNext, accountsVars, AccessExpires, CreateUser, UpdateUser,
         sessionVars

(* A session that was signed out, went with its user, or expired while no  *)
(* refresh had it in hand is never accepted again; no session outlives its *)
(* user.                                                                   *)
THEOREM AccountsOverStaysOver == AccountsSpec => []OverStaysOver
<1>1. AccountsInit => OverInv
  BY AccountsAssumption
     DEF AccountsInit, OverInv, SelectedNotOver, FreshNotOver, RowsAreIssued,
         Accepts, NoRequest
<1>2. OverInv /\ RowsHaveUsers => OverStaysOver
  BY DEF OverInv, FreshNotOver, RowsHaveUsers, OverStaysOver, Accepts
<1>3. AccountsSpec => []OverInv
  BY <1>1, OverStep, AccountsTypeCorrect, PTL DEF AccountsSpec
<1>4. QED
  BY <1>2, <1>3, AccountsTypeCorrect, PTL

-----------------------------------------------------------------------------
(* No step makes an old token one that is accepted: the only token a step  *)
(* ever adds is the next one.                                              *)
LEMMA OnlyTheNextToken ==
  ASSUME AccountsTypeOK, [AccountsNext]_accountsVars
  PROVE  AcceptedTokens' \subseteq AcceptedTokens \cup {issued + 1}
<1> DEFINE Old(i) == token'[i] = token[i] /\ (i \in fresh' => i \in fresh)
<1>1. SUFFICES \A i \in SessionIds :
                 Accepts(i)' => token'[i] = issued + 1 \/ Old(i)
  <2> HIDE DEF Old
  <2> SUFFICES ASSUME NEW i \in SessionIds, Accepts(i)'
               PROVE  token'[i] \in AcceptedTokens \cup {issued + 1}
    BY DEF AcceptedTokens
  <2>1. CASE token'[i] = issued + 1
    BY <2>1
  <2>2. CASE Old(i)
    BY <2>2 DEF Old, AcceptedTokens, Accepts
  <2>3. QED
    BY <1>1, <2>1, <2>2
<1>2. CASE UNCHANGED <<token, fresh>>
  BY <1>2
<1>3. ASSUME NEW S, EndSessions(S)
      PROVE  \A i \in SessionIds : Accepts(i)' => Old(i)
  BY <1>3 DEF EndSessions, Accepts
<1>4. ASSUME NEW r \in Requests, LoginInsert(r)
      PROVE  \A i \in SessionIds : token'[i] = issued + 1 \/ Old(i)
  BY <1>4 DEF LoginInsert, AccountsTypeOK, sessionVars
<1>5. ASSUME NEW r \in Requests, RefreshUpdate(r)
      PROVE  \A i \in SessionIds :
               Accepts(i)' => token'[i] = issued + 1 \/ Old(i)
  BY <1>5 DEF RefreshUpdate, Accepts, AccountsTypeOK
<1>6. ASSUME NEW i \in SessionIds, SessionExpires(i)
      PROVE  \A j \in SessionIds : Old(j)
  BY <1>6 DEF SessionExpires
<1>7. QED
  BY <1>2, <1>3, <1>4, <1>5, <1>6
     DEF AccountsNext, accountsVars, RefreshSelect, LoginSelect, Respond,
         NoAnswer, Logout, AccessExpires, CreateUser, UpdateUser, DeleteUser,
         sessionVars

(* A refresh token that has stopped being accepted is never accepted       *)
(* again.                                                                  *)
THEOREM AccountsDeadTokensStayDead == AccountsSpec => DeadTokensStayDead
<1>1. AccountsTypeOK /\ [AccountsNext]_accountsVars
        => [\A t \in 1..issued :
              t \notin AcceptedTokens => t \notin AcceptedTokens']_accountsVars
  <2> SUFFICES ASSUME AccountsTypeOK, [AccountsNext]_accountsVars,
                      NEW t \in 1..issued, t \notin AcceptedTokens
               PROVE  t \notin AcceptedTokens'
    OBVIOUS
  <2>1. t # issued + 1
    BY AccountsAssumption DEF AccountsTypeOK
  <2>2. QED
    BY <2>1, OnlyTheNextToken
<1>2. QED
  BY <1>1, AccountsTypeCorrect, PTL DEF AccountsSpec, DeadTokensStayDead

-----------------------------------------------------------------------------
(* Why a client keeps its session.  Tokens are numbered and never given    *)
(* twice ...                                                               *)
IssuedSoFar ==
  /\ \A i \in SessionIds : token[i] <= issued /\ (token[i] # 0 => i <= issued)
  /\ \A i, j \in SessionIds : token[i] = token[j] /\ token[i] # 0 => i = j
  /\ \A c \in Clients : held[c] <= issued
  /\ \A r \in Requests :
       /\ request[r].step = "selected" => request[r].id <= issued
       /\ request[r].step = "written" => /\ request[r].id <= issued
                                         /\ request[r].token <= issued

(* ... so that the way to a session, its token, is with its client alone:  *)
(* no other holds it, is sent it, or is refreshing the session.            *)
NobodyElse(i, t, own, mine) ==
  /\ \A d \in Clients \ own : held[d] # t
  /\ \A s \in Requests \ mine :
       /\ request[s].step = "selected" => request[s].id # i
       /\ request[s].step = "written" => request[s].token # t

(* A login whose answer is on its way: nobody can refresh its session.     *)
Untouched(r) ==
  request[r].step = "written" /\ request[r].id = request[r].token =>
    /\ token[request[r].id] \in {0, request[r].id}
    /\ NobodyElse(request[r].id, request[r].id, {}, {r})

(* A client that may rely on its session holds the token of the session,   *)
(* or has it in the answer of the one request it has under way.            *)
HasToken(c) ==
  /\ Pending(c) = {} => held[c] = token[good[c]]
  /\ \A r \in Pending(c) :
       /\ Pending(c) = {r}
       /\ request[r].step = "selected" => request[r].id = good[c]
       /\ IF request[r].step = "written" /\ request[r].id # request[r].token
          THEN request[r].id = good[c] /\ request[r].token = token[good[c]]
          ELSE held[c] = token[good[c]]

Relies(c) ==
  good[c] # 0 => /\ good[c] \in SessionIds
                 /\ Accepts(good[c])
                 /\ HasToken(c)
                 /\ NobodyElse(good[c], token[good[c]], {c}, Pending(c))

GoodInv == /\ IssuedSoFar
           /\ \A r \in Requests : Untouched(r)
           /\ \A c \in Clients : Relies(c)

LEMMA Numbers ==
  ASSUME AccountsTypeOK
  PROVE  /\ issued \in Nat
         /\ SessionIds \subseteq Nat \ {0}
         /\ token \in [SessionIds -> Nat]
         /\ held \in [Clients -> Nat]
         /\ good \in [Clients -> Nat]
<1>1. 0..MaxTokens \subseteq Nat /\ SessionIds \subseteq Nat \ {0}
  BY AccountsAssumption DEF SessionIds, Tokens
<1>2. /\ token \in [SessionIds -> 0..MaxTokens] /\ held \in [Clients -> 0..MaxTokens]
      /\ good \in [Clients -> 0..MaxTokens] /\ issued \in 0..MaxTokens
  BY DEF AccountsTypeOK
<1>3. QED
  BY <1>1, <1>2

LEMMA RequestParts ==
  ASSUME AccountsTypeOK, NEW r \in Requests
  PROVE  /\ request[r].step \in {"verified", "selected", "written"} =>
              request[r] # NoRequest /\ request[r].client \in Clients
         /\ request[r].step \in {"selected", "written"} =>
              request[r].id \in SessionIds
         /\ request[r].step = "written" => request[r].token \in SessionIds
<1>1. request[r] # NoRequest \/ request[r].step = "none"
  BY DEF NoRequest
<1>2. QED
  BY <1>1, TypeParts, RequestShape
     DEF Verified, Selected, Written, SessionIds

LEMMA OneRequest ==
  ASSUME AccountsTypeOK, NEW r \in Requests, NEW v,
         request' = [request EXCEPT ![r] = v]
  PROVE  /\ request'[r] = v
         /\ \A s \in Requests \ {r} : request'[s] = request[s]
BY DEF AccountsTypeOK

LEMMA PendingStep ==
  ASSUME NEW r \in Requests, NEW c,
         \A s \in Requests \ {r} : request'[s] = request[s]
  PROVE  /\ Pending(c)' \ {r} = Pending(c) \ {r}
         /\ r \in Pending(c)' <=> request'[r] # NoRequest /\ request'[r].client = c
         /\ r \in Pending(c) <=> request[r] # NoRequest /\ request[r].client = c
BY DEF Pending

LEMMA PendingSame ==
  ASSUME NEW r \in Requests, NEW c,
         \A s \in Requests \ {r} : request'[s] = request[s],
         request[r] # NoRequest, request'[r] # NoRequest,
         request'[r].client = request[r].client
  PROVE  Pending(c)' = Pending(c)
<1>1. \A s \in Requests : s \in Pending(c)' <=> s \in Pending(c)
  BY DEF Pending
<1>2. Pending(c)' \subseteq Requests /\ Pending(c) \subseteq Requests
  BY DEF Pending
<1>3. QED
  BY <1>1, <1>2

(* A login or a refresh begins: a client that had none under way relies on *)
(* its session as before.                                                  *)
LEMMA GoodSelect ==
  ASSUME AccountsTypeOK, GoodInv, NEW r \in Requests, NEW c0 \in Clients,
         RefreshSelect(r, c0) \/ \E u \in Users : LoginSelect(r, c0, u)
  PROVE  GoodInv'
<1>1. /\ request[r] = NoRequest /\ NotGoodIfBusy(c0)
      /\ UNCHANGED <<token, fresh, issued, held>>
  BY DEF RefreshSelect, LoginSelect, sessionVars, clientVars
<1>2. /\ request'[r] # NoRequest /\ request'[r].client = c0
      /\ \/ request'[r].step = "verified"
         \/ /\ request'[r].step = "selected"
            /\ request'[r].id \in SessionIds
            /\ Accepts(request'[r].id)
            /\ token[request'[r].id] = held[c0]
      /\ \A s \in Requests \ {r} : request'[s] = request[s]
  <2>1. CASE RefreshSelect(r, c0)
    <3>1. PICK i \in SessionIds :
            /\ Accepts(i) /\ token[i] = held[c0]
            /\ request' = [request EXCEPT ![r] =
                 [step |-> "selected", client |-> c0, id |-> i,
                  claims |-> [user |-> owner[i], role |-> role[owner[i]]]]]
      BY <2>1 DEF RefreshSelect
    <3>2. /\ request'[r] = [step |-> "selected", client |-> c0, id |-> i,
                  claims |-> [user |-> owner[i], role |-> role[owner[i]]]]
          /\ \A s \in Requests \ {r} : request'[s] = request[s]
      BY <3>1, OneRequest
    <3>3. /\ request'[r].step = "selected" /\ request'[r].client = c0
          /\ request'[r].id = i
      BY <3>2
    <3>4. QED
      BY <3>1, <3>2, <3>3 DEF NoRequest
  <2>2. ASSUME NEW u \in Users, LoginSelect(r, c0, u)
        PROVE  /\ request'[r].step = "verified" /\ request'[r].client = c0
               /\ \A s \in Requests \ {r} : request'[s] = request[s]
    <3>1. request' = [request EXCEPT ![r] =
               [step |-> "verified", client |-> c0,
                claims |-> [user |-> u, role |-> role[u]]]]
      BY <2>2 DEF LoginSelect
    <3>2. /\ request'[r] = [step |-> "verified", client |-> c0,
                claims |-> [user |-> u, role |-> role[u]]]
          /\ \A s \in Requests \ {r} : request'[s] = request[s]
      BY <3>1, OneRequest
    <3>3. QED
      BY <3>2
  <2>3. QED
    BY <2>1, <2>2 DEF NoRequest
<1>3. request[r].step = "none"
  BY <1>1 DEF NoRequest
<1>4. IssuedSoFar'
  <2>1. request'[r].step = "selected" => request'[r].id <= issued
    BY <1>2 DEF GoodInv, IssuedSoFar, Accepts
  <2>2. QED
    BY <1>1, <1>2, <2>1 DEF GoodInv, IssuedSoFar
<1>5. ASSUME NEW s \in Requests PROVE Untouched(s)'
  <2>1. CASE s = r
    BY <1>2, <2>1 DEF Untouched
  <2>2. CASE s # r /\ ~(request[s].step = "written"
                        /\ request[s].id = request[s].token)
    BY <1>2, <2>2 DEF Untouched
  <2>3. CASE s # r /\ request[s].step = "written"
                   /\ request[s].id = request[s].token
    <3>1. request'[s] = request[s]
      BY <1>2, <2>3
    <3>2. /\ token[request[s].id] \in {0, request[s].id}
          /\ NobodyElse(request[s].id, request[s].id, {}, {s})
      BY <2>3 DEF GoodInv, Untouched
    <3>3. request'[r].step = "selected" => request'[r].id # request[s].id
      BY <1>2, <3>2 DEF NobodyElse, Accepts
    <3>4. QED
      BY <1>1, <1>2, <3>1, <3>2, <3>3 DEF Untouched, NobodyElse
  <2>4. QED
    BY <2>1, <2>2, <2>3
<1>6. ASSUME NEW c \in Clients PROVE Relies(c)'
  <2> SUFFICES ASSUME good'[c] # 0 PROVE Relies(c)'
    BY DEF Relies
  <2>1. good'[c] = good[c] /\ (c = c0 => Pending(c) = {})
    BY <1>1, Numbers DEF NotGoodIfBusy
  <2>2. /\ good[c] \in SessionIds /\ Accepts(good[c]) /\ HasToken(c)
        /\ NobodyElse(good[c], token[good[c]], {c}, Pending(c))
    BY <2>1 DEF GoodInv, Relies
  <2>3. r \notin Pending(c) /\ Pending(c)' \ {r} = Pending(c)
    BY <1>1, <1>2, PendingStep
  <2>4. CASE c # c0
    <3>1. Pending(c)' = Pending(c)
      BY <1>2, <2>3, <2>4, PendingStep
    <3>2. HasToken(c)'
      BY <1>1, <1>2, <2>1, <2>2, <2>3, <3>1 DEF HasToken, Pending
    <3>3. request'[r].step = "selected" => request'[r].id # good[c]
      BY <1>2, <2>2, <2>4 DEF NobodyElse
    <3>4. NobodyElse(good[c], token[good[c]], {c}, Pending(c))'
      BY <1>1, <1>2, <2>1, <2>2, <3>1, <3>3 DEF NobodyElse
    <3>5. QED
      BY <1>1, <2>1, <2>2, <3>2, <3>4 DEF Relies, Accepts
  <2>5. CASE c = c0
    <3>1. Pending(c) = {} /\ Pending(c)' = {r} /\ held[c] = token[good[c]]
      BY <1>2, <2>1, <2>2, <2>3, <2>5, PendingStep DEF HasToken
    <3>2. request'[r].step = "selected" => request'[r].id = good[c]
      BY <1>2, <2>2, <2>5, <3>1 DEF GoodInv, IssuedSoFar, Accepts
    <3>3. HasToken(c)'
      BY <1>1, <1>2, <2>1, <3>1, <3>2 DEF HasToken
    <3>4. NobodyElse(good[c], token[good[c]], {c}, Pending(c))'
      BY <1>1, <1>2, <2>1, <2>2, <3>1 DEF NobodyElse
    <3>5. QED
      BY <1>1, <2>1, <2>2, <3>3, <3>4 DEF Relies, Accepts
  <2>6. QED
    BY <2>4, <2>5
<1>7. QED
  BY <1>4, <1>5, <1>6 DEF GoodInv

(* A request ends and tells its client nothing it needs.                   *)
LEMMA GoodWithdraw ==
  ASSUME AccountsTypeOK, GoodInv, NEW r \in Requests,
         request[r] # NoRequest,
         request' = [request EXCEPT ![r] = NoRequest],
         UNCHANGED <<token, fresh, issued, held>>,
         \A c \in Clients :
           /\ good'[c] # 0 => good'[c] = good[c]
           /\ good'[c] # 0 /\ r \in Pending(c) => request[r].step # "written"
  PROVE  GoodInv'
<1>1. /\ request'[r] = NoRequest /\ request'[r].step = "none"
      /\ \A s \in Requests \ {r} : request'[s] = request[s]
  <2>1. /\ request'[r] = NoRequest
        /\ \A s \in Requests \ {r} : request'[s] = request[s]
    BY OneRequest
  <2>2. QED
    BY <2>1 DEF NoRequest
<1>2. IssuedSoFar'
  BY <1>1 DEF GoodInv, IssuedSoFar
<1>3. ASSUME NEW s \in Requests PROVE Untouched(s)'
  BY <1>1 DEF GoodInv, Untouched, NobodyElse
<1>4. ASSUME NEW c \in Clients PROVE Relies(c)'
  <2> SUFFICES ASSUME good'[c] # 0 PROVE Relies(c)'
    BY DEF Relies
  <2>1. good'[c] = good[c]
    OBVIOUS
  <2>2. /\ good[c] \in SessionIds /\ Accepts(good[c]) /\ HasToken(c)
        /\ NobodyElse(good[c], token[good[c]], {c}, Pending(c))
    BY <2>1 DEF GoodInv, Relies
  <2>3. Pending(c)' = Pending(c) \ {r}
    BY <1>1, PendingStep
  <2>4. HasToken(c)'
    <3>1. CASE r \in Pending(c)
      BY <1>1, <2>1, <2>2, <2>3, <3>1 DEF HasToken
    <3>2. CASE r \notin Pending(c)
      BY <1>1, <2>1, <2>2, <2>3, <3>2 DEF HasToken, Pending
    <3>3. QED
      BY <3>1, <3>2
  <2>5. NobodyElse(good[c], token[good[c]], {c}, Pending(c))'
    BY <1>1, <2>1, <2>2, <2>3 DEF NobodyElse
  <2>6. QED
    BY <2>1, <2>2, <2>4, <2>5 DEF Relies, Accepts
<1>5. QED
  BY <1>2, <1>3, <1>4 DEF GoodInv

(* The INSERT of a login: a session, and a token, that nobody has seen.    *)
LEMMA GoodInsert ==
  ASSUME AccountsTypeOK, GoodInv, NEW r \in Requests, LoginInsert(r),
         issued' = issued + 1
  PROVE  GoodInv'
<1> DEFINE t == issued + 1
<1>1. /\ request[r].step = "verified"
      /\ t \in SessionIds
      /\ token' = [token EXCEPT ![t] = t]
      /\ fresh' = fresh \cup {t}
      /\ UNCHANGED <<held, good>>
      /\ request' = [request EXCEPT ![r] =
           [step |-> "written", client |-> request[r].client,
            claims |-> request[r].claims, id |-> t, token |-> t]]
  <2>1. issued' # issued
    BY Numbers
  <2>2. QED
    BY <2>1 DEF LoginInsert, sessionVars, clientVars, SessionIds
<1>2. /\ request'[r].step = "written" /\ request'[r].client = request[r].client
      /\ request'[r].id = t /\ request'[r].token = t
      /\ request'[r] # NoRequest /\ request[r] # NoRequest
      /\ \A s \in Requests \ {r} : request'[s] = request[s]
  <2>1. /\ request'[r] = [step |-> "written", client |-> request[r].client,
                          claims |-> request[r].claims, id |-> t, token |-> t]
        /\ \A s \in Requests \ {r} : request'[s] = request[s]
    BY <1>1, OneRequest
  <2>2. QED
    BY <1>1, <2>1 DEF NoRequest
<1>3. /\ token'[t] = t /\ \A i \in SessionIds \ {t} : token'[i] = token[i]
      /\ issued \in Nat /\ issued < t /\ SessionIds \subseteq Nat \ {0}
      /\ issued' = t
  BY <1>1, Numbers
<1> HIDE DEF t
<1>4. IssuedSoFar
  BY DEF GoodInv
<1>5. /\ \A i \in SessionIds : token[i] \in Nat /\ token[i] <= issued /\ token[i] # t
      /\ \A i \in SessionIds : token[i] # 0 => i <= issued /\ i # t
      /\ \A c \in Clients : held[c] \in Nat /\ held[c] <= issued /\ held[c] # t
      /\ \A s \in Requests :
           /\ request[s].step = "selected" => request[s].id <= issued /\ request[s].id # t
           /\ request[s].step = "written" => /\ request[s].id <= issued
                                             /\ request[s].id # t
                                             /\ request[s].token <= issued
                                             /\ request[s].token # t
  <2>1. \A n \in Nat : n <= issued => n < t /\ n # t
    BY <1>3
  <2>2. \A s \in Requests :
          /\ request[s].step = "selected" => request[s].id \in Nat
          /\ request[s].step = "written" => request[s].id \in Nat /\ request[s].token \in Nat
    BY <1>3, RequestParts
  <2>3. QED
    BY <1>3, <1>4, <2>1, <2>2, Numbers DEF IssuedSoFar
<1>6. IssuedSoFar'
  <2>1. \A n \in Nat : n <= issued => n <= issued'
    BY <1>3
  <2>2. t \in Nat /\ t <= issued'
    BY <1>3
  <2>3. \A i \in SessionIds : token'[i] <= issued' /\ (token'[i] # 0 => i <= issued')
    BY <1>3, <1>5, <2>1, <2>2
  <2>4. \A i, j \in SessionIds : token'[i] = token'[j] /\ token'[i] # 0 => i = j
    BY <1>3, <1>4, <1>5 DEF IssuedSoFar
  <2>5. \A s \in Requests :
          /\ request'[s].step = "selected" => request'[s].id <= issued'
          /\ request'[s].step = "written" => /\ request'[s].id <= issued'
                                             /\ request'[s].token <= issued'
    BY <1>2, <1>5, <2>1, <2>2, <1>3, RequestParts
  <2>6. QED
    BY <1>1, <1>5, <2>1, <2>3, <2>4, <2>5 DEF IssuedSoFar
<1>7. ASSUME NEW s \in Requests PROVE Untouched(s)'
  <2>1. CASE s = r
    BY <1>1, <1>2, <1>3, <1>5, <2>1 DEF Untouched, NobodyElse
  <2>2. CASE s # r /\ request[s].step = "written"
                   /\ request[s].id = request[s].token
    <3>1. request'[s] = request[s] /\ request[s].id \in SessionIds \ {t}
      BY <1>2, <1>5, <2>2, RequestParts
    <3>2. /\ token[request[s].id] \in {0, request[s].id}
          /\ NobodyElse(request[s].id, request[s].id, {}, {s})
      BY <2>2 DEF GoodInv, Untouched
    <3>3. QED
      BY <1>1, <1>2, <1>3, <3>1, <3>2 DEF Untouched, NobodyElse
  <2>3. CASE s # r /\ ~(request[s].step = "written"
                        /\ request[s].id = request[s].token)
    BY <1>2, <2>3 DEF Untouched
  <2>4. QED
    BY <2>1, <2>2, <2>3
<1>8. ASSUME NEW c \in Clients PROVE Relies(c)'
  <2> SUFFICES ASSUME good'[c] # 0 PROVE Relies(c)'
    BY DEF Relies
  <2>1. good'[c] = good[c]
    BY <1>1
  <2>2. /\ good[c] \in SessionIds /\ Accepts(good[c]) /\ HasToken(c)
        /\ NobodyElse(good[c], token[good[c]], {c}, Pending(c))
    BY <2>1 DEF GoodInv, Relies
  <2>3. good[c] # t /\ token'[good[c]] = token[good[c]] /\ token[good[c]] # t
    BY <1>3, <1>5, <2>2 DEF Accepts
  <2>4. Pending(c)' = Pending(c)
    BY <1>2, PendingSame
  <2>5. HasToken(c)'
    <3>1. CASE r \in Pending(c)
      BY <1>1, <1>2, <2>1, <2>2, <2>3, <2>4, <3>1 DEF HasToken
    <3>2. CASE r \notin Pending(c)
      BY <1>1, <1>2, <2>1, <2>2, <2>3, <2>4, <3>2 DEF HasToken, Pending
    <3>3. QED
      BY <3>1, <3>2
  <2>6. NobodyElse(good[c], token[good[c]], {c}, Pending(c))'
    BY <1>1, <1>2, <2>1, <2>2, <2>3, <2>4 DEF NobodyElse
  <2>7. QED
    BY <1>1, <2>1, <2>2, <2>3, <2>5, <2>6 DEF Relies, Accepts
<1>9. QED
  BY <1>6, <1>7, <1>8 DEF GoodInv

(* The UPDATE of a refresh: only the session's client has it in hand.      *)
LEMMA GoodUpdate ==
  ASSUME AccountsTypeOK, GoodInv, NEW r \in Requests, RefreshUpdate(r)
  PROVE  GoodInv'
<1> DEFINE n == issued + 1
           i == request[r].id
<1>1. /\ request[r].step = "selected" /\ i \in SessionIds
      /\ n \in Tokens
      /\ token' = [token EXCEPT ![i] = IF @ = 0 THEN 0 ELSE n]
      /\ fresh' = IF token[i] = 0 THEN fresh ELSE fresh \cup {i}
      /\ UNCHANGED <<held, good>>
      /\ request' = [request EXCEPT ![r] =
           [step |-> "written", client |-> request[r].client,
            claims |-> request[r].claims, id |-> i, token |-> n]]
  BY RequestParts DEF RefreshUpdate, clientVars
<1>2. /\ request'[r].step = "written" /\ request'[r].client = request[r].client
      /\ request'[r].id = i /\ request'[r].token = n
      /\ request'[r] # NoRequest /\ request[r] # NoRequest
      /\ \A s \in Requests \ {r} : request'[s] = request[s]
  <2>1. /\ request'[r] = [step |-> "written", client |-> request[r].client,
                          claims |-> request[r].claims, id |-> i, token |-> n]
        /\ \A s \in Requests \ {r} : request'[s] = request[s]
    BY <1>1, OneRequest
  <2>2. QED
    BY <1>1, <2>1 DEF NoRequest
<1>3. /\ token'[i] = IF token[i] = 0 THEN 0 ELSE n
      /\ \A j \in SessionIds \ {i} : token'[j] = token[j]
      /\ fresh \subseteq fresh' /\ (token[i] # 0 => i \in fresh')
      /\ issued \in Nat /\ n \in Nat /\ issued < n /\ SessionIds \subseteq Nat \ {0}
      /\ issued' = n
  BY <1>1, Numbers DEF RefreshUpdate
<1> HIDE DEF n, i
<1>4. IssuedSoFar
  BY DEF GoodInv
<1>5. /\ \A j \in SessionIds : token[j] \in Nat /\ token[j] <= issued /\ token[j] # n
      /\ \A j \in SessionIds : token[j] # 0 => j <= issued
      /\ \A c \in Clients : held[c] \in Nat /\ held[c] <= issued /\ held[c] # n
      /\ i <= issued /\ i # n
      /\ \A s \in Requests :
           /\ request[s].step = "selected" => request[s].id <= issued
           /\ request[s].step = "written" => /\ request[s].id <= issued
                                             /\ request[s].id # n
                                             /\ request[s].token <= issued
                                             /\ request[s].token # n
  <2>1. \A m \in Nat : m <= issued => m # n
    BY <1>3
  <2>2. \A s \in Requests :
          /\ request[s].step = "selected" => request[s].id \in Nat
          /\ request[s].step = "written" => request[s].id \in Nat /\ request[s].token \in Nat
    BY <1>3, RequestParts
  <2>3. i <= issued
    BY <1>1, <1>4 DEF IssuedSoFar, i
  <2>4. QED
    BY <1>1, <1>3, <1>4, <2>1, <2>2, <2>3, Numbers DEF IssuedSoFar
<1>6. IssuedSoFar'
  <2>1. \A m \in Nat : m <= issued => m <= issued'
    BY <1>3
  <2>2. n \in Nat /\ n <= issued' /\ 0 <= issued' /\ i <= issued'
    BY <1>1, <1>3, <1>5
  <2>3. \A j \in SessionIds : token'[j] <= issued' /\ (token'[j] # 0 => j <= issued')
    BY <1>3, <1>5, <2>1, <2>2
  <2>4. \A j, k \in SessionIds : token'[j] = token'[k] /\ token'[j] # 0 => j = k
    BY <1>3, <1>4, <1>5 DEF IssuedSoFar
  <2>5. \A s \in Requests :
          /\ request'[s].step = "selected" => request'[s].id <= issued'
          /\ request'[s].step = "written" => /\ request'[s].id <= issued'
                                             /\ request'[s].token <= issued'
    BY <1>2, <1>5, <2>1, <2>2, <1>3, RequestParts
  <2>6. QED
    BY <1>1, <1>5, <2>1, <2>3, <2>4, <2>5 DEF IssuedSoFar
<1>7. ASSUME NEW s \in Requests PROVE Untouched(s)'
  <2>1. CASE s = r
    BY <1>2, <1>5, <2>1 DEF Untouched
  <2>2. CASE s # r /\ request[s].step = "written"
                   /\ request[s].id = request[s].token
    <3>1. request'[s] = request[s] /\ request[s].id \in SessionIds /\ request[s].id # n
      BY <1>2, <1>5, <2>2, RequestParts
    <3>2. /\ token[request[s].id] \in {0, request[s].id}
          /\ NobodyElse(request[s].id, request[s].id, {}, {s})
      BY <2>2 DEF GoodInv, Untouched
    <3>3. request[s].id # i
      BY <1>1, <2>2, <3>2 DEF NobodyElse, i
    <3>4. QED
      BY <1>1, <1>2, <1>3, <3>1, <3>2, <3>3 DEF Untouched, NobodyElse
  <2>3. CASE s # r /\ ~(request[s].step = "written"
                        /\ request[s].id = request[s].token)
    BY <1>2, <2>3 DEF Untouched
  <2>4. QED
    BY <2>1, <2>2, <2>3
<1>8. ASSUME NEW c \in Clients PROVE Relies(c)'
  <2> SUFFICES ASSUME good'[c] # 0 PROVE Relies(c)'
    BY DEF Relies
  <2>1. good'[c] = good[c]
    BY <1>1
  <2>2. /\ good[c] \in SessionIds /\ Accepts(good[c]) /\ HasToken(c)
        /\ NobodyElse(good[c], token[good[c]], {c}, Pending(c))
    BY <2>1 DEF GoodInv, Relies
  <2>3. Pending(c)' = Pending(c)
    BY <1>2, PendingSame
  <2>4. CASE r \in Pending(c)
    <3>1. i = good[c] /\ Pending(c) = {r}
      BY <1>1, <2>2, <2>4 DEF HasToken, i
    <3>2. token'[good[c]] = n /\ good[c] \in fresh' /\ n # 0
      BY <1>1, <1>3, <2>2, <3>1 DEF Accepts
    <3>3. HasToken(c)'
      BY <1>2, <1>5, <2>1, <2>3, <3>1, <3>2 DEF HasToken
    <3>4. NobodyElse(good[c], token[good[c]], {c}, Pending(c))'
      BY <1>1, <1>2, <1>5, <2>1, <2>2, <2>3, <3>1, <3>2 DEF NobodyElse
    <3>5. QED
      BY <2>1, <2>2, <3>2, <3>3, <3>4 DEF Relies, Accepts
  <2>5. CASE r \notin Pending(c)
    <3>1. i # good[c]
      BY <1>1, <2>2, <2>5 DEF NobodyElse, i
    <3>2. token'[good[c]] = token[good[c]] /\ token[good[c]] # n
      BY <1>3, <1>5, <2>2, <3>1
    <3>3. HasToken(c)'
      BY <1>1, <1>2, <2>1, <2>2, <2>3, <2>5, <3>2 DEF HasToken, Pending
    <3>4. NobodyElse(good[c], token[good[c]], {c}, Pending(c))'
      BY <1>1, <1>2, <2>1, <2>2, <2>3, <3>2 DEF NobodyElse
    <3>5. QED
      BY <1>3, <2>1, <2>2, <3>2, <3>3, <3>4 DEF Relies, Accepts
  <2>6. QED
    BY <2>4, <2>5
<1>9. QED
  BY <1>6, <1>7, <1>8 DEF GoodInv

(* The answer arrives.                                                     *)
LEMMA GoodRespond ==
  ASSUME AccountsTypeOK, GoodInv, NEW r \in Requests, Respond(r)
  PROVE  GoodInv'
<1> DEFINE c0 == request[r].client
           i == request[r].id
           t == request[r].token
<1>1. /\ request[r].step = "written" /\ request[r] # NoRequest
      /\ c0 \in Clients /\ i \in SessionIds /\ t \in SessionIds
  BY RequestParts DEF Respond
<1>2. /\ request' = [request EXCEPT ![r] = NoRequest]
      /\ held' = [held EXCEPT ![c0] = t]
      /\ good' = [good EXCEPT ![c0] =
                    IF i = t
                    THEN IF Pending(c0) = {r} /\ Accepts(i) THEN i ELSE 0
                    ELSE @]
      /\ UNCHANGED <<token, fresh, issued>>
  BY DEF Respond, sessionVars
<1>3. /\ request'[r] = NoRequest
      /\ \A s \in Requests \ {r} : request'[s] = request[s]
  BY <1>2, OneRequest
<1>4. request'[r].step = "none"
  BY <1>3 DEF NoRequest
<1>5. /\ held'[c0] = t
      /\ \A d \in Clients \ {c0} : held'[d] = held[d] /\ good'[d] = good[d]
      /\ good'[c0] = IF i = t
                     THEN IF Pending(c0) = {r} /\ Accepts(i) THEN i ELSE 0
                     ELSE good[c0]
  BY <1>1, <1>2, Numbers
<1> HIDE DEF c0, i, t
<1>6. IssuedSoFar'
  <2>1. t <= issued
    BY <1>1 DEF GoodInv, IssuedSoFar, t
  <2>2. QED
    BY <1>1, <1>2, <1>3, <1>4, <1>5, <2>1 DEF GoodInv, IssuedSoFar
<1>7. ASSUME NEW s \in Requests PROVE Untouched(s)'
  <2>1. CASE s = r
    BY <1>4, <2>1 DEF Untouched
  <2>2. CASE s # r
    <3>1. Untouched(s) /\ request'[s] = request[s]
      BY <1>3, <2>2 DEF GoodInv
    <3>2. request[s].step = "written" /\ request[s].id = request[s].token
            => request[s].id # t
      BY <1>1, <2>2, <3>1 DEF Untouched, NobodyElse, t
    <3>3. QED
      BY <1>2, <1>3, <1>4, <1>5, <3>1, <3>2 DEF Untouched, NobodyElse
  <2>3. QED
    BY <2>1, <2>2
<1>8. ASSUME NEW c \in Clients PROVE Relies(c)'
  <2> SUFFICES ASSUME good'[c] # 0 PROVE Relies(c)'
    BY DEF Relies
  <2>1. Pending(c)' = Pending(c) \ {r}
    BY <1>3, PendingStep
  <2>2. r \in Pending(c) <=> c = c0
    BY <1>1 DEF Pending, c0
  <2>3. CASE good'[c] = good[c] /\ ~(c = c0 /\ i = t)
    <3>1. /\ good[c] \in SessionIds /\ Accepts(good[c]) /\ HasToken(c)
          /\ NobodyElse(good[c], token[good[c]], {c}, Pending(c))
      BY <2>3 DEF GoodInv, Relies
    <3>2. HasToken(c)'
      <4>1. CASE c = c0
        BY <1>1, <1>2, <1>5, <2>1, <2>2, <2>3, <3>1, <4>1 DEF HasToken, i, t
      <4>2. CASE c # c0
        BY <1>2, <1>3, <1>5, <2>1, <2>2, <2>3, <3>1, <4>2 DEF HasToken, Pending
      <4>3. QED
        BY <4>1, <4>2
    <3>3. c # c0 => t # token[good[c]]
      BY <1>1, <2>2, <3>1 DEF NobodyElse, t
    <3>4. NobodyElse(good[c], token[good[c]], {c}, Pending(c))'
      BY <1>2, <1>3, <1>4, <1>5, <2>1, <2>3, <3>1, <3>3 DEF NobodyElse
    <3>5. QED
      BY <1>2, <2>3, <3>1, <3>2, <3>4 DEF Relies, Accepts
  <2>4. CASE c = c0 /\ i = t
    <3>1. /\ Pending(c) = {r} /\ Accepts(i) /\ good'[c] = i /\ held'[c] = i
      BY <1>5, <2>4
    <3>2. token[i] = i /\ NobodyElse(i, i, {}, {r})
      BY <1>1, <2>4, <3>1 DEF GoodInv, Untouched, Accepts, i, t
    <3>3. Pending(c)' = {}
      BY <2>1, <3>1
    <3>4. HasToken(c)'
      BY <1>2, <3>1, <3>2, <3>3 DEF HasToken
    <3>5. NobodyElse(good[c], token[good[c]], {c}, Pending(c))'
      BY <1>2, <1>3, <1>4, <1>5, <2>4, <3>1, <3>2, <3>3 DEF NobodyElse
    <3>6. QED
      BY <1>1, <1>2, <3>1, <3>4, <3>5 DEF Relies, Accepts
  <2>5. QED
    BY <1>5, <2>3, <2>4
<1>9. QED
  BY <1>6, <1>7, <1>8 DEF GoodInv

(* Sessions end, and with them what their clients relied on.               *)
LEMMA GoodEnd ==
  ASSUME AccountsTypeOK, GoodInv,
         UNCHANGED <<issued, request, held>>,
         \A i \in SessionIds : token'[i] = 0 \/ token'[i] = token[i],
         \A c \in Clients : good'[c] # 0 =>
           /\ good'[c] = good[c]
           /\ good[c] \in SessionIds => token'[good[c]] = token[good[c]]
           /\ good[c] \in fresh => good[c] \in fresh'
  PROVE  GoodInv'
<1>1. issued \in Nat
  BY Numbers
<1>2. IssuedSoFar'
  BY <1>1 DEF GoodInv, IssuedSoFar
<1>3. ASSUME NEW r \in Requests PROVE Untouched(r)'
  BY RequestParts DEF GoodInv, Untouched, NobodyElse
<1>4. ASSUME NEW c \in Clients PROVE Relies(c)'
  <2> SUFFICES ASSUME good'[c] # 0 PROVE Relies(c)'
    BY DEF Relies
  <2>1. /\ good[c] \in SessionIds /\ Accepts(good[c]) /\ HasToken(c)
        /\ NobodyElse(good[c], token[good[c]], {c}, Pending(c))
        /\ good'[c] = good[c]
    BY DEF GoodInv, Relies
  <2>2. Accepts(good[c])' /\ token'[good[c]] = token[good[c]]
    BY <2>1 DEF Accepts
  <2>3. Pending(c)' = Pending(c)
    BY DEF Pending
  <2>4. HasToken(c)' /\ NobodyElse(good[c], token[good[c]], {c}, Pending(c))'
    BY <2>1, <2>2, <2>3 DEF HasToken, NobodyElse
  <2>5. QED
    BY <2>1, <2>2, <2>4 DEF Relies
<1>5. QED
  BY <1>2, <1>3, <1>4 DEF GoodInv

LEMMA GoodEndSessions ==
  ASSUME AccountsTypeOK, GoodInv, NEW S, EndSessions(S),
         UNCHANGED <<issued, request, held>>
  PROVE  GoodInv'
<1>1. \A i \in SessionIds : token'[i] = IF i \in S THEN 0 ELSE token[i]
  BY DEF EndSessions
<1>2. \A c \in Clients : good'[c] # 0 => good'[c] = good[c] /\ good[c] \notin S
  BY DEF EndSessions
<1>3. fresh' = fresh \ S
  BY DEF EndSessions
<1>4. QED
  BY <1>1, <1>2, <1>3, GoodEnd

LEMMA GoodStep ==
  ASSUME AccountsTypeOK, GoodInv, [AccountsNext]_accountsVars
  PROVE  GoodInv'
<1>1. CASE UNCHANGED <<token, fresh, issued, request, held, good>>
  BY <1>1, GoodEnd
<1>2. ASSUME NEW r \in Requests, LoginInsert(r) PROVE GoodInv'
  <2>1. CASE issued' = issued + 1
    BY <1>2, <2>1, GoodInsert
  <2>2. CASE issued' # issued + 1
    <3>1. /\ request[r].step = "verified"
          /\ request' = [request EXCEPT ![r] = NoRequest]
          /\ UNCHANGED <<token, fresh, issued, held, good>>
      BY <1>2, <2>2 DEF LoginInsert, sessionVars, clientVars
    <3>2. QED
      BY <3>1, GoodWithdraw, RequestParts
  <2>3. QED
    BY <2>1, <2>2
<1>3. ASSUME NEW r \in Requests, NoAnswer(r) PROVE GoodInv'
  <2>1. /\ request[r] # NoRequest
        /\ request' = [request EXCEPT ![r] = NoRequest]
        /\ UNCHANGED <<token, fresh, issued, held>>
    BY <1>3 DEF NoAnswer, sessionVars, clientVars
  <2>2. ASSUME NEW c \in Clients, good'[c] # 0
        PROVE  /\ good'[c] = good[c]
               /\ r \in Pending(c) => request[r].step # "written"
    <3>1. CASE request[r].step # "written"
      BY <1>3, <3>1 DEF NoAnswer
    <3>2. CASE request[r].step = "written"
      <4>1. good' = [good EXCEPT ![request[r].client] = 0]
        BY <1>3, <3>2 DEF NoAnswer
      <4>2. c # request[r].client /\ good'[c] = good[c]
        BY <2>2, <4>1, Numbers
      <4>3. QED
        BY <4>2 DEF Pending
    <3>3. QED
      BY <3>1, <3>2
  <2>3. QED
    BY <2>1, <2>2, GoodWithdraw
<1>4. ASSUME NEW i \in SessionIds, SessionExpires(i) PROVE GoodInv'
  <2>1. /\ UNCHANGED <<token, issued, request, held>>
        /\ fresh' = fresh \ {i}
        /\ \A c \in Clients : good'[c] # 0 => good'[c] = good[c] /\ good[c] # i
    BY <1>4 DEF SessionExpires, clientVars
  <2>2. QED
    BY <2>1, GoodEnd
<1>5. ASSUME NEW c \in Clients,
             Logout(c) \/ \E u \in Users : DeleteUser(c, u)
      PROVE  GoodInv'
  <2>1. UNCHANGED <<issued, request, held>> /\ \E S : EndSessions(S)
    BY <1>5 DEF Logout, DeleteUser, clientVars
  <2>2. QED
    BY <2>1, GoodEndSessions
<1>6. CASE UNCHANGED accountsVars
  BY <1>1, <1>6 DEF accountsVars, sessionVars, clientVars
<1>7. ASSUME NEW c \in Clients,
             \/ AccessExpires(c)
             \/ \E u \in Users, new \in Roles :
                  CreateUser(c, u, new) \/ UpdateUser(c, u, new)
      PROVE  GoodInv'
  BY <1>1, <1>7
     DEF AccessExpires, CreateUser, UpdateUser, sessionVars, clientVars
<1>8. QED
  BY <1>2, <1>3, <1>4, <1>5, <1>6, <1>7, GoodSelect, GoodUpdate, GoodRespond
     DEF AccountsNext

(* A client that sends one request at a time, has had every answer, and    *)
(* whose session nobody ended can refresh, whatever other clients and      *)
(* other sessions of the same user do.                                     *)
THEOREM AccountsSignedInStays == AccountsSpec => []SignedInStays
<1>1. AccountsInit => GoodInv
  <2> SUFFICES ASSUME AccountsInit PROVE GoodInv
    OBVIOUS
  <2>1. IssuedSoFar
    BY DEF AccountsInit, IssuedSoFar, NoRequest
  <2>2. \A r \in Requests : Untouched(r)
    BY DEF AccountsInit, Untouched, NoRequest
  <2>3. \A c \in Clients : Relies(c)
    BY DEF AccountsInit, Relies
  <2>4. QED
    BY <2>1, <2>2, <2>3 DEF GoodInv
<1>2. GoodInv => SignedInStays
  <2> SUFFICES ASSUME GoodInv, NEW c \in Clients, good[c] # 0
               PROVE  /\ Accepts(good[c])
                      /\ \/ token[good[c]] = held[c]
                         \/ \E r \in Pending(c) :
                              /\ request[r].step = "written"
                              /\ request[r].id = good[c]
                              /\ token[good[c]] = request[r].token
    BY DEF SignedInStays
  <2>1. Accepts(good[c]) /\ HasToken(c)
    BY DEF GoodInv, Relies
  <2>2. QED
    BY <2>1 DEF HasToken
<1>3. AccountsSpec => []GoodInv
  BY <1>1, GoodStep, AccountsTypeCorrect, PTL DEF AccountsSpec
<1>4. QED
  BY <1>2, <1>3, PTL
=============================================================================
