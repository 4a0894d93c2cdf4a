------------------------------ MODULE Accounts ------------------------------
(***************************************************************************)
(* Who is signed in: the users and sessions tables of the coordinator, the *)
(* login, refresh and logout handlers (coordinator/src/routes/auth.rs),    *)
(* the user administration (routes/users.rs) and the check of the access   *)
(* token (middleware/auth.rs), which asks no table.                        *)
(*                                                                         *)
(* Login and refresh are each a SELECT, a write, and an answer that may be *)
(* late or lost; a client that hears nothing may send its refresh again.   *)
(* `over` and `good` are history variables: no action reads them.          *)
(***************************************************************************)
EXTENDS Naturals

CONSTANTS Users,        \* user ids the database may assign
          FirstAdmin,   \* the administrator the migration inserts
          Clients,      \* programs that sign in
          Requests,     \* logins and refreshes served at the same time
          MaxTokens,    \* bound: refresh tokens generated
          MaxEdits      \* bound: changes of users, sign-outs and expiries

ASSUME AccountsAssumption ==
  /\ FirstAdmin \in Users
  /\ MaxTokens \in Nat
  /\ MaxEdits \in Nat

(* Nothing here tells an operator from a viewer.                           *)
Roles == {"admin", "other"}
Tokens == 1..MaxTokens

(* A session goes by the number of its first token: a row's id never       *)
(* changes, and no other session ever has that token.                      *)
SessionIds == Tokens

Claims == [user: Users, role: Roles]
NoClaims == [user |-> "nobody"]
NoRequest == [step |-> "none"]
Verified == [step: {"verified"}, client: Clients, claims: Claims]
Selected == [step: {"selected"}, client: Clients, claims: Claims,
             id: SessionIds]
Written == [step: {"written"}, client: Clients, claims: Claims,
            id: SessionIds, token: Tokens]

VARIABLES
  role,      \* the row of each user: its role, "none" before and after
  born,      \* users that have had a row
  owner,     \* sessions.user_id
  token,     \* sessions.token_hash, 0 if the session has no row
  fresh,     \* sessions whose expires_at is ahead
  issued,    \* number of refresh tokens generated
  request,   \* logins and refreshes under way
  held,      \* the refresh token each client keeps, 0 if none
  access,    \* the claims of its access token
  edits,     \* number of edits so far
  over,      \* history: sessions that must not come back
  good       \* history: the session a client may rely on, 0 if none

userVars == <<role, born>>
sessionVars == <<owner, token, fresh, issued>>
clientVars == <<held, access>>
accountsVars == <<userVars, sessionVars, request, clientVars, edits, over,
                  good>>

Edit == edits < MaxEdits /\ edits' = edits + 1

AccountsInit ==
  /\ role = [u \in Users |-> IF u = FirstAdmin THEN "admin" ELSE "none"]
  /\ born = {FirstAdmin}
  /\ owner = [i \in SessionIds |-> FirstAdmin]
  /\ token = [i \in SessionIds |-> 0]
  /\ fresh = {}
  /\ issued = 0
  /\ request = [r \in Requests |-> NoRequest]
  /\ held = [c \in Clients |-> 0]
  /\ access = [c \in Clients |-> NoClaims]
  /\ edits = 0
  /\ over = {}
  /\ good = [c \in Clients |-> 0]

Pending(c) == {r \in Requests : request[r] # NoRequest /\ request[r].client = c}

(* The session refresh finds for a token.                                  *)
Accepts(i) == token[i] # 0 /\ i \in fresh

(* History: a client with two requests at once may get the answers in the  *)
(* wrong order, and keep a token that the other answer replaced.           *)
NotGoodIfBusy(c) ==
  good' = IF Pending(c) = {} THEN good ELSE [good EXCEPT ![c] = 0]

-----------------------------------------------------------------------------
(* login: SELECT the user and verify the password (a wrong one changes     *)
(* nothing) ...                                                            *)
LoginSelect(r, c, u) ==
  /\ request[r] = NoRequest
  /\ role[u] \in Roles
  /\ request' = [request EXCEPT ![r] =
       [step |-> "verified", client |-> c,
        claims |-> [user |-> u, role |-> role[u]]]]
  /\ NotGoodIfBusy(c)
  /\ UNCHANGED <<userVars, sessionVars, clientVars, edits, over>>

(* ... and INSERT the session.  The foreign key refuses it when the user   *)
(* has been deleted in between.                                            *)
LoginInsert(r) ==
  /\ request[r].step = "verified"
  /\ LET u == request[r].claims.user
         t == issued + 1
     IN \/ /\ role[u] \in Roles
           /\ t \in Tokens
           /\ issued' = t
           /\ owner' = [owner EXCEPT ![t] = u]
           /\ token' = [token EXCEPT ![t] = t]
           /\ fresh' = fresh \cup {t}
           /\ request' = [request EXCEPT ![r] =
                [step |-> "written", client |-> request[r].client,
                 claims |-> request[r].claims, id |-> t, token |-> t]]
        \/ /\ role[u] = "none"
           /\ request' = [request EXCEPT ![r] = NoRequest]
           /\ UNCHANGED sessionVars
  /\ UNCHANGED <<userVars, clientVars, edits, over, good>>

(* Mutant: the SELECT of refresh does not look at expires_at.              *)
SelectsExpired(r, c) ==
  /\ request[r] = NoRequest
  /\ \E i \in SessionIds :
       /\ held[c] # 0 /\ token[i] = held[c]
       /\ request' = [request EXCEPT ![r] =
            [step |-> "selected", client |-> c, id |-> i,
             claims |-> [user |-> owner[i], role |-> role[owner[i]]]]]
  /\ NotGoodIfBusy(c)
  /\ UNCHANGED <<userVars, sessionVars, clientVars, edits, over>>

(* refresh: SELECT the session of the token with its user (anything else   *)
(* is answered 401) ...                                                    *)
RefreshSelect(r, c) ==
  /\ request[r] = NoRequest
  /\ \E i \in SessionIds :
       /\ Accepts(i) /\ token[i] = held[c]
       /\ request' = [request EXCEPT ![r] =
            [step |-> "selected", client |-> c, id |-> i,
             claims |-> [user |-> owner[i], role |-> role[owner[i]]]]]
  /\ NotGoodIfBusy(c)
  /\ UNCHANGED <<userVars, sessionVars, clientVars, edits, over>>

(* Mutant: the UPDATE renews the row and keeps the token.                  *)
UpdateKeepsToken(r) ==
  /\ request[r].step = "selected"
  /\ LET i == request[r].id
     IN /\ fresh' = IF token[i] # 0 THEN fresh \cup {i} ELSE fresh
        /\ request' = [request EXCEPT ![r] =
             [step |-> "written", client |-> request[r].client,
              claims |-> request[r].claims, id |-> i,
              token |-> held[request[r].client]]]
  /\ UNCHANGED <<userVars, owner, token, issued, clientVars, edits, over,
                 good>>

(* Mutant: the UPDATE goes by user_id, so that another session of the user *)
(* gets the new token.                                                     *)
UpdateByUser(r) ==
  /\ request[r].step = "selected"
  /\ issued + 1 \in Tokens
  /\ issued' = issued + 1
  /\ LET rows == {i \in SessionIds : /\ token[i] # 0
                                     /\ owner[i] = request[r].claims.user}
         hit == {i \in rows : \A j \in rows : i <= j}
     IN /\ token' = [i \in SessionIds |-> IF i \in hit THEN issued + 1
                                          ELSE token[i]]
        /\ fresh' = fresh \cup hit
        /\ request' = [request EXCEPT ![r] =
             [step |-> "written", client |-> request[r].client,
              claims |-> request[r].claims, id |-> request[r].id,
              token |-> issued + 1]]
  /\ UNCHANGED <<userVars, owner, clientVars, edits, over, good>>

(* ... and UPDATE it by its id.  No row may be left to update: the answer  *)
(* is 200 all the same, with a token nobody will accept.                   *)
RefreshUpdate(r) ==
  /\ request[r].step = "selected"
  /\ issued + 1 \in Tokens
  /\ issued' = issued + 1
  /\ LET i == request[r].id
     IN /\ token' = [token EXCEPT ![i] = IF @ = 0 THEN 0 ELSE issued + 1]
        /\ fresh' = IF token[i] = 0 THEN fresh ELSE fresh \cup {i}
        /\ request' = [request EXCEPT ![r] =
             [step |-> "written", client |-> request[r].client,
              claims |-> request[r].claims, id |-> i, token |-> issued + 1]]
  /\ UNCHANGED <<userVars, owner, clientVars, edits, over, good>>

(* The answer arrives: the client keeps both tokens.  History: it may rely *)
(* on the session it has just opened, if nothing else of it is under way   *)
(* and nobody has closed the session meanwhile.                            *)
Respond(r) ==
  /\ request[r].step = "written"
  /\ LET q == request[r]
         c == q.client
     IN /\ held' = [held EXCEPT ![c] = q.token]
        /\ access' = [access EXCEPT ![c] = q.claims]
        /\ good' = [good EXCEPT ![c] =
             IF q.id = q.token
             THEN IF Pending(c) = {r} /\ Accepts(q.id) THEN q.id ELSE 0
             ELSE @]
  /\ request' = [request EXCEPT ![r] = NoRequest]
  /\ UNCHANGED <<userVars, sessionVars, edits, over>>

(* The connection breaks or a query fails: no answer.                      *)
NoAnswer(r) ==
  /\ request[r] # NoRequest
  /\ request' = [request EXCEPT ![r] = NoRequest]
  /\ good' = IF request[r].step = "written"
             THEN [good EXCEPT ![request[r].client] = 0] ELSE good
  /\ UNCHANGED <<userVars, sessionVars, clientVars, edits, over>>

-----------------------------------------------------------------------------
(* The rows of the sessions S go, for whatever reason.                     *)
EndSessions(S) ==
  /\ token' = [i \in SessionIds |-> IF i \in S THEN 0 ELSE token[i]]
  /\ fresh' = fresh \ S
  /\ over' = over \cup S
  /\ good' = [c \in Clients |-> IF good[c] \in S THEN 0 ELSE good[c]]

SessionsOf(u) == {i \in SessionIds : token[i] # 0 /\ owner[i] = u}

(* logout: every session of the user, on every device.                     *)
Logout(c) ==
  /\ Edit
  /\ access[c] # NoClaims
  /\ EndSessions(SessionsOf(access[c].user))
  /\ UNCHANGED <<userVars, owner, issued, request, clientVars>>

(* Seven days go by without a refresh.  History: a refresh that has        *)
(* selected the session already may still renew it.                        *)
SessionExpires(i) ==
  /\ Edit
  /\ Accepts(i)
  /\ fresh' = fresh \ {i}
  /\ over' = IF \E r \in Requests : /\ request[r].step = "selected"
                                    /\ request[r].id = i
             THEN over ELSE over \cup {i}
  /\ good' = [c \in Clients |-> IF good[c] = i THEN 0 ELSE good[c]]
  /\ UNCHANGED <<userVars, owner, token, issued, request, clientVars>>

(* Fifteen minutes go by: CurrentUser refuses the access token.            *)
AccessExpires(c) ==
  /\ Edit
  /\ access[c] # NoClaims
  /\ access' = [access EXCEPT ![c] = NoClaims]
  /\ UNCHANGED <<userVars, sessionVars, request, held, over, good>>

(* is_admin, of the claims: what the users table says now is not asked.    *)
IsAdmin(c) == access[c] # NoClaims /\ access[c].role = "admin"

CreateUser(c, u, new) ==
  /\ Edit
  /\ IsAdmin(c)
  /\ u \notin born
  /\ role' = [role EXCEPT ![u] = new]
  /\ born' = born \cup {u}
  /\ UNCHANGED <<sessionVars, request, clientVars, over, good>>

(* update_user, as far as roles go: sessions and tokens stay as they are.  *)
UpdateUser(c, u, new) ==
  /\ Edit
  /\ access[c] # NoClaims
  /\ IsAdmin(c) \/ access[c].user = u
  /\ role[u] \in Roles \ {new}
  /\ role' = [role EXCEPT ![u] = new]
  /\ UNCHANGED <<born, sessionVars, request, clientVars, over, good>>

(* delete_user: the sessions go with the user (ON DELETE CASCADE).         *)
DeleteUser(c, u) ==
  /\ Edit
  /\ IsAdmin(c)
  /\ role[u] \in Roles
  /\ role' = [role EXCEPT ![u] = "none"]
  /\ EndSessions(SessionsOf(u))
  /\ UNCHANGED <<born, owner, issued, request, clientVars>>

-----------------------------------------------------------------------------
AccountsNext ==
  \/ \E r \in Requests, c \in Clients :
       RefreshSelect(r, c) \/ \E u \in Users : LoginSelect(r, c, u)
  \/ \E r \in Requests : \/ LoginInsert(r) \/ RefreshUpdate(r) \/ Respond(r)
                         \/ NoAnswer(r)
  \/ \E c \in Clients : Logout(c) \/ AccessExpires(c)
  \/ \E i \in SessionIds : SessionExpires(i)
  \/ \E c \in Clients, u \in Users :
       \/ \E new \in Roles : CreateUser(c, u, new) \/ UpdateUser(c, u, new)
       \/ DeleteUser(c, u)

AccountsSpec == AccountsInit /\ [][AccountsNext]_accountsVars

-----------------------------------------------------------------------------
AccountsTypeOK ==
  /\ role \in [Users -> Roles \cup {"none"}]
  /\ born \in SUBSET Users
  /\ owner \in [SessionIds -> Users]
  /\ token \in [SessionIds -> 0..MaxTokens]
  /\ fresh \in SUBSET SessionIds
  /\ issued \in 0..MaxTokens
  /\ request \in [Requests -> {NoRequest} \cup Verified \cup Selected
                                \cup Written]
  /\ held \in [Clients -> 0..MaxTokens]
  /\ access \in [Clients -> Claims \cup {NoClaims}]
  /\ edits \in 0..MaxEdits
  /\ over \in SUBSET SessionIds
  /\ good \in [Clients -> 0..MaxTokens]

(* A session that was signed out, went with its user, or expired while no  *)
(* refresh had it in hand is never accepted again, whatever was under way; *)
(* and no session outlives its user, a login that was already past the     *)
(* password check included.                                                *)
OverStaysOver ==
  \A i \in SessionIds : Accepts(i) => i \notin over /\ role[owner[i]] \in Roles

AcceptedTokens == {token[i] : i \in {j \in SessionIds : Accepts(j)}}

(* A refresh token that has stopped being accepted, because it was used,   *)
(* expired or was withdrawn, is never accepted again: every refresh that   *)
(* revives a session does so under a token generated for it.               *)
DeadTokensStayDead ==
  [][\A t \in 1..issued :
       t \notin AcceptedTokens => t \notin AcceptedTokens']_accountsVars

(* A client that sends one request at a time, has had every answer, and    *)
(* whose session nobody ended can refresh: the token it holds, or the one  *)
(* in the answer on its way, is the one the session accepts.  What other   *)
(* sessions of the same user do does not matter.                           *)
SignedInStays ==
  \A c \in Clients : good[c] # 0 =>
    /\ Accepts(good[c])
    /\ \/ token[good[c]] = held[c]
       \/ \E r \in Pending(c) : /\ request[r].step = "written"
                                /\ request[r].id = good[c]
                                /\ token[good[c]] = request[r].token
=============================================================================
