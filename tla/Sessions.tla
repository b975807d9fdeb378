------------------------------ MODULE Sessions ------------------------------
(***************************************************************************)
(* api/tokens.py, api/models.py and the views of api/v1/views.py on        *)
(* /auth/token/ and /auth/token/refresh/: the API sessions of one user.    *)
(* An access token is signed and carries the version it was signed under;  *)
(* a refresh token is a row, exchanged for the next one of its family.     *)
(*                                                                         *)
(* Rows are numbered in the order they are made, and a family is named by  *)
(* its first row.  A device keeps the refresh token it was last given; what*)
(* makes a sign-in succeed is module Login.                                *)
(***************************************************************************)
EXTENDS Naturals, Sequences, FiniteSets

CONSTANTS
  Devices, Requests, NoDevice,
  MaxTokens, MaxVersion   \* bounds: rows made, revocations

ASSUME SessionsConstants ==
  /\ NoDevice \notin Devices /\ IsFiniteSet(Requests)
  /\ MaxTokens \in Nat /\ MaxVersion \in Nat

VARIABLES
  user,      \* "active", "inactive" or "erased"
  version,   \* Profile.token_version
  rows,      \* RefreshToken: [family, used], used when used_at is not null
  expired,   \* the rows past expires_at
  access,    \* the versions of the access tokens that have not expired
  holds,     \* the row a device holds the raw token of, 0 for none
  phase,     \* where each request is
  device,    \* whose request it is
  row,       \* the row it was given, then the one it has made
  crossed,   \* history: the revocations another request ran beside
  clashed,   \* history: the families two rotations ran on at once
  calm       \* history: the devices nothing untoward has happened to

account == <<user, version>>
stored == <<rows, expired>>
job == <<phase, device, row>>
past == <<crossed, clashed, calm>>
sessionsVars == <<account, stored, access, holds, job, past>>

Phases == {"idle", "sign", "open", "look", "save", "issue", "renew", "reply", "bump", "retire"}

SessionsTypeOK ==
  /\ user \in {"active", "inactive", "erased"} /\ version \in 0 .. MaxVersion
  /\ rows \in Seq([family : 1 .. MaxTokens, used : BOOLEAN]) /\ Len(rows) <= MaxTokens
  /\ \A n \in DOMAIN rows : LET f == rows[n].family IN f <= n /\ rows[f].family = f
  /\ expired \subseteq DOMAIN rows /\ access \subseteq 0 .. version
  /\ holds \in [Devices -> 0 .. Len(rows)]
  /\ phase \in [Requests -> Phases] /\ device \in [Requests -> Devices \cup {NoDevice}]
  /\ row \in [Requests -> 0 .. Len(rows)]
  /\ \A r \in Requests : phase[r] \in {"look", "save", "issue", "renew", "reply"} => row[r] > 0
  /\ crossed \subseteq Requests /\ clashed \subseteq DOMAIN rows /\ calm \subseteq Devices

SessionsInit ==
  /\ user = "active" /\ version = 0
  /\ rows = <<>> /\ expired = {} /\ access = {}
  /\ holds = [d \in Devices |-> 0]
  /\ phase = [r \in Requests |-> "idle"]
  /\ device = [r \in Requests |-> NoDevice] /\ row = [r \in Requests |-> 0]
  /\ crossed = {} /\ clashed = {} /\ calm = Devices

-----------------------------------------------------------------------------

FamilyOf(n) == rows[n].family
Live(n) == user # "erased" /\ ~rows[n].used /\ n \notin expired
LiveRows(f) == {n \in DOMAIN rows : FamilyOf(n) = f /\ Live(n)}

Busy == {r \in Requests : phase[r] # "idle"}

\* The requests that exchange a row of family f, and those that may still add one.
Exchanging(f) == {r \in Busy : row[r] > 0 /\ FamilyOf(row[r]) = f}
Adding(f) == {r \in Exchanging(f) : phase[r] \in {"save", "issue"}}

Advance(r, next) == phase' = [phase EXCEPT ![r] = next] /\ UNCHANGED <<device, row>>

Finish(r) ==
  /\ phase' = [phase EXCEPT ![r] = "idle"]
  /\ device' = [device EXCEPT ![r] = NoDevice] /\ row' = [row EXCEPT ![r] = 0]

\* An error: the device keeps what it holds.
Fail(r) == Finish(r) /\ UNCHANGED holds

Start(r, d, n, next) ==
  /\ phase[r] = "idle"
  /\ phase' = [phase EXCEPT ![r] = next]
  /\ device' = [device EXCEPT ![r] = d] /\ row' = [row EXCEPT ![r] = n]
  /\ crossed' = crossed \cup {s \in Requests : phase[s] \in {"bump", "retire"}}
                        \cup {s \in {r} : next = "bump" /\ Busy # {}}
  /\ clashed' = clashed \cup {f \in DOMAIN rows : n > 0 /\ f = FamilyOf(n) /\ Exchanging(f) # {}}

NewRow(r, f) ==
  /\ rows' = Append(rows, [family |-> f, used |-> FALSE])
  /\ row' = [row EXCEPT ![r] = Len(rows) + 1]
  /\ UNCHANGED device

-----------------------------------------------------------------------------
(* TokenView.post, once the credentials are verified *)

SignIn(r, d) ==
  /\ user = "active" /\ Len(rows) + Cardinality(Busy) < MaxTokens
  /\ \A s \in Busy : device[s] # d
  /\ Start(r, d, 0, "sign")
  /\ holds' = [holds EXCEPT ![d] = 0] /\ calm' = calm \cup {d}
  /\ UNCHANGED <<account, stored, access>>

\* issue_access_token: an erased user has no profile to make (IntegrityError).
Sign(r, from, to) ==
  /\ phase[r] = from
  /\ IF user = "erased" THEN Finish(r) /\ UNCHANGED access
                        ELSE Advance(r, to) /\ access' = access \cup {version}
  /\ UNCHANGED <<account, stored, holds, past>>

\* issue_refresh_token without a family.
Open(r) ==
  /\ phase[r] = "open"
  /\ IF user = "erased" THEN Fail(r) /\ UNCHANGED rows
     ELSE /\ NewRow(r, Len(rows) + 1)
          /\ phase' = [phase EXCEPT ![r] = "reply"] /\ UNCHANGED holds
  /\ UNCHANGED <<account, expired, access, past>>

\* The answer arrives, or is lost on the way: the device keeps what it had.
Reply(r) ==
  /\ phase[r] = "reply"
  /\ Finish(r)
  /\ \/ holds' = [holds EXCEPT ![device[r]] = row[r]] /\ UNCHANGED calm
     \/ calm' = calm \ {device[r]} /\ UNCHANGED holds
  /\ UNCHANGED <<account, stored, access, crossed, clashed>>

-----------------------------------------------------------------------------
(* TokenRefreshView.post: rotate_refresh_token, then a new access token *)

\* A device whose answer is late may send its token again.
Refresh(r, d) ==
  /\ holds[d] > 0 /\ Len(rows) + Cardinality(Busy) < MaxTokens
  /\ Start(r, d, holds[d], "look")
  /\ calm' = IF \E s \in Busy : device[s] = d THEN calm \ {d} ELSE calm
  /\ UNCHANGED <<account, stored, access, holds>>

\* One UPDATE of the rows of S that are not used yet.
Retire(S) ==
  rows' = [n \in DOMAIN rows |-> IF n \in S THEN [rows[n] EXCEPT !.used = TRUE] ELSE rows[n]]

RevokeFamily(n) == Retire({m \in DOMAIN rows : FamilyOf(m) = FamilyOf(n)})

\* Mutant of IsReuse: a used row is taken like any other.
NeverReuse(n) == FALSE

IsReuse(n) == rows[n].used

\* The row and its user, read once.  An erased user's rows are gone; the rows of
\* a used one's family are revoked.
Present(r) ==
  LET n == row[r] IN
  /\ phase[r] = "look"
  /\ \/ user = "erased" /\ Fail(r) /\ UNCHANGED rows
     \/ user # "erased" /\ IsReuse(n) /\ Fail(r) /\ RevokeFamily(n)
     \/ user # "erased" /\ ~IsReuse(n) /\ (n \in expired \/ user = "inactive")
        /\ Fail(r) /\ UNCHANGED rows
     \/ user = "active" /\ ~IsReuse(n) /\ n \notin expired
        /\ Advance(r, "save") /\ UNCHANGED <<rows, holds>>
  /\ UNCHANGED <<account, expired, access, past>>

\* Mutant of Save: the row stays good.
SaveNothing(r) ==
  /\ phase[r] = "save"
  /\ Advance(r, "issue")
  /\ UNCHANGED <<account, stored, access, holds, past>>

\* save(update_fields) writes by primary key, whatever the row holds by now, and
\* raises when the row is gone.
Save(r) ==
  /\ phase[r] = "save"
  /\ IF user = "erased" THEN Fail(r) /\ UNCHANGED rows
                        ELSE Advance(r, "issue") /\ Retire({row[r]}) /\ UNCHANGED holds
  /\ UNCHANGED <<account, expired, access, past>>

\* Mutant of Issue: the family is named by the row that was presented.
IssueApart(r) ==
  /\ phase[r] = "issue"
  /\ NewRow(r, row[r])
  /\ phase' = [phase EXCEPT ![r] = "renew"] /\ UNCHANGED holds
  /\ UNCHANGED <<account, expired, access, past>>

Issue(r) ==
  /\ phase[r] = "issue"
  /\ IF user = "erased" THEN Fail(r) /\ UNCHANGED rows
     ELSE /\ NewRow(r, FamilyOf(row[r]))
          /\ phase' = [phase EXCEPT ![r] = "renew"] /\ UNCHANGED holds
  /\ UNCHANGED <<account, expired, access, past>>

-----------------------------------------------------------------------------
(* TokenView.delete: revoke_all_tokens, two statements *)

\* read_access_token: the user is active and the version is the current one.
Accepted == user = "active" /\ version \in access

Revoke(r, d) ==
  /\ Accepted /\ version < MaxVersion
  /\ Start(r, d, 0, "bump")
  /\ UNCHANGED <<account, stored, access, holds, calm>>

Bump(r) ==
  /\ phase[r] = "bump" /\ Advance(r, "retire")
  /\ version' = IF user = "erased" \/ version = MaxVersion THEN version ELSE version + 1
  /\ UNCHANGED <<user, stored, access, holds, past>>

RetireAll(r) ==
  /\ phase[r] = "retire" /\ Finish(r)
  /\ Retire(DOMAIN rows) /\ calm' = {} /\ crossed' = crossed \ {r}
  /\ UNCHANGED <<account, expired, access, holds, clashed>>

-----------------------------------------------------------------------------
(* Time, and the user's account *)

\* In the order in which the rows were made.
RowExpires(n) ==
  /\ expired = 1 .. n - 1 /\ expired' = expired \cup {n}
  /\ calm' = {}
  /\ UNCHANGED <<account, rows, access, holds, job, crossed, clashed>>

AccessExpires(v) ==
  /\ access' = access \ {v}
  /\ UNCHANGED <<account, stored, holds, job, past>>

\* is_active in the admin; purge_user deletes the user, and its rows cascade.
SetUser(state) ==
  /\ user \notin {"erased", state} /\ user' = state /\ calm' = {}
  /\ UNCHANGED <<version, stored, access, holds, job, crossed, clashed>>

-----------------------------------------------------------------------------

Exchange(r) == Present(r) \/ Save(r) \/ Issue(r) \/ Sign(r, "renew", "reply")

SessionsNext ==
  \/ \E r \in Requests :
       \/ \E d \in Devices : SignIn(r, d) \/ Refresh(r, d) \/ Revoke(r, d)
       \/ Sign(r, "sign", "open") \/ Open(r) \/ Reply(r) \/ Exchange(r)
       \/ Bump(r) \/ RetireAll(r)
  \/ \E n \in DOMAIN rows : RowExpires(n)
  \/ \E v \in access : AccessExpires(v)
  \/ \E state \in {"active", "inactive", "erased"} : SetUser(state)

SessionsSpec == SessionsInit /\ [][SessionsNext]_sessionsVars

-----------------------------------------------------------------------------
(* Properties *)

\* API.md:64, "Refresh tokens are single use": of one sign-in there is one good
\* token at a time -- unless two rotations of it overlapped, both having read
\* the row unused before either marked it.
OneGoodToken == \A f \in DOMAIN rows : f \notin clashed => Cardinality(LiveRows(f)) <= 1

\* api/models.py: reuse detection "lets the whole lineage be revoked at once".
\* A family without a good token, and without a rotation that read one, never
\* has a good one again: no later request revives a session that was ended.
Ended(f) == f \in DOMAIN rows /\ LiveRows(f) = {} /\ Adding(f) = {}
EndedStaysEnded == [][\A f \in DOMAIN rows : Ended(f) => Ended(f)']_sessionsVars

\* tokens.py:13, "Reuse of a retired refresh token revokes the whole family": a
\* token presented again, while nobody rotates another one of its family, ends
\* the session.
ReuseEnds ==
  [][\A r \in Requests, f \in DOMAIN rows :
       /\ phase[r] = "look" /\ phase'[r] = "idle" /\ rows[row[r]] = [family |-> f, used |-> TRUE]
       /\ Adding(f) = {}
       => Ended(f)']_sessionsVars

\* "Revoke every token for the account": when nothing else ran beside it, a
\* revocation leaves no good refresh token and no access token that is accepted.
\* (A rotation beside it may add one between the two statements or after them.)
RevocationSignsOut ==
  [][\A r \in Requests :
       phase[r] = "retire" /\ phase'[r] = "idle" /\ r \notin crossed
         => ~Accepted' /\ \A n \in DOMAIN rows : ~Live(n)']_sessionsVars

\* The other side of the alarm: the device that sends one request at a time and
\* gets its answers is never signed out by what other devices do.
CalmKeepsSession ==
  \A d \in calm : holds[d] > 0 /\ (\A r \in Busy : device[r] # d) => Live(holds[d])

\* What a session is to its device: at most one good token, and that one as long
\* as the device behaves.
GoodTokens == OneGoodToken /\ CalmKeepsSession

\* What ends a session ends it: reuse, revocation, and nothing revives it.
SessionsEnd == EndedStaysEnded /\ ReuseEnds /\ RevocationSignsOut

=============================================================================
