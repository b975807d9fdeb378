---------------------------- MODULE SessionsProofs ----------------------------
(* Proofs about module Sessions, for any number of devices, requests and     *)
(* tokens: its types, what a refresh, a reuse and a sign-out do to a family  *)
(* of tokens, and that an undisturbed client keeps its session.              *)
EXTENDS Sessions, FiniteSetTheorems, TLAPS

TokenRows == [family : 1 .. MaxTokens, used : BOOLEAN]

\* The requests that may still add a row; there is room for what they add.
Adders == {r \in Requests : phase[r] \in {"sign", "open", "look", "save", "issue"}}
Room == Len(rows) + Cardinality(Adders) <= MaxTokens

SessionsInv == SessionsTypeOK /\ Room

\* A row, and the first row of its family.
LEMMA ARow ==
  ASSUME SessionsTypeOK, NEW n \in DOMAIN rows
  PROVE  /\ n \in 1 .. Len(rows) /\ Len(rows) \in Nat
         /\ rows[n] \in TokenRows /\ rows[n].used \in BOOLEAN
         /\ rows[n].family \in 1 .. MaxTokens /\ rows[n].family <= n
         /\ rows[n].family \in DOMAIN rows /\ rows[rows[n].family].family = rows[n].family
<1>1. rows \in Seq(TokenRows)
  BY DEF SessionsTypeOK, TokenRows
<1>2. DOMAIN rows = 1 .. Len(rows) /\ Len(rows) \in Nat /\ rows[n] \in TokenRows
  BY <1>1
<1>3. rows[n].family \in 1 .. MaxTokens /\ rows[n].used \in BOOLEAN
  BY <1>2 DEF TokenRows
<1>4. rows[n].family <= n /\ rows[rows[n].family].family = rows[n].family
  BY DEF SessionsTypeOK
<1>5. QED
  BY <1>2, <1>3, <1>4, SessionsConstants

\* What one UPDATE does to the rows, seen row by row.
LEMMA RetireRows ==
  ASSUME SessionsTypeOK, NEW S, Retire(S)
  PROVE  /\ rows' \in Seq(TokenRows) /\ Len(rows') = Len(rows) /\ DOMAIN rows' = DOMAIN rows
         /\ \A n \in DOMAIN rows : /\ rows'[n].family = rows[n].family
                                   /\ rows'[n].used = (rows[n].used \/ n \in S)
<1>1. rows \in Seq(TokenRows) /\ DOMAIN rows = 1 .. Len(rows) /\ Len(rows) \in Nat
  BY DEF SessionsTypeOK, TokenRows
<1>2. \A n \in DOMAIN rows : rows[n] \in TokenRows
  BY <1>1
<1>3. rows' \in [1 .. Len(rows) -> TokenRows]
  <2>1. \A n \in DOMAIN rows : [rows[n] EXCEPT !.used = TRUE] \in TokenRows
    BY <1>2 DEF TokenRows
  <2>2. QED
    BY <1>1, <1>2, <2>1 DEF Retire
<1>4. rows' \in Seq(TokenRows) /\ Len(rows') = Len(rows)
  BY <1>1, <1>3
<1>5. \A n \in DOMAIN rows : /\ rows'[n].family = rows[n].family
                             /\ rows'[n].used = (rows[n].used \/ n \in S)
  <2> SUFFICES ASSUME NEW n \in DOMAIN rows
               PROVE  /\ rows'[n].family = rows[n].family
                      /\ rows'[n].used = (rows[n].used \/ n \in S)
    OBVIOUS
  <2>1. rows'[n] = IF n \in S THEN [rows[n] EXCEPT !.used = TRUE] ELSE rows[n]
    BY <1>1 DEF Retire
  <2>2. rows[n] \in TokenRows /\ rows[n].used \in BOOLEAN
    BY <1>2 DEF TokenRows
  <2>3. CASE n \in S
    BY <2>1, <2>2, <2>3 DEF TokenRows
  <2>4. CASE n \notin S
    BY <2>1, <2>2, <2>4
  <2>5. QED
    BY <2>3, <2>4
<1>6. QED
  BY <1>1, <1>3, <1>4, <1>5

\* A row is added at the end, not used yet.
LEMMA NewRowRows ==
  ASSUME SessionsTypeOK, Len(rows) < MaxTokens, NEW r \in Requests,
         NEW f \in 1 .. MaxTokens, NewRow(r, f)
  PROVE  /\ rows' \in Seq(TokenRows) /\ Len(rows') = Len(rows) + 1
         /\ DOMAIN rows' = DOMAIN rows \cup {Len(rows) + 1}
         /\ \A n \in DOMAIN rows : rows'[n] = rows[n]
         /\ rows'[Len(rows) + 1] = [family |-> f, used |-> FALSE]
         /\ row' = [row EXCEPT ![r] = Len(rows) + 1]
<1> DEFINE new == [family |-> f, used |-> FALSE]
<1>1. rows \in Seq(TokenRows) /\ DOMAIN rows = 1 .. Len(rows) /\ Len(rows) \in Nat
  BY DEF SessionsTypeOK, TokenRows
<1>2. new \in TokenRows
  BY DEF TokenRows
<1>3. rows' = Append(rows, new) /\ row' = [row EXCEPT ![r] = Len(rows) + 1]
  BY DEF NewRow
<1> HIDE DEF new
<1>4. /\ rows' \in Seq(TokenRows) /\ Len(rows') = Len(rows) + 1
      /\ \A n \in 1 .. Len(rows) : rows'[n] = rows[n]
      /\ rows'[Len(rows) + 1] = new /\ DOMAIN rows' = 1 .. Len(rows) + 1
  BY <1>1, <1>2, <1>3
<1>5. 1 .. Len(rows) + 1 = 1 .. Len(rows) \cup {Len(rows) + 1}
  BY <1>1
<1>6. QED
  BY <1>1, <1>3, <1>4, <1>5 DEF new

\* While one request may still add a row, there is room for it.
LEMMA RoomForOne ==
  ASSUME SessionsInv, NEW r \in Adders
  PROVE  Len(rows) < MaxTokens /\ Len(rows) \in Nat
<1>1. IsFiniteSet(Adders)
  BY SessionsConstants, FS_Subset DEF Adders
<1>2. Cardinality(Adders) \in Nat /\ Cardinality(Adders) # 0
  BY <1>1, FS_CardinalityType, FS_EmptySet
<1>3. QED
  BY <1>2, SessionsConstants DEF SessionsInv, SessionsTypeOK, Room

\* What a step does to the requests that may add a row and to the number of rows
\* leaves room.
LEMMA RoomKept ==
  ASSUME SessionsInv, Len(rows') \in Nat,
         \/ Adders' \subseteq Adders /\ Len(rows') <= Len(rows)
         \/ \E r \in Adders : Adders' \subseteq Adders \ {r} /\ Len(rows') <= Len(rows) + 1
         \/ /\ Len(rows) + Cardinality(Busy) < MaxTokens /\ Len(rows') <= Len(rows)
            /\ \E r \in Requests : Adders' \subseteq Busy \cup {r}
  PROVE  Room'
<1>1. /\ IsFiniteSet(Adders) /\ Cardinality(Adders) \in Nat /\ Len(rows) \in Nat
      /\ IsFiniteSet(Adders') /\ Cardinality(Adders') \in Nat
      /\ IsFiniteSet(Busy) /\ Cardinality(Busy) \in Nat
  <2>1. Adders \subseteq Requests /\ Adders' \subseteq Requests /\ Busy \subseteq Requests
    BY DEF Adders, Busy
  <2>2. IsFiniteSet(Adders) /\ IsFiniteSet(Adders') /\ IsFiniteSet(Busy)
    BY <2>1, SessionsConstants, FS_Subset
  <2>3. QED
    BY <2>2, FS_CardinalityType DEF SessionsInv, SessionsTypeOK
<1>2. CASE Adders' \subseteq Adders /\ Len(rows') <= Len(rows)
  <2>1. Cardinality(Adders') <= Cardinality(Adders)
    BY <1>1, <1>2, FS_Subset
  <2>2. QED
    BY <1>1, <1>2, <2>1, SessionsConstants DEF SessionsInv, Room
<1>3. ASSUME NEW r \in Adders, Adders' \subseteq Adders \ {r}, Len(rows') <= Len(rows) + 1
      PROVE  Room'
  <2>1. IsFiniteSet(Adders \ {r}) /\ Cardinality(Adders \ {r}) = Cardinality(Adders) - 1
    BY <1>1, FS_RemoveElement
  <2>2. Cardinality(Adders') <= Cardinality(Adders \ {r})
    BY <1>3, <2>1, FS_Subset
  <2>3. QED
    BY <1>1, <1>3, <2>1, <2>2, SessionsConstants DEF SessionsInv, Room
<1>4. ASSUME Len(rows) + Cardinality(Busy) < MaxTokens, Len(rows') <= Len(rows),
             NEW r \in Requests, Adders' \subseteq Busy \cup {r}
      PROVE  Room'
  <2>1. /\ IsFiniteSet(Busy \cup {r})
        /\ Cardinality(Busy \cup {r}) = IF r \in Busy THEN Cardinality(Busy)
                                                   ELSE Cardinality(Busy) + 1
    BY <1>1, FS_AddElement
  <2>2. Cardinality(Busy \cup {r}) \in Nat /\ Cardinality(Adders') <= Cardinality(Busy \cup {r})
    BY <1>4, <2>1, FS_Subset, FS_CardinalityType
  <2>3. QED
    BY <1>1, <1>4, <2>1, <2>2, SessionsConstants DEF Room
<1>5. QED
  BY <1>2, <1>3, <1>4

-----------------------------------------------------------------------------
(* Types *)

LEMMA SessionsInvInit == SessionsInit => SessionsInv
<1> SUFFICES ASSUME SessionsInit PROVE SessionsInv
  OBVIOUS
<1>1. Adders = {}
  BY DEF SessionsInit, Adders
<1>2. rows = <<>> /\ Len(rows) = 0 /\ DOMAIN rows = {} /\ rows \in Seq(TokenRows)
  BY DEF SessionsInit
<1>3. Room
  BY <1>1, <1>2, FS_EmptySet, SessionsConstants DEF Room
<1>4. SessionsTypeOK
  BY <1>2, SessionsConstants DEF SessionsInit, SessionsTypeOK, Phases, TokenRows
<1>5. QED
  BY <1>3, <1>4 DEF SessionsInv

\* The bookkeeping of a step that leaves the rows alone.
LEMMA RowsKept ==
  ASSUME SessionsTypeOK, UNCHANGED rows,
         user' \in {"active", "inactive", "erased"}, version' \in 0 .. MaxVersion,
         expired' \subseteq DOMAIN rows, access' \subseteq 0 .. version',
         holds' \in [Devices -> 0 .. Len(rows)],
         phase' \in [Requests -> Phases],
         device' \in [Requests -> Devices \cup {NoDevice}],
         row' \in [Requests -> 0 .. Len(rows)],
         \A r \in Requests : phase'[r] \in {"look", "save", "issue", "renew", "reply"} => row'[r] > 0,
         crossed' \subseteq Requests, clashed' \subseteq DOMAIN rows, calm' \subseteq Devices
  PROVE  SessionsTypeOK'
BY DEF SessionsTypeOK

\* Of one that marks some of them used.
LEMMA RowsRetired ==
  ASSUME SessionsTypeOK, rows' \in Seq(TokenRows), Len(rows') = Len(rows),
         \A n \in DOMAIN rows : rows'[n].family = rows[n].family,
         UNCHANGED <<account, expired, access>>,
         holds' \in [Devices -> 0 .. Len(rows)],
         phase' \in [Requests -> Phases],
         device' \in [Requests -> Devices \cup {NoDevice}],
         row' \in [Requests -> 0 .. Len(rows)],
         \A r \in Requests : phase'[r] \in {"look", "save", "issue", "renew", "reply"} => row'[r] > 0,
         crossed' \subseteq Requests, UNCHANGED clashed, calm' \subseteq Devices
  PROVE  SessionsTypeOK'
<1>1. /\ rows' \in Seq(TokenRows) /\ Len(rows') = Len(rows) /\ DOMAIN rows' = DOMAIN rows
      /\ \A n \in DOMAIN rows : rows'[n].family = rows[n].family
  BY DEF SessionsTypeOK
<1>2. \A n \in DOMAIN rows : rows[n].family \in DOMAIN rows /\ rows[n].family <= n
  BY ARow
<1>3. \A n \in DOMAIN rows' : LET f == rows'[n].family IN f <= n /\ rows'[f].family = f
  BY <1>1, <1>2 DEF SessionsTypeOK
<1>4. QED
  BY <1>1, <1>3 DEF SessionsTypeOK, account, TokenRows

\* Of one that adds a row, of its own family or of the family of another.
LEMMA RowsAdded ==
  ASSUME SessionsTypeOK, Len(rows) < MaxTokens, NEW r \in Requests,
         NEW f \in 1 .. MaxTokens, NewRow(r, f),
         f = Len(rows) + 1 \/ (f \in DOMAIN rows /\ rows[f].family = f),
         UNCHANGED <<account, expired, access, holds, past>>,
         phase' \in [Requests -> Phases], \A s \in Requests \ {r} : phase'[s] = phase[s]
  PROVE  SessionsTypeOK'
<1> DEFINE new == Len(rows) + 1
<1>1. /\ rows' \in Seq(TokenRows) /\ Len(rows') = new
      /\ DOMAIN rows' = DOMAIN rows \cup {new}
      /\ \A n \in DOMAIN rows : rows'[n] = rows[n]
      /\ rows'[new] = [family |-> f, used |-> FALSE]
      /\ row' = [row EXCEPT ![r] = new] /\ UNCHANGED device
  BY NewRowRows DEF NewRow
<1>2. DOMAIN rows = 1 .. Len(rows) /\ Len(rows) \in Nat /\ new \in Nat
  BY DEF SessionsTypeOK
<1>3. /\ row' \in [Requests -> 0 .. Len(rows')] /\ holds' \in [Devices -> 0 .. Len(rows')]
      /\ \A s \in Requests : phase'[s] \in {"look", "save", "issue", "renew", "reply"} => row'[s] > 0
  BY <1>1, <1>2 DEF SessionsTypeOK
<1>4. \A n \in DOMAIN rows' : LET g == rows'[n].family IN g <= n /\ rows'[g].family = g
  <2> SUFFICES ASSUME NEW n \in DOMAIN rows'
               PROVE  rows'[n].family <= n /\ rows'[rows'[n].family].family = rows'[n].family
    OBVIOUS
  <2>1. CASE n = new
    <3>1. rows'[n].family = f
      BY <1>1, <2>1
    <3>2. f <= new
      BY <1>2
    <3>3. rows'[f].family = f
      BY <1>1, <1>2
    <3>4. QED
      BY <2>1, <3>1, <3>2, <3>3
  <2>2. CASE n \in DOMAIN rows
    <3>1. rows'[n] = rows[n] /\ rows[n].family \in DOMAIN rows /\ rows[n].family <= n
      BY <1>1, <2>2, ARow
    <3>2. QED
      BY <1>1, <2>2, <3>1, ARow
  <2>3. QED
    BY <1>1, <2>1, <2>2
<1>5. expired \subseteq DOMAIN rows' /\ clashed \subseteq DOMAIN rows'
  BY <1>1 DEF SessionsTypeOK
<1>6. Len(rows') <= MaxTokens /\ Len(rows') \in Nat
  BY <1>1, <1>2, SessionsConstants
<1>7. QED
  BY <1>1, <1>3, <1>4, <1>5, <1>6 DEF SessionsTypeOK, account, past, TokenRows

LEMMA SessionsInvStep == SessionsInv /\ [SessionsNext]_sessionsVars => SessionsInv'
<1> SUFFICES ASSUME SessionsInv, [SessionsNext]_sessionsVars PROVE SessionsInv'
  OBVIOUS
<1>0. /\ SessionsTypeOK /\ Len(rows) \in Nat /\ DOMAIN rows = 1 .. Len(rows)
      /\ phase \in [Requests -> Phases] /\ device \in [Requests -> Devices \cup {NoDevice}]
      /\ row \in [Requests -> 0 .. Len(rows)] /\ holds \in [Devices -> 0 .. Len(rows)]
      /\ \A r \in Requests : phase[r] \in {"look", "save", "issue", "renew", "reply"} => row[r] > 0
      /\ user \in {"active", "inactive", "erased"} /\ version \in 0 .. MaxVersion
      /\ expired \subseteq DOMAIN rows /\ access \subseteq 0 .. version
      /\ crossed \subseteq Requests /\ clashed \subseteq DOMAIN rows /\ calm \subseteq Devices
  BY DEF SessionsInv, SessionsTypeOK
<1>1. ASSUME NEW r \in Requests, NEW d \in Devices, SignIn(r, d) PROVE SessionsInv'
  <2>1. UNCHANGED <<account, stored, access>> /\ phase[r] = "idle"
    BY <1>1 DEF SignIn, Start
  <2>2. SessionsTypeOK'
    BY <1>0, <1>1, <2>1, RowsKept DEF SignIn, Start, Phases, account, stored
  <2>3. Adders' \subseteq Busy \cup {r}
    BY <1>0, <1>1 DEF SignIn, Start, Adders, Busy
  <2>4. Len(rows) + Cardinality(Busy) < MaxTokens /\ Len(rows') = Len(rows)
    BY <1>1, <2>1 DEF SignIn, stored
  <2>5. QED
    BY <1>0, <2>2, <2>3, <2>4, RoomKept DEF SessionsInv
<1>2. ASSUME NEW r \in Requests, NEW d \in Devices, Refresh(r, d) PROVE SessionsInv'
  <2>1. UNCHANGED <<account, stored, access, holds>> /\ phase[r] = "idle"
    BY <1>2 DEF Refresh, Start
  <2>2. SessionsTypeOK'
    BY <1>0, <1>2, <2>1, RowsKept DEF Refresh, Start, Phases, account, stored
  <2>3. Adders' \subseteq Busy \cup {r}
    BY <1>0, <1>2 DEF Refresh, Start, Adders, Busy
  <2>4. Len(rows) + Cardinality(Busy) < MaxTokens /\ Len(rows') = Len(rows)
    BY <1>2, <2>1 DEF Refresh, stored
  <2>5. QED
    BY <1>0, <2>2, <2>3, <2>4, RoomKept DEF SessionsInv
<1>3. ASSUME NEW r \in Requests, NEW d \in Devices, Revoke(r, d) PROVE SessionsInv'
  <2>1. UNCHANGED <<account, stored, access, holds, calm>> /\ phase[r] = "idle"
    BY <1>3 DEF Revoke, Start
  <2>2. SessionsTypeOK'
    BY <1>0, <1>3, <2>1, RowsKept DEF Revoke, Start, Phases, account, stored
  <2>3. Adders' \subseteq Adders /\ Len(rows') = Len(rows)
    BY <1>0, <1>3, <2>1 DEF Revoke, Start, Adders, stored
  <2>4. QED
    BY <1>0, <2>2, <2>3, RoomKept DEF SessionsInv
<1>4. ASSUME NEW r \in Requests, NEW from \in {"sign", "renew"}, NEW to \in {"open", "reply"},
             from = "sign" <=> to = "open", Sign(r, from, to)
      PROVE  SessionsInv'
  <2>1. UNCHANGED <<account, stored, holds, past>>
    BY <1>4 DEF Sign
  <2>2. /\ phase' \in [Requests -> Phases] /\ device' \in [Requests -> Devices \cup {NoDevice}]
        /\ row' \in [Requests -> 0 .. Len(rows)]
        /\ \A s \in Requests : phase'[s] \in {"look", "save", "issue", "renew", "reply"} => row'[s] > 0
    <3>1. CASE Finish(r)
      BY <1>0, <3>1 DEF Finish, Phases
    <3>2. CASE Advance(r, to)
      BY <1>0, <1>4, <3>2 DEF Sign, Advance, Phases
    <3>3. QED
      BY <1>4, <3>1, <3>2 DEF Sign
  <2>3. access' \subseteq 0 .. version
    <3>1. version \in 0 .. version
      BY <1>0, SessionsConstants
    <3>2. QED
      BY <1>0, <1>4, <3>1 DEF Sign
  <2>4. SessionsTypeOK'
    BY <1>0, <2>1, <2>2, <2>3, RowsKept DEF account, stored, past
  <2>5. Adders' \subseteq Adders /\ Len(rows') = Len(rows)
    BY <1>0, <1>4, <2>1 DEF Sign, Finish, Advance, Adders, stored
  <2>6. QED
    BY <1>0, <2>4, <2>5, RoomKept DEF SessionsInv
<1>5. ASSUME NEW r \in Requests, phase[r] \in {"sign", "open", "look", "save", "issue"}, Fail(r),
             UNCHANGED <<account, stored, access, past>>
      PROVE  SessionsInv'
  <2>1. SessionsTypeOK'
    BY <1>0, <1>5, RowsKept DEF Fail, Finish, Phases, account, stored, past
  <2>2. Adders' \subseteq Adders /\ Len(rows') = Len(rows)
    BY <1>0, <1>5 DEF Fail, Finish, Adders, stored
  <2>3. QED
    BY <1>0, <2>1, <2>2, RoomKept DEF SessionsInv
<1>6. ASSUME NEW r \in Requests, NEW f, phase[r] \in {"open", "issue"}, NewRow(r, f),
             phase' \in [Requests -> Phases], phase'[r] \in {"reply", "renew"},
             \A s \in Requests \ {r} : phase'[s] = phase[s],
             f = Len(rows) + 1 \/ (f \in DOMAIN rows /\ rows[f].family = f),
             UNCHANGED <<account, expired, access, holds, past>>
      PROVE  SessionsInv'
  <2>1. r \in Adders
    BY <1>6 DEF Adders
  <2>2. Len(rows) < MaxTokens /\ Len(rows) + 1 \in Nat
    BY <2>1, RoomForOne
  <2>3. f \in 1 .. MaxTokens
    BY <1>0, <1>6, <2>2, SessionsConstants
  <2>4. SessionsTypeOK'
    BY <1>0, <1>6, <2>2, <2>3, RowsAdded DEF Phases
  <2>5. Len(rows') = Len(rows) + 1 /\ Adders' \subseteq Adders \ {r}
    BY <1>0, <1>6, <2>2, <2>3, NewRowRows DEF Adders
  <2>6. QED
    BY <1>0, <2>1, <2>2, <2>4, <2>5, RoomKept DEF SessionsInv
<1>7. ASSUME NEW r \in Requests, Open(r) PROVE SessionsInv'
  <2>1. CASE user = "erased"
    BY <1>5, <1>7, <2>1 DEF Open, stored
  <2>2. CASE user # "erased"
    <3>1. PICK f \in Nat : f = Len(rows) + 1
      BY <1>0
    <3>2. NewRow(r, f)
      BY <1>7, <2>2, <3>1 DEF Open, NewRow
    <3>3. /\ phase[r] = "open" /\ phase' \in [Requests -> Phases] /\ phase'[r] \in {"reply", "renew"}
          /\ \A s \in Requests \ {r} : phase'[s] = phase[s]
          /\ UNCHANGED <<account, expired, access, holds, past>>
      BY <1>0, <1>7, <2>2 DEF Open, Phases
    <3>4. QED
      BY <1>0, <1>6, <3>1, <3>2, <3>3
  <2>3. QED
    BY <2>1, <2>2
<1>8. ASSUME NEW r \in Requests, Reply(r) PROVE SessionsInv'
  <2>1. UNCHANGED <<account, stored, access, crossed, clashed>> /\ phase[r] = "reply"
    BY <1>8 DEF Reply
  <2>2. holds' \in [Devices -> 0 .. Len(rows)] /\ calm' \subseteq Devices
    BY <1>0, <1>8 DEF Reply
  <2>3. SessionsTypeOK'
    BY <1>0, <1>8, <2>1, <2>2, RowsKept DEF Reply, Finish, Phases, account, stored
  <2>4. Adders' \subseteq Adders /\ Len(rows') = Len(rows)
    BY <1>0, <1>8, <2>1 DEF Reply, Finish, Adders, stored
  <2>5. QED
    BY <1>0, <2>3, <2>4, RoomKept DEF SessionsInv
<1>9. ASSUME NEW r \in Requests, rows' \in Seq(TokenRows), Len(rows') = Len(rows),
             \A n \in DOMAIN rows : rows'[n].family = rows[n].family,
             phase[r] \in {"look", "save"}, Fail(r) \/ (Advance(r, "issue") /\ UNCHANGED holds),
             UNCHANGED <<account, expired, access, past>>
      PROVE  SessionsInv'
  <2>1. row[r] > 0
    BY <1>0, <1>9
  <2>2. /\ phase' \in [Requests -> Phases] /\ device' \in [Requests -> Devices \cup {NoDevice}]
        /\ row' \in [Requests -> 0 .. Len(rows)]
        /\ \A s \in Requests : phase'[s] \in {"look", "save", "issue", "renew", "reply"} => row'[s] > 0
        /\ Adders' \subseteq Adders /\ UNCHANGED holds
    <3>1. CASE Fail(r)
      BY <1>0, <3>1 DEF Fail, Finish, Phases, Adders
    <3>2. CASE Advance(r, "issue") /\ UNCHANGED holds
      BY <1>0, <1>9, <2>1, <3>2 DEF Advance, Phases, Adders
    <3>3. QED
      BY <1>9, <3>1, <3>2
  <2>3. UNCHANGED <<crossed, clashed, calm, account, expired, access>>
    BY <1>9 DEF past
  <2>4. SessionsTypeOK'
    BY <1>0, <1>9, <2>2, <2>3, RowsRetired
  <2>5. QED
    BY <1>0, <1>9, <2>2, <2>4, RoomKept DEF SessionsInv
<1>10. ASSUME NEW r \in Requests, Present(r) PROVE SessionsInv'
  <2>1. UNCHANGED <<account, expired, access, past>> /\ phase[r] = "look"
    BY <1>10 DEF Present
  <2>2. CASE Fail(r) /\ UNCHANGED rows
    BY <1>5, <2>1, <2>2 DEF stored
  <2>3. CASE Fail(r) /\ RevokeFamily(row[r])
    <3>1. PICK S : S = {m \in DOMAIN rows : FamilyOf(m) = FamilyOf(row[r])}
      OBVIOUS
    <3>2. Retire(S)
      BY <2>3, <3>1 DEF RevokeFamily, Retire
    <3>3. rows' \in Seq(TokenRows) /\ Len(rows') = Len(rows)
          /\ \A n \in DOMAIN rows : rows'[n].family = rows[n].family
      BY <1>0, <3>2, RetireRows
    <3>4. QED
      BY <1>9, <2>1, <2>3, <3>3
  <2>4. CASE Advance(r, "save") /\ UNCHANGED <<rows, holds>>
    <3>1. SessionsTypeOK'
      BY <1>0, <2>1, <2>4, RowsKept DEF Advance, Phases, account, past
    <3>2. Adders' \subseteq Adders /\ Len(rows') = Len(rows)
      BY <1>0, <2>1, <2>4 DEF Advance, Adders
    <3>3. QED
      BY <1>0, <3>1, <3>2, RoomKept DEF SessionsInv
  <2>5. QED
    BY <1>10, <2>2, <2>3, <2>4 DEF Present
<1>11. ASSUME NEW r \in Requests, Save(r) PROVE SessionsInv'
  <2>1. CASE user = "erased"
    BY <1>5, <1>11, <2>1 DEF Save, stored
  <2>2. CASE user # "erased"
    <3>1. PICK S : S = {row[r]}
      OBVIOUS
    <3>2. Retire(S)
      BY <1>11, <2>2, <3>1 DEF Save, Retire
    <3>3. rows' \in Seq(TokenRows) /\ Len(rows') = Len(rows)
          /\ \A n \in DOMAIN rows : rows'[n].family = rows[n].family
      BY <1>0, <3>2, RetireRows
    <3>4. QED
      BY <1>9, <1>11, <2>2, <3>3 DEF Save
  <2>3. QED
    BY <2>1, <2>2
<1>12. ASSUME NEW r \in Requests, Issue(r) PROVE SessionsInv'
  <2>1. CASE user = "erased"
    BY <1>5, <1>12, <2>1 DEF Issue, stored
  <2>2. CASE user # "erased"
    <3>1. row[r] \in DOMAIN rows
      BY <1>0, <1>12 DEF Issue
    <3>2. FamilyOf(row[r]) \in DOMAIN rows /\ rows[FamilyOf(row[r])].family = FamilyOf(row[r])
      BY <1>0, <3>1, ARow DEF FamilyOf
    <3>3. PICK f \in DOMAIN rows : f = FamilyOf(row[r])
      BY <3>2
    <3>4. NewRow(r, f)
      BY <1>12, <2>2, <3>3 DEF Issue, NewRow
    <3>5. /\ phase[r] = "issue" /\ phase' \in [Requests -> Phases]
          /\ phase'[r] \in {"reply", "renew"}
          /\ \A s \in Requests \ {r} : phase'[s] = phase[s]
          /\ UNCHANGED <<account, expired, access, holds, past>>
      BY <1>0, <1>12, <2>2 DEF Issue, Phases
    <3>6. QED
      BY <1>6, <3>2, <3>3, <3>4, <3>5
  <2>3. QED
    BY <2>1, <2>2
<1>13. ASSUME NEW r \in Requests, Bump(r) PROVE SessionsInv'
  <2>1. version' \in 0 .. MaxVersion /\ access' \subseteq 0 .. version'
    BY <1>0, <1>13, SessionsConstants DEF Bump
  <2>2. SessionsTypeOK'
    BY <1>0, <1>13, <2>1, RowsKept DEF Bump, Advance, Phases, stored, past
  <2>3. Adders' \subseteq Adders /\ Len(rows') = Len(rows)
    BY <1>0, <1>13 DEF Bump, Advance, Adders, stored
  <2>4. QED
    BY <1>0, <2>2, <2>3, RoomKept DEF SessionsInv
<1>14. ASSUME NEW r \in Requests, RetireAll(r) PROVE SessionsInv'
  <2>0. PICK S : S = DOMAIN rows
    OBVIOUS
  <2>1. Retire(S)
    BY <1>14, <2>0 DEF RetireAll
  <2>2. rows' \in Seq(TokenRows) /\ Len(rows') = Len(rows)
        /\ \A n \in DOMAIN rows : rows'[n].family = rows[n].family
    BY <1>0, <2>1, RetireRows
  <2>3. SessionsTypeOK'
    BY <1>0, <1>14, <2>2, RowsRetired DEF RetireAll, Finish, Phases
  <2>4. Adders' \subseteq Adders
    BY <1>0, <1>14 DEF RetireAll, Finish, Adders
  <2>5. QED
    BY <1>0, <2>2, <2>3, <2>4, RoomKept DEF SessionsInv
<1>15. ASSUME UNCHANGED <<rows, holds, job, clashed, crossed>>,
              user' \in {"active", "inactive", "erased"}, UNCHANGED version,
              expired' \subseteq DOMAIN rows, access' \subseteq access, calm' \subseteq calm
       PROVE  SessionsInv'
  <2>1. SessionsTypeOK'
    BY <1>0, <1>15, RowsKept DEF job
  <2>2. Adders' \subseteq Adders /\ Len(rows') = Len(rows)
    BY <1>15 DEF Adders, job
  <2>3. QED
    BY <1>0, <2>1, <2>2, RoomKept DEF SessionsInv
<1>16. ASSUME NEW n \in DOMAIN rows, RowExpires(n) PROVE SessionsInv'
  BY <1>0, <1>15, <1>16 DEF RowExpires, account
<1>17. ASSUME NEW v \in access, AccessExpires(v) PROVE SessionsInv'
  BY <1>0, <1>15, <1>17 DEF AccessExpires, account, stored, past
<1>18. ASSUME NEW state \in {"active", "inactive", "erased"}, SetUser(state) PROVE SessionsInv'
  BY <1>0, <1>15, <1>18 DEF SetUser, stored
<1>19. CASE UNCHANGED sessionsVars
  BY <1>0, <1>15, <1>19 DEF sessionsVars, account, stored, past
<1>20. QED
  BY <1>1, <1>2, <1>3, <1>4, <1>7, <1>8, <1>10, <1>11, <1>12, <1>13, <1>14, <1>16, <1>17,
     <1>18, <1>19
  DEF SessionsNext, Exchange

LEMMA SessionsInvAlways == SessionsSpec => []SessionsInv
BY SessionsInvInit, SessionsInvStep, PTL DEF SessionsSpec

\* The variables of the sessions keep their types, whatever is asked at once: no
\* more rows than there is room for, and every family named by a row of its own.
THEOREM SessionsTypeCorrect == SessionsSpec => []SessionsTypeOK
BY SessionsInvAlways, PTL DEF SessionsInv

-----------------------------------------------------------------------------
(* One good token *)

\* In a family no two rotations of which overlapped there is one request at work
\* and one good row; while the request rotates it, that is the row it was given,
\* and between marking it used and making the next one there is none.
OneRotation ==
  \A f \in DOMAIN rows : f \notin clashed =>
    /\ \A r, s \in Exchanging(f) : r = s
    /\ \A m, n \in LiveRows(f) : m = n
    /\ \A r \in Exchanging(f) :
         /\ phase[r] = "save" => LiveRows(f) \subseteq {row[r]}
         /\ phase[r] = "issue" => LiveRows(f) = {}

\* Rows only grow old: used stays used, expired stays expired, erased stays erased.
RowsAge ==
  /\ DOMAIN rows \subseteq DOMAIN rows' /\ expired \subseteq expired'
  /\ \A n \in DOMAIN rows : /\ rows'[n].family = rows[n].family
                            /\ rows[n].used => rows'[n].used
  /\ user = "erased" => user' = "erased"

\* A token that is presented, saved or revoked adds no row.
LEMMA MarkingAddsNoRow ==
  ASSUME SessionsTypeOK, NEW r \in Requests, Present(r) \/ Save(r) \/ RetireAll(r)
  PROVE  RowsAge /\ DOMAIN rows' = DOMAIN rows
<1> DEFINE Goal == RowsAge /\ DOMAIN rows' = DOMAIN rows
<1>1. ASSUME NEW S, Retire(S), UNCHANGED <<user, expired>> PROVE Goal
  BY <1>1, RetireRows DEF RowsAge
<1>2. ASSUME UNCHANGED <<rows, user, expired>> PROVE Goal
  BY <1>2 DEF RowsAge
<1>3. ASSUME Present(r) PROVE Goal
  <2>1. CASE RevokeFamily(row[r])
    <3>1. PICK S : S = {m \in DOMAIN rows : FamilyOf(m) = FamilyOf(row[r])}
      OBVIOUS
    <3>2. Retire(S)
      BY <2>1, <3>1 DEF RevokeFamily, Retire
    <3>3. QED
      BY <1>1, <1>3, <3>2 DEF Present, account
  <2>2. CASE UNCHANGED rows
    BY <1>2, <1>3, <2>2 DEF Present, account
  <2>3. QED
    BY <1>3, <2>1, <2>2 DEF Present
<1>4. ASSUME Save(r) PROVE Goal
  <2>1. CASE Retire({row[r]})
    <3>1. PICK S : S = {row[r]}
      OBVIOUS
    <3>2. Retire(S)
      BY <2>1, <3>1 DEF Retire
    <3>3. QED
      BY <1>1, <1>4, <3>2 DEF Save, account
  <2>2. CASE UNCHANGED rows
    BY <1>2, <1>4, <2>2 DEF Save, account
  <2>3. QED
    BY <1>4, <2>1, <2>2 DEF Save
<1>5. ASSUME RetireAll(r) PROVE Goal
  <2>1. PICK S : S = DOMAIN rows
    OBVIOUS
  <2>2. Retire(S)
    BY <1>5, <2>1 DEF RetireAll
  <2>3. QED
    BY <1>1, <1>5, <2>2 DEF RetireAll, account
<1>6. QED
  BY <1>3, <1>4, <1>5

\* Every step lets rows grow old, and only two of them add one.
LEMMA RowsOnlyAge ==
  ASSUME SessionsInv, [SessionsNext]_sessionsVars
  PROVE  /\ RowsAge
         /\ \/ DOMAIN rows' = DOMAIN rows
            \/ \E r \in Requests : (Open(r) \/ Issue(r)) /\ user # "erased"
<1>0. SessionsTypeOK
  BY DEF SessionsInv
<1> DEFINE Goal == RowsAge /\ DOMAIN rows' = DOMAIN rows
<1>2. ASSUME UNCHANGED rows, expired \subseteq expired', user = "erased" => user' = "erased"
      PROVE  Goal
  BY <1>2 DEF RowsAge
<1>3. ASSUME NEW r \in Requests, Present(r) \/ Save(r) \/ RetireAll(r) PROVE Goal
  BY <1>0, <1>3, MarkingAddsNoRow
<1>6. ASSUME NEW r \in Requests, Open(r) \/ Issue(r), user = "erased" PROVE Goal
  BY <1>2, <1>6 DEF Open, Issue, account
<1>7. ASSUME NEW r \in Requests, Open(r) \/ Issue(r), user # "erased" PROVE RowsAge
  <2>1. PICK f : NewRow(r, f)
    <3>1. CASE Open(r)
      <4>1. PICK f : f = Len(rows) + 1
        OBVIOUS
      <4>2. QED
        BY <1>7, <3>1, <4>1 DEF Open, NewRow
    <3>2. CASE Issue(r)
      <4>1. PICK f : f = FamilyOf(row[r])
        OBVIOUS
      <4>2. QED
        BY <1>7, <3>2, <4>1 DEF Issue, NewRow
    <3>3. QED
      BY <1>7, <3>1, <3>2
  <2>2. UNCHANGED <<user, expired>>
    BY <1>7 DEF Open, Issue, account
  <2>3. DOMAIN rows \subseteq DOMAIN rows' /\ \A n \in DOMAIN rows : rows'[n] = rows[n]
    <3>1. rows \in Seq(TokenRows)
      BY <1>0 DEF SessionsTypeOK, TokenRows
    <3>2. rows' = Append(rows, [family |-> f, used |-> FALSE])
      BY <2>1 DEF NewRow
    <3>3. QED
      BY <3>1, <3>2
  <2>4. QED
    BY <2>2, <2>3 DEF RowsAge
<1>8. ASSUME NEW r \in Requests, NEW d \in Devices, SignIn(r, d) \/ Refresh(r, d) \/ Revoke(r, d)
      PROVE  Goal
  BY <1>2, <1>8 DEF SignIn, Refresh, Revoke, stored, account
<1>9. ASSUME NEW r \in Requests, Sign(r, "sign", "open") \/ Sign(r, "renew", "reply") PROVE Goal
  BY <1>2, <1>9 DEF Sign, stored, account
<1>10. ASSUME NEW r \in Requests, Reply(r) \/ Bump(r) PROVE Goal
  BY <1>2, <1>10 DEF Reply, Bump, stored, account
<1>11. ASSUME NEW n \in DOMAIN rows, RowExpires(n) PROVE Goal
  BY <1>2, <1>11 DEF RowExpires, account
<1>12. ASSUME NEW v \in access, AccessExpires(v) PROVE Goal
  BY <1>2, <1>12 DEF AccessExpires, stored, account
<1>13. ASSUME NEW state \in {"active", "inactive", "erased"}, SetUser(state) PROVE Goal
  BY <1>2, <1>13 DEF SetUser, stored
<1>14. CASE UNCHANGED sessionsVars
  BY <1>2, <1>14 DEF sessionsVars, stored, account
<1>15. QED
  BY <1>3, <1>6, <1>7, <1>8, <1>9, <1>10, <1>11, <1>12, <1>13, <1>14
  DEF SessionsNext, Exchange

\* So no row becomes good again.
LEMMA NoneRevived ==
  ASSUME SessionsInv, RowsAge, DOMAIN rows' = DOMAIN rows, NEW f \in DOMAIN rows
  PROVE  LiveRows(f)' \subseteq LiveRows(f)
BY ARow DEF RowsAge, LiveRows, Live, FamilyOf, SessionsInv

\* The row a request works with is a row, of a family that is named by a row.
LEMMA AtWork ==
  ASSUME SessionsInv, NEW r \in Requests, row[r] > 0
  PROVE  row[r] \in DOMAIN rows /\ FamilyOf(row[r]) \in DOMAIN rows
<1>1. row[r] \in DOMAIN rows
  BY DEF SessionsInv, SessionsTypeOK
<1>2. QED
  BY <1>1, ARow DEF FamilyOf, SessionsInv

\* A step that gives no request a row and brings none to "save" or "issue".
LEMMA QuietRotation ==
  ASSUME SessionsInv, OneRotation, RowsAge, DOMAIN rows' = DOMAIN rows, clashed \subseteq clashed',
         \A s \in Requests :
           \/ phase'[s] = "idle" \/ row'[s] = 0
           \/ /\ row'[s] = row[s] /\ phase[s] # "idle"
              /\ phase'[s] \in {"save", "issue"} => phase'[s] = phase[s]
  PROVE  OneRotation'
<1> SUFFICES ASSUME NEW f \in DOMAIN rows, f \notin clashed'
             PROVE  /\ \A r, s \in Exchanging(f)' : r = s
                    /\ \A m, n \in LiveRows(f)' : m = n
                    /\ \A r \in Exchanging(f)' :
                         /\ phase'[r] = "save" => LiveRows(f)' \subseteq {row'[r]}
                         /\ phase'[r] = "issue" => LiveRows(f)' = {}
  BY DEF OneRotation
<1>1. LiveRows(f)' \subseteq LiveRows(f)
  BY NoneRevived
<1>2. \A s \in Exchanging(f)' :
        /\ s \in Exchanging(f) /\ row'[s] = row[s]
        /\ phase'[s] \in {"save", "issue"} => phase'[s] = phase[s]
  <2> SUFFICES ASSUME NEW s \in Exchanging(f)'
               PROVE  /\ s \in Exchanging(f) /\ row'[s] = row[s]
                      /\ phase'[s] \in {"save", "issue"} => phase'[s] = phase[s]
    OBVIOUS
  <2>1. s \in Requests /\ phase'[s] # "idle" /\ row'[s] > 0 /\ rows'[row'[s]].family = f
    BY DEF Exchanging, Busy, FamilyOf
  <2>2. /\ row'[s] = row[s] /\ phase[s] # "idle" /\ row[s] > 0
        /\ phase'[s] \in {"save", "issue"} => phase'[s] = phase[s]
    BY <2>1
  <2>3. row[s] \in DOMAIN rows
    BY <2>1, <2>2, AtWork
  <2>4. QED
    BY <2>1, <2>2, <2>3 DEF Exchanging, Busy, FamilyOf, RowsAge
<1>3. f \notin clashed
  OBVIOUS
<1>4. QED
  BY <1>1, <1>2, <1>3 DEF OneRotation

LEMMA OneRotationStep ==
  ASSUME SessionsInv, OneRotation, [SessionsNext]_sessionsVars
  PROVE  OneRotation'
<1>0. /\ SessionsTypeOK /\ Len(rows) \in Nat /\ DOMAIN rows = 1 .. Len(rows)
      /\ phase \in [Requests -> Phases] /\ row \in [Requests -> 0 .. Len(rows)]
      /\ holds \in [Devices -> 0 .. Len(rows)]
      /\ \A r \in Requests : phase[r] \in {"look", "save", "issue", "renew", "reply"} => row[r] > 0
  BY DEF SessionsInv, SessionsTypeOK
<1>a. RowsAge
  BY RowsOnlyAge
<1> DEFINE Quiet ==
      /\ DOMAIN rows' = DOMAIN rows /\ clashed \subseteq clashed'
      /\ \A s \in Requests :
           \/ phase'[s] = "idle" \/ row'[s] = 0
           \/ /\ row'[s] = row[s] /\ phase[s] # "idle"
              /\ phase'[s] \in {"save", "issue"} => phase'[s] = phase[s]
<1>q. Quiet => OneRotation'
  BY <1>a, QuietRotation
<1> HIDE DEF Quiet
<1>1. ASSUME NEW r \in Requests, NEW d \in Devices, SignIn(r, d) \/ Revoke(r, d)
      PROVE  OneRotation'
  <2>1. clashed \subseteq clashed' /\ UNCHANGED rows
    BY <1>1 DEF SignIn, Revoke, Start, stored
  <2>2. row' = [row EXCEPT ![r] = 0]
        /\ \A s \in Requests \ {r} : phase'[s] = phase[s]
    BY <1>0, <1>1 DEF SignIn, Revoke, Start
  <2>3. QED
    BY <1>0, <1>q, <2>1, <2>2 DEF Quiet
<1>2. ASSUME NEW r \in Requests, NEW d \in Devices, Refresh(r, d) PROVE OneRotation'
  <2> DEFINE n == holds[d]
  <2>1. /\ n > 0 /\ UNCHANGED <<rows, user, expired>> /\ phase[r] = "idle"
        /\ phase' = [phase EXCEPT ![r] = "look"] /\ row' = [row EXCEPT ![r] = n]
        /\ clashed' = clashed \cup {f \in DOMAIN rows : n > 0 /\ f = FamilyOf(n) /\ Exchanging(f) # {}}
    BY <1>2 DEF Refresh, Start, stored, account
  <2> SUFFICES ASSUME NEW f \in DOMAIN rows, f \notin clashed'
               PROVE  /\ \A s, t \in Exchanging(f)' : s = t
                      /\ \A m, k \in LiveRows(f)' : m = k
                      /\ \A s \in Exchanging(f)' :
                           /\ phase'[s] = "save" => LiveRows(f)' \subseteq {row'[s]}
                           /\ phase'[s] = "issue" => LiveRows(f)' = {}
    BY <2>1 DEF OneRotation
  <2>2. LiveRows(f)' = LiveRows(f) /\ f \notin clashed
    BY <2>1 DEF LiveRows, Live, FamilyOf
  <2>3. CASE f = FamilyOf(n)
    <3>1. Exchanging(f) = {}
      BY <2>1, <2>3
    <3>2. \A s \in Exchanging(f)' : s = r
      BY <1>0, <2>1, <3>1 DEF Exchanging, Busy, FamilyOf
    <3>3. phase'[r] = "look"
      BY <1>0, <2>1
    <3>4. QED
      BY <2>2, <3>2, <3>3 DEF OneRotation
  <2>4. CASE f # FamilyOf(n)
    <3>1. \A s \in Exchanging(f)' : s \in Exchanging(f) /\ phase'[s] = phase[s] /\ row'[s] = row[s]
      BY <1>0, <2>1, <2>4 DEF Exchanging, Busy, FamilyOf
    <3>2. QED
      BY <2>2, <3>1 DEF OneRotation
  <2>5. QED
    BY <2>3, <2>4
<1>3. ASSUME NEW r \in Requests, NEW from \in {"sign", "renew"}, NEW to \in {"open", "reply"},
             Sign(r, from, to)
      PROVE  OneRotation'
  <2>1. /\ UNCHANGED <<rows, clashed>> /\ \A s \in Requests \ {r} : UNCHANGED <<phase[s], row[s]>>
        /\ phase[r] # "idle"
        /\ phase'[r] = "idle" \/ (phase'[r] \in {"open", "reply"} /\ row'[r] = row[r])
    BY <1>0, <1>3 DEF Sign, Finish, Advance, stored, past
  <2>2. QED
    BY <1>0, <1>q, <2>1 DEF Quiet
<1>4. ASSUME NEW r \in Requests, Finish(r), UNCHANGED clashed, DOMAIN rows' = DOMAIN rows
      PROVE  OneRotation'
  <2>1. phase'[r] = "idle" /\ \A s \in Requests \ {r} : UNCHANGED <<phase[s], row[s]>>
    BY <1>0, <1>4 DEF Finish
  <2>2. QED
    BY <1>0, <1>4, <1>q, <2>1 DEF Quiet
<1>5. ASSUME NEW r \in Requests, Open(r), user # "erased" PROVE OneRotation'
  <2>. PICK new \in Nat : new = Len(rows) + 1
    BY <1>0
  <2>0. /\ NewRow(r, new) /\ phase[r] = "open" /\ phase' = [phase EXCEPT ![r] = "reply"]
        /\ UNCHANGED <<user, expired, clashed>>
    BY <1>5 DEF Open, NewRow, account, past
  <2>1. Len(rows) < MaxTokens
    BY <2>0, RoomForOne DEF Adders
  <2>2. /\ DOMAIN rows' = DOMAIN rows \cup {new} /\ row' = [row EXCEPT ![r] = new]
        /\ \A n \in DOMAIN rows : rows'[n] = rows[n]
        /\ rows'[new] = [family |-> new, used |-> FALSE]
    <3>1. PICK f \in 1 .. MaxTokens : f = new
      BY <1>0, <2>1, SessionsConstants
    <3>2. NewRow(r, f)
      BY <2>0, <3>1 DEF NewRow
    <3>3. QED
      BY <1>0, <2>1, <3>1, <3>2, NewRowRows
  <2>3. new \notin DOMAIN rows /\ new > 0
    BY <1>0
  <2> SUFFICES ASSUME NEW f \in DOMAIN rows', f \notin clashed'
               PROVE  /\ \A s, t \in Exchanging(f)' : s = t
                      /\ \A m, n \in LiveRows(f)' : m = n
                      /\ \A s \in Exchanging(f)' :
                           /\ phase'[s] = "save" => LiveRows(f)' \subseteq {row'[s]}
                           /\ phase'[s] = "issue" => LiveRows(f)' = {}
    BY DEF OneRotation
  <2>4. \A n \in DOMAIN rows : FamilyOf(n)' = FamilyOf(n) /\ FamilyOf(n) \in DOMAIN rows
    BY <1>0, <2>2, ARow DEF FamilyOf
  <2>5. FamilyOf(new)' = new
    BY <2>2 DEF FamilyOf
  <2>6. CASE f = new
    <3>1. \A s \in Exchanging(f)' : s = r
      <4> SUFFICES ASSUME NEW s \in Exchanging(f)', s # r PROVE FALSE
        OBVIOUS
      <4>1. s \in Requests /\ row[s] > 0 /\ rows'[row[s]].family = new
        BY <1>0, <2>2, <2>6 DEF Exchanging, Busy, FamilyOf
      <4>2. row[s] \in DOMAIN rows
        BY <4>1, AtWork
      <4>3. QED
        BY <2>3, <2>4, <4>1, <4>2 DEF FamilyOf
    <3>2. \A n \in LiveRows(f)' : n = new
      BY <2>2, <2>3, <2>4, <2>6 DEF LiveRows
    <3>3. phase'[r] = "reply"
      BY <1>0, <2>0
    <3>4. QED
      BY <3>1, <3>2, <3>3
  <2>7. CASE f \in DOMAIN rows
    <3>1. LiveRows(f)' = LiveRows(f) /\ f \notin clashed
      BY <2>0, <2>2, <2>3, <2>5, <2>7 DEF LiveRows, Live, FamilyOf
    <3>2. \A s \in Exchanging(f)' :
            s \in Exchanging(f) /\ phase'[s] = phase[s] /\ row'[s] = row[s]
      <4> SUFFICES ASSUME NEW s \in Exchanging(f)'
                   PROVE  s \in Exchanging(f) /\ phase'[s] = phase[s] /\ row'[s] = row[s]
        OBVIOUS
      <4>1. s # r
        BY <1>0, <2>2, <2>3, <2>5, <2>7 DEF Exchanging, FamilyOf
      <4>2. s \in Requests /\ row[s] > 0 /\ row'[s] = row[s] /\ phase'[s] = phase[s]
        BY <1>0, <2>0, <2>2, <4>1 DEF Exchanging, Busy
      <4>3. row[s] \in DOMAIN rows
        BY <4>2, AtWork
      <4>4. QED
        BY <2>2, <4>2, <4>3 DEF Exchanging, Busy, FamilyOf
    <3>3. QED
      BY <2>7, <3>1, <3>2 DEF OneRotation
  <2>8. QED
    BY <2>2, <2>6, <2>7
<1>6. ASSUME NEW r \in Requests, Issue(r), user # "erased" PROVE OneRotation'
  <2>. PICK new \in Nat : new = Len(rows) + 1
    BY <1>0
  <2>. PICK g : g = FamilyOf(row[r])
    OBVIOUS
  <2>0. /\ NewRow(r, g) /\ phase[r] = "issue" /\ phase' = [phase EXCEPT ![r] = "renew"]
        /\ UNCHANGED <<user, expired, clashed>>
    BY <1>6 DEF Issue, NewRow, account, past
  <2>1. Len(rows) < MaxTokens /\ row[r] > 0 /\ row[r] \in DOMAIN rows /\ g \in DOMAIN rows
    BY <1>0, <2>0, RoomForOne, AtWork DEF Adders
  <2>2. /\ DOMAIN rows' = DOMAIN rows \cup {new} /\ row' = [row EXCEPT ![r] = new]
        /\ \A n \in DOMAIN rows : rows'[n] = rows[n]
        /\ rows'[new] = [family |-> g, used |-> FALSE]
    <3>1. PICK f \in 1 .. MaxTokens : f = g
      BY <1>0, <2>1, SessionsConstants
    <3>2. NewRow(r, f)
      BY <2>0, <3>1 DEF NewRow
    <3>3. QED
      BY <1>0, <2>1, <3>1, <3>2, NewRowRows
  <2>3. new \notin DOMAIN rows /\ new > 0
    BY <1>0
  <2>4. FamilyOf(new)' = g /\ \A n \in DOMAIN rows : FamilyOf(n)' = FamilyOf(n)
    BY <2>2 DEF FamilyOf
  <2>5. r \in Exchanging(g)
    BY <2>0, <2>1 DEF Exchanging, Busy
  <2>6. new \notin {FamilyOf(n)' : n \in DOMAIN rows'}
    <3>1. \A n \in DOMAIN rows : FamilyOf(n) \in DOMAIN rows
      BY <1>0, ARow DEF FamilyOf
    <3>2. QED
      BY <2>1, <2>2, <2>3, <2>4, <3>1
  <2>7. /\ phase'[r] = "renew" /\ row'[r] = new
        /\ \A s \in Requests \ {r} : phase'[s] = phase[s] /\ row'[s] = row[s]
    BY <1>0, <2>0, <2>2
  <2>8. \A f \in DOMAIN rows' : \A s \in Exchanging(f)' :
          s \in Exchanging(f) /\ (s = r \/ (phase'[s] = phase[s] /\ row'[s] = row[s]))
    <3> SUFFICES ASSUME NEW f \in DOMAIN rows', NEW s \in Exchanging(f)'
                 PROVE  s \in Exchanging(f) /\ (s = r \/ (phase'[s] = phase[s] /\ row'[s] = row[s]))
      OBVIOUS
    <3>1. CASE s = r
      <4>1. f = g
        BY <2>4, <2>7, <3>1 DEF Exchanging, FamilyOf
      <4>2. QED
        BY <2>5, <3>1, <4>1
    <3>2. CASE s # r
      <4>1. s \in Requests /\ row[s] > 0 /\ row'[s] = row[s] /\ phase'[s] = phase[s]
        BY <2>7, <3>2 DEF Exchanging, Busy
      <4>2. row[s] \in DOMAIN rows
        BY <4>1, AtWork
      <4>3. QED
        BY <2>2, <4>1, <4>2 DEF Exchanging, Busy, FamilyOf
    <3>3. QED
      BY <3>1, <3>2
  <2> SUFFICES ASSUME NEW f \in DOMAIN rows', f \notin clashed'
               PROVE  /\ \A s, t \in Exchanging(f)' : s = t
                      /\ \A m, n \in LiveRows(f)' : m = n
                      /\ \A s \in Exchanging(f)' :
                           /\ phase'[s] = "save" => LiveRows(f)' \subseteq {row'[s]}
                           /\ phase'[s] = "issue" => LiveRows(f)' = {}
    BY DEF OneRotation
  <2>9. f \notin clashed
    BY <2>0
  <2>10. CASE f = g
    <3>1. LiveRows(f) = {} /\ \A s \in Exchanging(f) : s = r
      BY <2>0, <2>1, <2>5, <2>9, <2>10 DEF OneRotation
    <3>2. LiveRows(f)' \subseteq {new}
      BY <2>0, <2>2, <2>4, <3>1 DEF LiveRows, Live, FamilyOf
    <3>3. \A s \in Exchanging(f)' : s = r
      BY <2>8, <3>1
    <3>4. QED
      BY <2>7, <3>2, <3>3
  <2>11. CASE f # g
    <3>1. f \in DOMAIN rows \/ f = new
      BY <2>2
    <3>2. LiveRows(f)' \subseteq LiveRows(f)
      BY <2>0, <2>2, <2>4, <2>11 DEF LiveRows, Live, FamilyOf
    <3>3. CASE f = new
      <4>1. LiveRows(f)' = {}
        BY <2>6, <3>3 DEF LiveRows
      <4>2. \A s \in Exchanging(f)' : FALSE
        <5> SUFFICES ASSUME NEW s \in Exchanging(f)' PROVE FALSE
          OBVIOUS
        <5>1. s \in Requests /\ row[s] > 0 /\ FamilyOf(row[s]) = new
          BY <2>8, <3>3 DEF Exchanging, Busy
        <5>2. FamilyOf(row[s]) \in DOMAIN rows
          BY <5>1, AtWork
        <5>3. QED
          BY <2>3, <5>1, <5>2
      <4>3. QED
        BY <4>1, <4>2
    <3>4. CASE f \in DOMAIN rows
      <4>1. \A s \in Exchanging(f)' : s \in Exchanging(f) /\ phase'[s] = phase[s] /\ row'[s] = row[s]
        <5>1. r \notin Exchanging(f)
          BY <2>11 DEF Exchanging
        <5>2. QED
          BY <2>8, <5>1
      <4>2. QED
        BY <2>9, <3>2, <3>4, <4>1 DEF OneRotation
    <3>5. QED
      BY <3>1, <3>3, <3>4
  <2>12. QED
    BY <2>10, <2>11
<1>7. ASSUME NEW r \in Requests, NEW next \in {"save", "issue"}, Advance(r, next),
             phase[r] \in {"look", "save"}, row[r] > 0,
             DOMAIN rows' = DOMAIN rows, UNCHANGED clashed,
             next = "save" => row[r] \in LiveRows(FamilyOf(row[r])),
             next = "issue" => phase[r] = "save" /\ row[r] \notin LiveRows(FamilyOf(row[r]))'
      PROVE  OneRotation'
  <2>1. /\ phase' \in [Requests -> Phases] /\ phase'[r] = next /\ UNCHANGED row
        /\ \A s \in Requests \ {r} : phase'[s] = phase[s]
        /\ \A s \in Requests : phase'[s] = "idle" => phase[s] = "idle"
        /\ \A s \in Requests : phase[s] = "idle" => phase'[s] = "idle"
    BY <1>0, <1>7 DEF Advance, Phases
  <2>2. \A f \in DOMAIN rows : Exchanging(f)' = Exchanging(f)
    <3>1. \A s \in Requests : row[s] > 0 => FamilyOf(row[s])' = FamilyOf(row[s])
      BY <1>a, <2>1, AtWork DEF FamilyOf, RowsAge
    <3>2. QED
      BY <2>1, <3>1 DEF Exchanging, Busy
  <2>3. \A f \in DOMAIN rows : LiveRows(f)' \subseteq LiveRows(f)
    BY <1>7, <1>a, NoneRevived
  <2> SUFFICES ASSUME NEW f \in DOMAIN rows, f \notin clashed
               PROVE  /\ \A s, t \in Exchanging(f)' : s = t
                      /\ \A m, n \in LiveRows(f)' : m = n
                      /\ \A s \in Exchanging(f)' :
                           /\ phase'[s] = "save" => LiveRows(f)' \subseteq {row'[s]}
                           /\ phase'[s] = "issue" => LiveRows(f)' = {}
    BY <1>7 DEF OneRotation
  <2>4. \A s \in Exchanging(f)' \ {r} : phase'[s] = phase[s] /\ row'[s] = row[s]
    BY <2>1 DEF Exchanging, Busy
  <2>5. ASSUME r \in Exchanging(f)
        PROVE  /\ phase'[r] = "save" => LiveRows(f)' \subseteq {row'[r]}
               /\ phase'[r] = "issue" => LiveRows(f)' = {}
    <3>1. f = FamilyOf(row[r])
      BY <2>5 DEF Exchanging
    <3>2. CASE next = "save"
      BY <1>7, <2>1, <2>3, <3>1, <3>2 DEF OneRotation
    <3>3. CASE next = "issue"
      <4>1. LiveRows(f) \subseteq {row[r]} /\ row[r] \notin LiveRows(f)'
        <5>1. FamilyOf(row[r])' = FamilyOf(row[r])
          BY <1>7, <1>a, <2>1, AtWork DEF FamilyOf, RowsAge
        <5>2. QED
          BY <1>7, <2>1, <2>5, <3>1, <3>3, <5>1 DEF OneRotation, LiveRows
      <4>2. QED
        BY <2>1, <2>3, <3>3, <4>1
    <3>4. QED
      BY <3>2, <3>3
  <2>6. QED
    BY <2>2, <2>3, <2>4, <2>5 DEF OneRotation
<1>8. ASSUME NEW r \in Requests, Present(r) PROVE OneRotation'
  <2>1. UNCHANGED clashed /\ phase[r] = "look" /\ row[r] > 0
    BY <1>0, <1>8 DEF Present, past
  <2>2. DOMAIN rows' = DOMAIN rows
    BY <1>0, <1>8, MarkingAddsNoRow
  <2>3. CASE Fail(r)
    BY <1>4, <2>1, <2>2, <2>3 DEF Fail
  <2>4. CASE /\ user = "active" /\ ~IsReuse(row[r]) /\ row[r] \notin expired
             /\ Advance(r, "save")
    <3>1. row[r] \in LiveRows(FamilyOf(row[r]))
      BY <2>1, <2>4, AtWork DEF LiveRows, Live, IsReuse
    <3>2. QED
      BY <1>7, <2>1, <2>2, <2>4, <3>1
  <2>5. QED
    BY <1>8, <2>3, <2>4 DEF Present
<1>9. ASSUME NEW r \in Requests, Save(r) PROVE OneRotation'
  <2>1. UNCHANGED clashed /\ phase[r] = "save" /\ row[r] > 0
    BY <1>0, <1>9 DEF Save, past
  <2>2. CASE Fail(r) /\ UNCHANGED rows
    BY <1>4, <2>1, <2>2 DEF Fail
  <2>3. CASE Advance(r, "issue") /\ Retire({row[r]})
    <3>1. PICK S : S = {row[r]}
      OBVIOUS
    <3>2. Retire(S)
      BY <2>3, <3>1 DEF Retire
    <3>3. DOMAIN rows' = DOMAIN rows /\ rows'[row[r]].used
      BY <1>0, <2>1, <3>1, <3>2, RetireRows, AtWork
    <3>4. row[r] \notin LiveRows(FamilyOf(row[r]))'
      BY <2>3, <3>3 DEF LiveRows, Live, Advance
    <3>5. QED
      BY <1>7, <2>1, <2>3, <3>3, <3>4
  <2>4. QED
    BY <1>9, <2>2, <2>3 DEF Save
<1>10. ASSUME NEW r \in Requests, Reply(r) PROVE OneRotation'
  BY <1>4, <1>10 DEF Reply, stored
<1>11. ASSUME NEW r \in Requests, Open(r) \/ Issue(r), user = "erased" PROVE OneRotation'
  BY <1>4, <1>11 DEF Open, Issue, Fail, past
<1>12. ASSUME NEW r \in Requests, Bump(r) PROVE OneRotation'
  <2>1. /\ UNCHANGED <<rows, clashed, row>> /\ \A s \in Requests \ {r} : phase'[s] = phase[s]
        /\ phase[r] # "idle" /\ phase'[r] = "retire"
    BY <1>0, <1>12 DEF Bump, Advance, stored, past
  <2>2. QED
    BY <1>0, <1>q, <2>1 DEF Quiet
<1>13. ASSUME NEW r \in Requests, RetireAll(r) PROVE OneRotation'
  <2>1. DOMAIN rows' = DOMAIN rows
    BY <1>0, <1>13, MarkingAddsNoRow
  <2>2. QED
    BY <1>4, <1>13, <2>1 DEF RetireAll
<1>14. ASSUME UNCHANGED <<rows, phase, row, clashed>> PROVE OneRotation'
  <2>1. \A s \in Requests : phase[s] = "idle" \/ phase[s] # "idle"
    OBVIOUS
  <2>2. QED
    BY <1>14, <1>q, <2>1 DEF Quiet
<1>15. ASSUME NEW n \in DOMAIN rows, RowExpires(n) PROVE OneRotation'
  BY <1>14, <1>15 DEF RowExpires, job
<1>16. ASSUME NEW v \in access, AccessExpires(v) PROVE OneRotation'
  BY <1>14, <1>16 DEF AccessExpires, stored, job, past
<1>17. ASSUME NEW state \in {"active", "inactive", "erased"}, SetUser(state) PROVE OneRotation'
  BY <1>14, <1>17 DEF SetUser, stored, job
<1>18. CASE UNCHANGED sessionsVars
  BY <1>14, <1>18 DEF sessionsVars, stored, job, past
<1>19. QED
  BY <1>1, <1>2, <1>3, <1>5, <1>6, <1>8, <1>9, <1>10, <1>11, <1>12, <1>13, <1>15, <1>16,
     <1>17, <1>18
  DEF SessionsNext, Exchange

\* A sign-in has one good refresh token at a time, unless two rotations of it
\* overlapped; for any number of devices, requests and rows.
THEOREM AlwaysOneGoodToken == SessionsSpec => []OneGoodToken
<1>1. SessionsInit => OneRotation
  BY DEF SessionsInit, OneRotation
<1>2. ASSUME SessionsInv, OneRotation PROVE OneGoodToken
  <2> SUFFICES ASSUME NEW f \in DOMAIN rows, f \notin clashed
               PROVE  Cardinality(LiveRows(f)) <= 1
    BY DEF OneGoodToken
  <2>1. \A m, n \in LiveRows(f) : m = n
    BY <1>2 DEF OneRotation
  <2>2. CASE LiveRows(f) = {}
    BY <2>2, FS_EmptySet
  <2>3. CASE LiveRows(f) # {}
    <3>1. PICK n : LiveRows(f) = {n}
      BY <2>1, <2>3
    <3>2. QED
      BY <3>1, FS_Singleton
  <2>4. QED
    BY <2>2, <2>3
<1>3. QED
  BY <1>1, <1>2, SessionsInvAlways, OneRotationStep, PTL DEF SessionsSpec

-----------------------------------------------------------------------------
(* What ends a session *)

\* A session that ended has no good token and nobody who could add one, and no
\* step gives it one: not a new sign-in, which has a family of its own.
LEMMA EndedStep ==
  ASSUME SessionsInv, [SessionsNext]_sessionsVars, NEW f \in DOMAIN rows, Ended(f)
  PROVE  Ended(f)'
<1>0. /\ SessionsTypeOK /\ Len(rows) \in Nat /\ DOMAIN rows = 1 .. Len(rows)
      /\ phase \in [Requests -> Phases] /\ row \in [Requests -> 0 .. Len(rows)]
      /\ \A r \in Requests : phase[r] \in {"look", "save", "issue", "renew", "reply"} => row[r] > 0
      /\ LiveRows(f) = {} /\ Adding(f) = {}
  BY DEF SessionsInv, SessionsTypeOK, Ended
<1>a. RowsAge /\ f \in DOMAIN rows'
  BY RowsOnlyAge DEF RowsAge
<1>l. ASSUME DOMAIN rows' = DOMAIN rows PROVE LiveRows(f)' = {}
  BY <1>0, <1>a, <1>l, NoneRevived
<1>b. ASSUME \A s \in Requests : \/ phase'[s] \notin {"save", "issue"}
                                 \/ (row'[s] = row[s] /\ phase[s] \in {"save", "issue"})
      PROVE  Adding(f)' = {}
  <2> SUFFICES ASSUME NEW s \in Adding(f)' PROVE FALSE
    OBVIOUS
  <2>1. /\ s \in Requests /\ phase'[s] \in {"save", "issue"}
        /\ row'[s] > 0 /\ rows'[row'[s]].family = f
    BY DEF Adding, Exchanging, Busy, FamilyOf
  <2>2. row'[s] = row[s] /\ phase[s] \in {"save", "issue"}
    BY <1>b, <2>1
  <2>3. row[s] \in DOMAIN rows
    BY <2>1, <2>2, AtWork
  <2>4. s \in Adding(f)
    BY <1>a, <2>1, <2>2, <2>3 DEF Adding, Exchanging, Busy, FamilyOf, RowsAge
  <2>5. QED
    BY <1>0, <2>4
<1>q. ASSUME DOMAIN rows' = DOMAIN rows,
             \A s \in Requests : \/ phase'[s] \notin {"save", "issue"}
                                 \/ (row'[s] = row[s] /\ phase[s] \in {"save", "issue"})
      PROVE  Ended(f)'
  BY <1>a, <1>b, <1>l, <1>q DEF Ended
<1>1. ASSUME NEW r \in Requests, NEW d \in Devices, SignIn(r, d) \/ Refresh(r, d) \/ Revoke(r, d)
      PROVE  Ended(f)'
  <2>1. UNCHANGED rows /\ phase[r] = "idle"
    BY <1>1 DEF SignIn, Refresh, Revoke, Start, stored
  <2>2. /\ phase'[r] \in {"sign", "look", "bump"}
        /\ \A s \in Requests \ {r} : phase'[s] = phase[s] /\ row'[s] = row[s]
    BY <1>0, <1>1 DEF SignIn, Refresh, Revoke, Start
  <2>3. QED
    BY <1>q, <2>1, <2>2
<1>2. ASSUME NEW r \in Requests, Sign(r, "sign", "open") \/ Sign(r, "renew", "reply")
      PROVE  Ended(f)'
  <2>1. /\ UNCHANGED rows /\ phase'[r] \in {"idle", "open", "reply"}
        /\ \A s \in Requests \ {r} : phase'[s] = phase[s] /\ row'[s] = row[s]
    BY <1>0, <1>2 DEF Sign, Finish, Advance, stored
  <2>2. QED
    BY <1>q, <2>1
<1>3. ASSUME NEW r \in Requests, Finish(r), DOMAIN rows' = DOMAIN rows PROVE Ended(f)'
  <2>1. /\ phase'[r] = "idle"
        /\ \A s \in Requests \ {r} : phase'[s] = phase[s] /\ row'[s] = row[s]
    BY <1>0, <1>3 DEF Finish
  <2>2. QED
    BY <1>3, <1>q, <2>1
<1>4. ASSUME NEW r \in Requests, Open(r) PROVE Ended(f)'
  <2>1. CASE user = "erased"
    BY <1>3, <1>4, <2>1 DEF Open, Fail
  <2>2. CASE user # "erased"
    <3>. PICK new \in Nat : new = Len(rows) + 1
      BY <1>0
    <3>1. NewRow(r, new) /\ phase[r] = "open" /\ phase' = [phase EXCEPT ![r] = "reply"]
          /\ UNCHANGED <<user, expired>>
      BY <1>4, <2>2 DEF Open, NewRow, account
    <3>2. Len(rows) < MaxTokens /\ new \in 1 .. MaxTokens
      BY <1>0, <3>1, RoomForOne, SessionsConstants DEF Adders
    <3>3. /\ DOMAIN rows' = DOMAIN rows \cup {new} /\ row' = [row EXCEPT ![r] = new]
          /\ \A n \in DOMAIN rows : rows'[n] = rows[n]
          /\ rows'[new] = [family |-> new, used |-> FALSE]
      BY <1>0, <3>1, <3>2, NewRowRows
    <3>4. LiveRows(f)' = {}
      BY <1>0, <3>1, <3>3 DEF LiveRows, Live, FamilyOf
    <3>5. Adding(f)' = {}
      BY <1>0, <1>b, <3>1, <3>3
    <3>6. QED
      BY <1>a, <3>4, <3>5 DEF Ended
  <2>3. QED
    BY <2>1, <2>2
<1>5. ASSUME NEW r \in Requests, Issue(r) PROVE Ended(f)'
  <2>1. CASE user = "erased"
    BY <1>3, <1>5, <2>1 DEF Issue, Fail
  <2>2. CASE user # "erased"
    <3>. PICK new \in Nat : new = Len(rows) + 1
      BY <1>0
    <3>. PICK g : g = FamilyOf(row[r])
      OBVIOUS
    <3>1. NewRow(r, g) /\ phase[r] = "issue" /\ phase' = [phase EXCEPT ![r] = "renew"]
          /\ UNCHANGED <<user, expired>>
      BY <1>5, <2>2 DEF Issue, NewRow, account
    <3>2. Len(rows) < MaxTokens /\ g \in DOMAIN rows /\ row[r] > 0
      BY <1>0, <3>1, RoomForOne, AtWork DEF Adders
    <3>3. /\ DOMAIN rows' = DOMAIN rows \cup {new} /\ row' = [row EXCEPT ![r] = new]
          /\ \A n \in DOMAIN rows : rows'[n] = rows[n]
          /\ rows'[new] = [family |-> g, used |-> FALSE]
      <4>1. g \in 1 .. MaxTokens
        BY <1>0, <3>2, SessionsConstants
      <4>2. QED
        BY <1>0, <3>1, <3>2, <4>1, NewRowRows
    <3>4. f # g
      BY <1>0, <3>1, <3>2 DEF Adding, Exchanging, Busy
    <3>5. LiveRows(f)' = {}
      BY <1>0, <3>1, <3>3, <3>4 DEF LiveRows, Live, FamilyOf
    <3>6. Adding(f)' = {}
      BY <1>0, <1>b, <3>1, <3>3
    <3>7. QED
      BY <1>a, <3>5, <3>6 DEF Ended
  <2>3. QED
    BY <2>1, <2>2
<1>6. ASSUME NEW r \in Requests, Present(r) PROVE Ended(f)'
  <2>1. DOMAIN rows' = DOMAIN rows /\ phase[r] = "look" /\ row[r] > 0 /\ row[r] \in DOMAIN rows
    BY <1>0, <1>6, MarkingAddsNoRow, AtWork DEF Present
  <2>2. CASE Fail(r)
    BY <1>3, <2>1, <2>2 DEF Fail
  <2>3. CASE /\ user = "active" /\ ~IsReuse(row[r]) /\ row[r] \notin expired
             /\ Advance(r, "save") /\ UNCHANGED rows
    <3>1. FamilyOf(row[r]) # f
      BY <1>0, <2>1, <2>3 DEF LiveRows, Live, IsReuse
    <3>2. \A s \in Adding(f)' : s \in Adding(f) \/ s = r
      BY <1>0, <2>3 DEF Advance, Adding, Exchanging, Busy, FamilyOf
    <3>3. r \notin Adding(f)'
      BY <2>3, <3>1 DEF Advance, Adding, Exchanging, FamilyOf
    <3>4. QED
      BY <1>0, <1>a, <1>l, <2>1, <3>2, <3>3 DEF Ended
  <2>4. QED
    BY <1>6, <2>2, <2>3 DEF Present
<1>7. ASSUME NEW r \in Requests, Save(r) PROVE Ended(f)'
  <2>1. DOMAIN rows' = DOMAIN rows /\ phase[r] = "save"
    BY <1>0, <1>7, MarkingAddsNoRow DEF Save
  <2>2. CASE Fail(r)
    BY <1>3, <2>1, <2>2 DEF Fail
  <2>3. CASE Advance(r, "issue")
    <3>1. /\ UNCHANGED row /\ \A s \in Requests \ {r} : phase'[s] = phase[s]
      BY <1>0, <2>3 DEF Advance
    <3>2. QED
      BY <1>q, <2>1, <3>1
  <2>4. QED
    BY <1>7, <2>2, <2>3 DEF Save
<1>8. ASSUME NEW r \in Requests, Reply(r) PROVE Ended(f)'
  BY <1>3, <1>8 DEF Reply, stored
<1>9. ASSUME NEW r \in Requests, RetireAll(r) PROVE Ended(f)'
  BY <1>0, <1>3, <1>9, MarkingAddsNoRow DEF RetireAll
<1>10. ASSUME NEW r \in Requests, Bump(r) PROVE Ended(f)'
  <2>1. /\ UNCHANGED <<rows, row>> /\ phase'[r] = "retire"
        /\ \A s \in Requests \ {r} : phase'[s] = phase[s]
    BY <1>0, <1>10 DEF Bump, Advance, stored
  <2>2. QED
    BY <1>q, <2>1
<1>11. ASSUME UNCHANGED <<rows, phase, row>> PROVE Ended(f)'
  BY <1>11, <1>q
<1>12. ASSUME NEW n \in DOMAIN rows, RowExpires(n) PROVE Ended(f)'
  BY <1>11, <1>12 DEF RowExpires, job
<1>13. ASSUME NEW v \in access, AccessExpires(v) PROVE Ended(f)'
  BY <1>11, <1>13 DEF AccessExpires, stored, job
<1>14. ASSUME NEW state \in {"active", "inactive", "erased"}, SetUser(state) PROVE Ended(f)'
  BY <1>11, <1>14 DEF SetUser, stored, job
<1>15. CASE UNCHANGED sessionsVars
  BY <1>11, <1>15 DEF sessionsVars, stored, job
<1>16. QED
  BY <1>1, <1>2, <1>4, <1>5, <1>6, <1>7, <1>8, <1>9, <1>10, <1>12, <1>13, <1>14, <1>15
  DEF SessionsNext, Exchange

\* A session that was ended stays ended, whoever asks for what afterwards.
THEOREM EndedForGood == SessionsSpec => EndedStaysEnded
<1> DEFINE Stays == \A f \in DOMAIN rows : Ended(f) => Ended(f)'
<1>1. ASSUME SessionsInv, [SessionsNext]_sessionsVars PROVE Stays
  BY <1>1, EndedStep
<1>2. QED
  BY <1>1, SessionsInvAlways, PTL DEF SessionsSpec, EndedStaysEnded

\* Only its own presentation takes a request from "look" to its end.
LEMMA LookEnds ==
  ASSUME SessionsInv, [SessionsNext]_sessionsVars, NEW r \in Requests,
         phase[r] = "look", phase'[r] = "idle"
  PROVE  Present(r)
<1>0. phase \in [Requests -> Phases]
  BY DEF SessionsInv, SessionsTypeOK
<1>3. ASSUME NEW s \in Requests, NEW d \in Devices, SignIn(s, d) \/ Refresh(s, d) \/ Revoke(s, d)
      PROVE  FALSE
  BY <1>0, <1>3 DEF SignIn, Refresh, Revoke, Start
<1>4. ASSUME NEW s \in Requests,
             Sign(s, "sign", "open") \/ Sign(s, "renew", "reply") \/ Open(s) \/ Reply(s)
             \/ Save(s) \/ Issue(s) \/ Bump(s) \/ RetireAll(s)
      PROVE  FALSE
  BY <1>0, <1>4 DEF Sign, Open, Reply, Save, Issue, Bump, RetireAll, Finish, Fail, Advance
<1>5. ASSUME NEW s \in Requests, Present(s) PROVE s = r
  BY <1>0, <1>5 DEF Present, Finish, Fail, Advance
<1>6. CASE UNCHANGED job \/ UNCHANGED sessionsVars
  BY <1>6 DEF job, sessionsVars
<1>7. QED
  BY <1>3, <1>4, <1>5, <1>6
  DEF SessionsNext, Exchange, RowExpires, AccessExpires, SetUser

\* Reuse of a retired refresh token ends the session, unless a rotation of the
\* family is between its read and its write.
THEOREM ReuseAlwaysEnds == SessionsSpec => ReuseEnds
<1> DEFINE Ends ==
      \A r \in Requests, f \in DOMAIN rows :
        /\ phase[r] = "look" /\ phase'[r] = "idle" /\ rows[row[r]] = [family |-> f, used |-> TRUE]
        /\ Adding(f) = {}
        => Ended(f)'
<1>1. ASSUME SessionsInv, [SessionsNext]_sessionsVars PROVE Ends
  <2> SUFFICES ASSUME NEW r \in Requests, NEW f \in DOMAIN rows,
                      phase[r] = "look", phase'[r] = "idle",
                      rows[row[r]] = [family |-> f, used |-> TRUE], Adding(f) = {}
               PROVE  Ended(f)'
    OBVIOUS
  <2>0. /\ SessionsTypeOK /\ phase \in [Requests -> Phases] /\ row \in [Requests -> 0 .. Len(rows)]
        /\ row[r] > 0
    BY <1>1 DEF SessionsInv, SessionsTypeOK
  <2>1. Present(r)
    BY <1>1, LookEnds
  <2>2. FamilyOf(row[r]) = f /\ IsReuse(row[r])
    BY DEF FamilyOf, IsReuse
  <2>3. Finish(r)
    BY <2>0, <2>1 DEF Present, Fail, Advance
  <2>4. DOMAIN rows' = DOMAIN rows /\ RowsAge
    BY <2>0, <2>1, MarkingAddsNoRow
  <2>5. LiveRows(f)' = {}
    <3>1. CASE user = "erased"
      <4>1. LiveRows(f) = {}
        BY <3>1 DEF LiveRows, Live
      <4>2. QED
        BY <1>1, <2>4, <4>1, NoneRevived
    <3>2. CASE user # "erased"
      <4>1. RevokeFamily(row[r])
        BY <2>1, <2>2, <3>2 DEF Present
      <4>2. PICK S : S = {m \in DOMAIN rows : FamilyOf(m) = FamilyOf(row[r])}
        OBVIOUS
      <4>3. Retire(S)
        BY <4>1, <4>2 DEF RevokeFamily, Retire
      <4>4. \A n \in DOMAIN rows : rows'[n].family = f => rows'[n].used
        <5>1. \A n \in DOMAIN rows : rows[n].family = f => n \in S
          BY <2>2, <4>2 DEF FamilyOf
        <5>2. \A n \in DOMAIN rows : /\ rows'[n].family = rows[n].family
                                     /\ rows'[n].used = (rows[n].used \/ n \in S)
          BY <2>0, <4>3, RetireRows
        <5>3. QED
          BY <5>1, <5>2
      <4>5. QED
        BY <2>4, <4>4 DEF LiveRows, Live, FamilyOf
    <3>3. QED
      BY <3>1, <3>2
  <2>6. Adding(f)' = {}
    <3>1. \A s \in Requests \ {r} : phase'[s] = phase[s] /\ row'[s] = row[s]
      BY <2>0, <2>3 DEF Finish
    <3>2. \A s \in Adding(f)' : s \in Adding(f)
      <4> SUFFICES ASSUME NEW s \in Adding(f)' PROVE s \in Adding(f)
        OBVIOUS
      <4>1. s \in Requests /\ s # r /\ row[s] > 0 /\ rows'[row[s]].family = f
        BY <3>1 DEF Adding, Exchanging, Busy, FamilyOf
      <4>2. row[s] \in DOMAIN rows
        BY <1>1, <4>1, AtWork
      <4>3. QED
        BY <2>4, <3>1, <4>1, <4>2 DEF Adding, Exchanging, Busy, FamilyOf, RowsAge
    <3>3. QED
      BY <3>2
  <2>7. QED
    BY <2>4, <2>5, <2>6 DEF Ended
<1>2. QED
  BY <1>1, SessionsInvAlways, PTL DEF SessionsSpec, ReuseEnds

-----------------------------------------------------------------------------
(* Signing out *)

SigningOut(r) == phase[r] \in {"bump", "retire"}

\* A revocation that no other request ran beside is alone; once it has raised the
\* version, no access token of the new version was signed.
Alone ==
  \A r \in Requests : SigningOut(r) /\ r \notin crossed =>
    /\ Busy = {r}
    /\ phase[r] = "bump" => version < MaxVersion
    /\ phase[r] = "retire" => user = "erased" \/ version \notin access

\* Nobody is signing out unobserved, or it goes on alone.
LEMMA AloneStep ==
  ASSUME SessionsInv, Alone, [SessionsNext]_sessionsVars
  PROVE  Alone'
<1>0. /\ phase \in [Requests -> Phases]
      /\ user \in {"active", "inactive", "erased"} /\ version \in 0 .. MaxVersion
      /\ access \subseteq 0 .. version /\ crossed \subseteq Requests
  BY DEF SessionsInv, SessionsTypeOK
\* A step of another request than the one that signs out.
<1>s. ASSUME NEW r \in Requests, phase[r] \notin {"idle", "bump", "retire"},
             phase' \in [Requests -> Phases], phase'[r] \notin {"bump", "retire"},
             \A s \in Requests \ {r} : phase'[s] = phase[s], UNCHANGED crossed
      PROVE  Alone'
  <2>1. r \in Busy
    BY <1>s DEF Busy
  <2>2. \A s \in Requests : SigningOut(s)' => s # r /\ SigningOut(s)
    BY <1>s DEF SigningOut
  <2>3. QED
    BY <1>s, <2>1, <2>2 DEF Alone
<1>1. ASSUME NEW r \in Requests, NEW d \in Devices, SignIn(r, d) \/ Refresh(r, d) PROVE Alone'
  <2>1. /\ \A s \in Requests : SigningOut(s)' => SigningOut(s)
        /\ \A s \in Requests : SigningOut(s) => s \in crossed'
    BY <1>0, <1>1 DEF SignIn, Refresh, Start, SigningOut
  <2>2. QED
    BY <2>1 DEF Alone
<1>2. ASSUME NEW r \in Requests, NEW d \in Devices, Revoke(r, d) PROVE Alone'
  <2> SUFFICES ASSUME NEW s \in Requests, SigningOut(s)', s \notin crossed'
               PROVE  /\ Busy' = {s}
                      /\ phase'[s] = "bump" => version' < MaxVersion
                      /\ phase'[s] = "retire" => user' = "erased" \/ version' \notin access'
    BY DEF Alone
  <2>1. s = r
    BY <1>0, <1>2 DEF Revoke, Start, SigningOut
  <2>2. Busy = {} /\ phase'[s] = "bump"
    BY <1>0, <1>2, <2>1 DEF Revoke, Start
  <2>3. Busy' = {s}
    BY <1>0, <1>2, <2>1, <2>2 DEF Revoke, Start, Busy
  <2>4. version' < MaxVersion
    BY <1>2 DEF Revoke, account
  <2>5. QED
    BY <2>2, <2>3, <2>4
<1>3. ASSUME NEW r \in Requests, Sign(r, "sign", "open") \/ Sign(r, "renew", "reply") PROVE Alone'
  BY <1>0, <1>3, <1>s DEF Sign, Finish, Advance, Phases, past
<1>4. ASSUME NEW r \in Requests, Open(r) \/ Issue(r) PROVE Alone'
  BY <1>0, <1>4, <1>s DEF Open, Issue, Fail, Finish, Phases, past
<1>5. ASSUME NEW r \in Requests, Present(r) \/ Save(r) PROVE Alone'
  BY <1>0, <1>5, <1>s DEF Present, Save, Fail, Finish, Advance, Phases, past
<1>6. ASSUME NEW r \in Requests, Reply(r) PROVE Alone'
  BY <1>0, <1>6, <1>s DEF Reply, Finish, Phases
<1>7. ASSUME NEW r \in Requests, Bump(r) PROVE Alone'
  <2>1. /\ phase[r] = "bump" /\ phase' = [phase EXCEPT ![r] = "retire"]
        /\ UNCHANGED <<crossed, user, access>>
        /\ version' = IF user = "erased" \/ version = MaxVersion THEN version ELSE version + 1
    BY <1>7 DEF Bump, Advance, past
  <2> SUFFICES ASSUME NEW s \in Requests, SigningOut(s)', s \notin crossed
               PROVE  /\ Busy' = {s}
                      /\ phase'[s] = "bump" => version' < MaxVersion
                      /\ phase'[s] = "retire" => user' = "erased" \/ version' \notin access'
    BY <2>1 DEF Alone
  <2>2. Busy' = Busy /\ r \in Busy
    BY <1>0, <2>1 DEF Busy
  <2>3. SigningOut(s) /\ Busy = {s} /\ s = r
    BY <1>0, <2>1, <2>2 DEF SigningOut, Alone
  <2>4. phase'[s] = "retire" /\ version < MaxVersion
    BY <1>0, <2>1, <2>3 DEF SigningOut, Alone
  <2>5. user = "erased" \/ version' \notin access
    BY <1>0, <2>1, <2>4, SessionsConstants
  <2>6. QED
    BY <2>1, <2>2, <2>3, <2>4, <2>5
<1>8. ASSUME NEW r \in Requests, RetireAll(r) PROVE Alone'
  <2>1. /\ phase[r] = "retire" /\ phase' = [phase EXCEPT ![r] = "idle"]
        /\ crossed' = crossed \ {r}
    BY <1>8 DEF RetireAll, Finish
  <2>2. \A s \in Requests : ~(SigningOut(s)' /\ s \notin crossed')
    <3> SUFFICES ASSUME NEW s \in Requests, SigningOut(s)', s \notin crossed' PROVE FALSE
      OBVIOUS
    <3>1. s # r /\ SigningOut(s) /\ s \notin crossed
      BY <1>0, <2>1 DEF SigningOut
    <3>2. Busy = {s} /\ r \in Busy
      BY <2>1, <3>1 DEF Alone, Busy
    <3>3. QED
      BY <3>1, <3>2
  <2>3. QED
    BY <2>2 DEF Alone
<1>9. ASSUME UNCHANGED <<phase, version, crossed>>, access' \subseteq access,
             user = "erased" => user' = "erased"
      PROVE  Alone'
  BY <1>9 DEF Alone, SigningOut, Busy
<1>10. ASSUME NEW n \in DOMAIN rows, RowExpires(n) PROVE Alone'
  BY <1>9, <1>10 DEF RowExpires, job, account
<1>11. ASSUME NEW v \in access, AccessExpires(v) PROVE Alone'
  BY <1>9, <1>11 DEF AccessExpires, account, job, past
<1>12. ASSUME NEW state \in {"active", "inactive", "erased"}, SetUser(state) PROVE Alone'
  BY <1>9, <1>12 DEF SetUser, job
<1>13. CASE UNCHANGED sessionsVars
  BY <1>9, <1>13 DEF sessionsVars, account, job, past
<1>14. QED
  BY <1>1, <1>2, <1>3, <1>4, <1>5, <1>6, <1>7, <1>8, <1>10, <1>11, <1>12, <1>13
  DEF SessionsNext, Exchange

LEMMA AloneAlways == SessionsSpec => []Alone
<1>1. SessionsInit => Alone
  BY DEF SessionsInit, Alone, SigningOut
<1>2. QED
  BY <1>1, AloneStep, SessionsInvAlways, PTL DEF SessionsSpec

\* A revocation nothing ran beside signs the user out everywhere.
THEOREM RevocationAlwaysSignsOut == SessionsSpec => RevocationSignsOut
<1> DEFINE Out ==
      \A r \in Requests :
        phase[r] = "retire" /\ phase'[r] = "idle" /\ r \notin crossed
          => ~Accepted' /\ \A n \in DOMAIN rows : ~Live(n)'
<1>1. ASSUME SessionsInv, Alone, [SessionsNext]_sessionsVars PROVE Out
  <2> SUFFICES ASSUME NEW r \in Requests,
                      phase[r] = "retire", phase'[r] = "idle", r \notin crossed
               PROVE  ~Accepted' /\ \A n \in DOMAIN rows : ~Live(n)'
    OBVIOUS
  <2>0. phase \in [Requests -> Phases] /\ SessionsTypeOK
    BY <1>1 DEF SessionsInv, SessionsTypeOK
  <2>1. RetireAll(r)
    <3>1. ASSUME NEW s \in Requests, NEW d \in Devices, SignIn(s, d) \/ Refresh(s, d) \/ Revoke(s, d)
          PROVE  FALSE
      BY <2>0, <3>1 DEF SignIn, Refresh, Revoke, Start
    <3>2. ASSUME NEW s \in Requests,
                 Sign(s, "sign", "open") \/ Sign(s, "renew", "reply") \/ Open(s) \/ Reply(s)
                 \/ Save(s) \/ Issue(s) \/ Bump(s) \/ Present(s)
          PROVE  FALSE
      BY <2>0, <3>2 DEF Sign, Open, Reply, Save, Issue, Bump, Present, Finish, Fail, Advance
    <3>3. ASSUME NEW s \in Requests, RetireAll(s) PROVE s = r
      BY <2>0, <3>3 DEF RetireAll, Finish
    <3>4. CASE UNCHANGED job \/ UNCHANGED sessionsVars
      BY <3>4 DEF job, sessionsVars
    <3>5. QED
      BY <1>1, <3>1, <3>2, <3>3, <3>4
      DEF SessionsNext, Exchange, RowExpires, AccessExpires, SetUser
  <2>2. user = "erased" \/ version \notin access
    BY <1>1 DEF Alone, SigningOut
  <2>3. ~Accepted'
    BY <2>1, <2>2 DEF RetireAll, account, Accepted
  <2>4. PICK S : S = DOMAIN rows
    OBVIOUS
  <2>5. Retire(S)
    BY <2>1, <2>4 DEF RetireAll
  <2>6. \A n \in DOMAIN rows : rows'[n].used
    BY <2>0, <2>4, <2>5, RetireRows
  <2>7. QED
    BY <2>3, <2>6 DEF Live
<1>2. QED
  BY <1>1, SessionsInvAlways, AloneAlways, PTL DEF SessionsSpec, RevocationSignsOut

\* What ends a session ends it for good.
THEOREM SessionsAlwaysEnd == SessionsSpec => SessionsEnd
BY EndedForGood, ReuseAlwaysEnds, RevocationAlwaysSignsOut, PTL DEF SessionsEnd

-----------------------------------------------------------------------------
(* The device that behaves *)

\* A device lays claim to the row it holds and to those its requests work with.
Claimed(d, n) == holds[d] = n \/ \E r \in Busy : device[r] = d /\ row[r] = n

\* Every request is some device's, and no two devices claim rows of one family.
Apart ==
  /\ \A r \in Busy : device[r] \in Devices
  /\ \A d, e \in Devices : \A m, n \in DOMAIN rows :
       Claimed(d, m) /\ Claimed(e, n) /\ FamilyOf(m) = FamilyOf(n) => d = e

LEMMA ApartStep ==
  ASSUME SessionsInv, Apart, [SessionsNext]_sessionsVars
  PROVE  Apart'
<1>0. /\ SessionsTypeOK /\ Len(rows) \in Nat /\ DOMAIN rows = 1 .. Len(rows)
      /\ phase \in [Requests -> Phases] /\ device \in [Requests -> Devices \cup {NoDevice}]
      /\ row \in [Requests -> 0 .. Len(rows)] /\ holds \in [Devices -> 0 .. Len(rows)]
      /\ \A r \in Requests : phase[r] \in {"look", "save", "issue", "renew", "reply"} => row[r] > 0
  BY DEF SessionsInv, SessionsTypeOK
<1>a. RowsAge
  BY RowsOnlyAge
<1>c. ASSUME DOMAIN rows' = DOMAIN rows, \A r \in Busy' : device'[r] \in Devices,
             \A d \in Devices : \A n \in DOMAIN rows : Claimed(d, n)' => Claimed(d, n)
      PROVE  Apart'
  BY <1>a, <1>c DEF Apart, RowsAge, FamilyOf
<1>1. ASSUME NEW r \in Requests, NEW d \in Devices, SignIn(r, d) \/ Revoke(r, d) PROVE Apart'
  <2>1. /\ UNCHANGED rows /\ \A e \in Devices : holds'[e] = holds[e] \/ holds'[e] = 0
        /\ row'[r] = 0 /\ device'[r] = d
        /\ \A s \in Requests \ {r} : phase'[s] = phase[s] /\ device'[s] = device[s] /\ row'[s] = row[s]
    BY <1>0, <1>1 DEF SignIn, Revoke, Start, stored
  <2>2. \A s \in Busy' : device'[s] \in Devices
    BY <2>1 DEF Busy, Apart
  <2>3. ASSUME NEW e \in Devices, NEW n \in DOMAIN rows, Claimed(e, n)' PROVE Claimed(e, n)
    <3>1. n # 0
      BY <1>0
    <3>2. CASE holds'[e] = n
      BY <2>1, <3>1, <3>2 DEF Claimed
    <3>3. ASSUME NEW s \in Busy', device'[s] = e, row'[s] = n PROVE Claimed(e, n)
      BY <2>1, <3>1, <3>3 DEF Claimed, Busy
    <3>4. QED
      BY <2>3, <3>2, <3>3 DEF Claimed
  <2>4. QED
    BY <1>c, <2>1, <2>2, <2>3
<1>2. ASSUME NEW r \in Requests, NEW d \in Devices, Refresh(r, d) PROVE Apart'
  <2>1. /\ UNCHANGED <<rows, holds>> /\ row'[r] = holds[d] /\ device'[r] = d
        /\ \A s \in Requests \ {r} : phase'[s] = phase[s] /\ device'[s] = device[s] /\ row'[s] = row[s]
    BY <1>0, <1>2 DEF Refresh, Start, stored
  <2>2. \A s \in Busy' : device'[s] \in Devices
    BY <2>1 DEF Busy, Apart
  <2>3. ASSUME NEW e \in Devices, NEW n \in DOMAIN rows, Claimed(e, n)' PROVE Claimed(e, n)
    <3>1. n # 0
      BY <1>0
    <3>2. CASE holds'[e] = n
      BY <2>1, <3>1, <3>2 DEF Claimed
    <3>3. ASSUME NEW s \in Busy', device'[s] = e, row'[s] = n PROVE Claimed(e, n)
      BY <2>1, <3>1, <3>3 DEF Claimed, Busy
    <3>4. QED
      BY <2>3, <3>2, <3>3 DEF Claimed
  <2>4. QED
    BY <1>c, <2>1, <2>2, <2>3
<1>3. ASSUME NEW r \in Requests, UNCHANGED <<device, row, holds>>, phase[r] # "idle",
             \A s \in Requests \ {r} : phase'[s] = phase[s], DOMAIN rows' = DOMAIN rows
      PROVE  Apart'
  BY <1>0, <1>c, <1>3 DEF Claimed, Busy, Apart
<1>4. ASSUME NEW r \in Requests, Finish(r), phase[r] # "idle", DOMAIN rows' = DOMAIN rows,
             \A d \in Devices : holds'[d] = holds[d] \/ (d = device[r] /\ holds'[d] = row[r])
      PROVE  Apart'
  <2>1. /\ phase'[r] = "idle"
        /\ \A s \in Requests \ {r} : phase'[s] = phase[s] /\ device'[s] = device[s] /\ row'[s] = row[s]
    BY <1>0, <1>4 DEF Finish
  <2>2. QED
    BY <1>0, <1>c, <1>4, <2>1 DEF Claimed, Busy, Apart
\* A row is added, and the request that added it works with that one now.
<1>5. ASSUME NEW r \in Requests, NEW g, NewRow(r, g), phase[r] \in {"open", "issue"},
             phase' \in [Requests -> Phases], phase'[r] # "idle",
             \A s \in Requests \ {r} : phase'[s] = phase[s],
             UNCHANGED <<holds, device>>,
             g = Len(rows) + 1 \/ (phase[r] = "issue" /\ g = FamilyOf(row[r]))
      PROVE  Apart'
  <2>. PICK new \in Nat : new = Len(rows) + 1
    BY <1>0
  <2>1. Len(rows) < MaxTokens /\ (phase[r] = "issue" => row[r] \in DOMAIN rows /\ FamilyOf(row[r]) \in DOMAIN rows)
    BY <1>0, <1>5, RoomForOne, AtWork DEF Adders
  <2>2. g \in 1 .. MaxTokens
    BY <1>0, <1>5, <2>1, SessionsConstants
  <2>3. /\ DOMAIN rows' = DOMAIN rows \cup {new} /\ row' = [row EXCEPT ![r] = new]
        /\ \A n \in DOMAIN rows : rows'[n] = rows[n]
        /\ rows'[new] = [family |-> g, used |-> FALSE]
    BY <1>0, <1>5, <2>1, <2>2, NewRowRows
  <2>4. Busy' = Busy /\ r \in Busy /\ device[r] \in Devices
    BY <1>0, <1>5 DEF Busy, Apart
  <2>5. \A d \in Devices : \A n \in DOMAIN rows : Claimed(d, n)' => Claimed(d, n)
    BY <1>0, <1>5, <2>3, <2>4 DEF Claimed
  <2>6. \A d \in Devices : Claimed(d, new)' => d = device[r]
    <3>1. /\ \A d \in Devices : holds[d] # new
          /\ \A s \in Requests : row[s] # new
      BY <1>0
    <3>2. QED
      BY <1>0, <1>5, <2>3, <2>4, <3>1 DEF Claimed, Busy
  <2>7. \A n \in DOMAIN rows : FamilyOf(n) \in DOMAIN rows /\ FamilyOf(n)' = FamilyOf(n)
    BY <1>0, <2>3, ARow DEF FamilyOf
  <2>8. \A d \in Devices : \A n \in DOMAIN rows :
          Claimed(d, n) /\ FamilyOf(n) = g => d = device[r]
    <3>1. CASE g = new
      BY <1>0, <2>7, <3>1
    <3>2. CASE phase[r] = "issue" /\ g = FamilyOf(row[r])
      <4>1. Claimed(device[r], row[r])
        BY <2>4 DEF Claimed
      <4>2. QED
        BY <2>1, <2>4, <3>2, <4>1 DEF Apart
    <3>3. QED
      BY <1>5, <3>1, <3>2
  <2>9. FamilyOf(new)' = g
    BY <2>3 DEF FamilyOf
  <2>10. ASSUME NEW d \in Devices, NEW e \in Devices, NEW m \in DOMAIN rows', NEW n \in DOMAIN rows',
                Claimed(d, m)', Claimed(e, n)', FamilyOf(m)' = FamilyOf(n)'
         PROVE  d = e
    <3>1. CASE m = new /\ n = new
      BY <2>6, <2>10, <3>1
    <3>2. CASE m = new /\ n \in DOMAIN rows
      BY <2>5, <2>6, <2>7, <2>8, <2>9, <2>10, <3>2
    <3>3. CASE n = new /\ m \in DOMAIN rows
      BY <2>5, <2>6, <2>7, <2>8, <2>9, <2>10, <3>3
    <3>4. CASE m \in DOMAIN rows /\ n \in DOMAIN rows
      BY <2>5, <2>7, <2>10, <3>4 DEF Apart
    <3>5. QED
      BY <2>3, <2>10, <3>1, <3>2, <3>3, <3>4
  <2>11. QED
    BY <1>5, <2>4, <2>10 DEF Apart
<1>6. ASSUME NEW r \in Requests, Sign(r, "sign", "open") \/ Sign(r, "renew", "reply") PROVE Apart'
  <2>1. CASE Finish(r)
    BY <1>4, <1>6, <2>1 DEF Sign, stored
  <2>2. CASE Advance(r, "open") \/ Advance(r, "reply")
    BY <1>0, <1>3, <1>6, <2>2 DEF Sign, Advance, stored
  <2>3. QED
    BY <1>6, <2>1, <2>2 DEF Sign
<1>7. ASSUME NEW r \in Requests, Open(r) \/ Issue(r) PROVE Apart'
  <2>1. CASE user = "erased"
    BY <1>4, <1>7, <2>1 DEF Open, Issue, Fail
  <2>2. CASE Open(r) /\ user # "erased"
    <3>. PICK g : g = Len(rows) + 1
      OBVIOUS
    <3>1. NewRow(r, g) /\ phase' = [phase EXCEPT ![r] = "reply"] /\ UNCHANGED holds /\ phase[r] = "open"
      BY <2>2 DEF Open, NewRow
    <3>2. UNCHANGED device
      BY <3>1 DEF NewRow
    <3>3. phase' \in [Requests -> Phases] /\ phase'[r] # "idle" /\ \A s \in Requests \ {r} : phase'[s] = phase[s]
      BY <1>0, <3>1 DEF Phases
    <3>4. QED
      BY <1>5, <3>1, <3>2, <3>3
  <2>3. CASE Issue(r) /\ user # "erased"
    <3>. PICK g : g = FamilyOf(row[r])
      OBVIOUS
    <3>1. NewRow(r, g) /\ phase' = [phase EXCEPT ![r] = "renew"] /\ UNCHANGED holds /\ phase[r] = "issue"
      BY <2>3 DEF Issue, NewRow
    <3>2. UNCHANGED device
      BY <3>1 DEF NewRow
    <3>3. phase' \in [Requests -> Phases] /\ phase'[r] # "idle" /\ \A s \in Requests \ {r} : phase'[s] = phase[s]
      BY <1>0, <3>1 DEF Phases
    <3>4. QED
      BY <1>5, <3>1, <3>2, <3>3
  <2>4. QED
    BY <1>7, <2>1, <2>2, <2>3
<1>8. ASSUME NEW r \in Requests, Present(r) \/ Save(r) PROVE Apart'
  <2>1. DOMAIN rows' = DOMAIN rows /\ phase[r] # "idle"
    BY <1>0, <1>8, MarkingAddsNoRow DEF Present, Save
  <2>2. CASE Fail(r)
    BY <1>4, <2>1, <2>2 DEF Fail
  <2>3. CASE Advance(r, "save") \/ Advance(r, "issue")
    <3>1. UNCHANGED holds /\ UNCHANGED <<device, row>> /\ \A s \in Requests \ {r} : phase'[s] = phase[s]
      BY <1>0, <1>8, <2>3 DEF Present, Save, Advance, Fail
    <3>2. QED
      BY <1>3, <2>1, <3>1
  <2>4. QED
    BY <1>8, <2>2, <2>3 DEF Present, Save
<1>9. ASSUME NEW r \in Requests, Reply(r) PROVE Apart'
  BY <1>0, <1>4, <1>9 DEF Reply, stored
<1>10. ASSUME NEW r \in Requests, Bump(r) PROVE Apart'
  BY <1>0, <1>3, <1>10 DEF Bump, Advance, stored
<1>11. ASSUME NEW r \in Requests, RetireAll(r) PROVE Apart'
  <2>1. DOMAIN rows' = DOMAIN rows
    BY <1>0, <1>11, MarkingAddsNoRow
  <2>2. QED
    BY <1>4, <1>11, <2>1 DEF RetireAll
<1>12. ASSUME UNCHANGED <<rows, holds, job>> PROVE Apart'
  BY <1>12, <1>c DEF Claimed, Busy, Apart, job
<1>13. ASSUME NEW n \in DOMAIN rows, RowExpires(n) PROVE Apart'
  BY <1>12, <1>13 DEF RowExpires
<1>14. ASSUME NEW v \in access, AccessExpires(v) PROVE Apart'
  BY <1>12, <1>14 DEF AccessExpires, stored
<1>15. ASSUME NEW state \in {"active", "inactive", "erased"}, SetUser(state) PROVE Apart'
  BY <1>12, <1>15 DEF SetUser, stored
<1>16. CASE UNCHANGED sessionsVars
  BY <1>12, <1>16 DEF sessionsVars, stored
<1>17. QED
  BY <1>1, <1>2, <1>6, <1>7, <1>8, <1>9, <1>10, <1>11, <1>13, <1>14, <1>15, <1>16
  DEF SessionsNext, Exchange

\* A request on its way to a token for a device.
Serving(r, d) == phase[r] \notin {"idle", "bump", "retire"} /\ device[r] = d

\* What is so for a device nothing untoward has happened to: it has one request
\* at a time, which works with the good row the device holds or has made one.
Fine(d) ==
  /\ user = "active"
  /\ \A r, s \in Requests : Serving(r, d) /\ Serving(s, d) => r = s
  /\ \A r \in Requests : Serving(r, d) =>
       /\ phase[r] \in {"sign", "open"} => holds[d] = 0
       /\ phase[r] \in {"look", "save"} => row[r] = holds[d] /\ Live(row[r])
       /\ phase[r] = "issue" => row[r] = holds[d]
       /\ phase[r] \in {"renew", "reply"} => Live(row[r])
  /\ holds[d] > 0 /\ (\A r \in Requests : ~Serving(r, d)) => Live(holds[d])

Undisturbed == \A d \in calm : Fine(d)

\* A step that is about another device and leaves good what is good of this one.
LEMMA FineKept ==
  ASSUME SessionsInv, Apart, NEW d \in Devices, Fine(d), user' = user, holds'[d] = holds[d],
         \A r \in Requests : Serving(r, d)' => Serving(r, d),
         \A r \in Requests : Serving(r, d) =>
           Serving(r, d)' /\ phase'[r] = phase[r] /\ row'[r] = row[r],
         \A n \in DOMAIN rows : Claimed(d, n) /\ Live(n) => Live(n)'
  PROVE  Fine(d)'
<1>0. /\ SessionsTypeOK /\ Len(rows) \in Nat /\ DOMAIN rows = 1 .. Len(rows)
      /\ row \in [Requests -> 0 .. Len(rows)] /\ holds \in [Devices -> 0 .. Len(rows)]
      /\ phase \in [Requests -> Phases]
      /\ \A r \in Requests : phase[r] \in {"look", "save", "issue", "renew", "reply"} => row[r] > 0
  BY DEF SessionsInv, SessionsTypeOK
<1>1. \A r, s \in Requests : Serving(r, d)' /\ Serving(s, d)' => r = s
  BY DEF Fine
<1>2. ASSUME NEW r \in Requests, Serving(r, d)'
      PROVE  /\ phase'[r] \in {"sign", "open"} => holds'[d] = 0
             /\ phase'[r] \in {"look", "save"} => row'[r] = holds'[d] /\ Live(row[r])'
             /\ phase'[r] = "issue" => row'[r] = holds'[d]
             /\ phase'[r] \in {"renew", "reply"} => Live(row[r])'
  <2>1. Serving(r, d) /\ phase'[r] = phase[r] /\ row'[r] = row[r]
    BY <1>2
  <2>2. CASE phase[r] \in {"look", "save", "renew", "reply"}
    <3>1. PICK n \in DOMAIN rows : n = row[r]
      BY <1>0, <2>2
    <3>2. Claimed(d, n) /\ Live(n)
      BY <2>1, <2>2, <3>1 DEF Claimed, Busy, Serving, Fine
    <3>3. Live(n)'
      BY <3>2
    <3>4. QED
      BY <2>1, <2>2, <3>1, <3>3 DEF Fine, Live
  <2>3. CASE phase[r] \notin {"look", "save", "renew", "reply"}
    BY <2>1, <2>3 DEF Fine
  <2>4. QED
    BY <2>2, <2>3
<1>3. ASSUME holds'[d] > 0, \A r \in Requests : ~Serving(r, d)' PROVE Live(holds[d])'
  <2>1. PICK n \in DOMAIN rows : n = holds[d]
    BY <1>0, <1>3
  <2>2. Live(n) /\ Claimed(d, n)
    BY <1>3, <2>1 DEF Fine, Claimed
  <2>3. Live(n)'
    BY <2>2
  <2>4. QED
    BY <2>1, <2>3 DEF Live
<1>4. QED
  BY <1>1, <1>2, <1>3 DEF Fine, Live

\* Of two devices neither retires the rows the other one claims.
LEMMA OthersRowsKept ==
  ASSUME SessionsInv, Apart, NEW r \in Requests, phase[r] \in {"look", "save"},
         NEW d \in Devices, device[r] # d, NEW S, Retire(S),
         \A n \in S \cap DOMAIN rows : FamilyOf(n) = FamilyOf(row[r]),
         UNCHANGED <<user, expired>>
  PROVE  \A n \in DOMAIN rows : Claimed(d, n) /\ Live(n) => Live(n)'
<1> SUFFICES ASSUME NEW n \in DOMAIN rows, Claimed(d, n), Live(n) PROVE Live(n)'
  OBVIOUS
<1>1. row[r] \in DOMAIN rows /\ r \in Busy
  BY DEF SessionsInv, SessionsTypeOK, Busy
<1>2. Claimed(device[r], row[r]) /\ device[r] \in Devices
  BY <1>1 DEF Claimed, Apart
<1>3. n \notin S
  BY <1>1, <1>2 DEF Apart
<1>4. rows'[n].used = rows[n].used
  BY <1>3, RetireRows, ARow DEF SessionsInv
<1>5. QED
  BY <1>4 DEF Live

LEMMA CalmDeviceStep ==
  ASSUME SessionsInv, Apart, Undisturbed, [SessionsNext]_sessionsVars
  PROVE  Undisturbed'
<1>0. /\ SessionsTypeOK /\ Len(rows) \in Nat /\ DOMAIN rows = 1 .. Len(rows)
      /\ phase \in [Requests -> Phases] /\ device \in [Requests -> Devices \cup {NoDevice}]
      /\ row \in [Requests -> 0 .. Len(rows)] /\ holds \in [Devices -> 0 .. Len(rows)]
      /\ \A r \in Requests : phase[r] \in {"look", "save", "issue", "renew", "reply"} => row[r] > 0
      /\ calm \subseteq Devices
  BY DEF SessionsInv, SessionsTypeOK
\* A step of a request of another device.
<1>k. ASSUME NEW r \in Requests, NEW d \in calm, ~Serving(r, d), ~Serving(r, d)',
             \A s \in Requests \ {r} : phase'[s] = phase[s] /\ device'[s] = device[s] /\ row'[s] = row[s],
             user' = user, holds'[d] = holds[d],
             \A n \in DOMAIN rows : Claimed(d, n) /\ Live(n) => Live(n)'
      PROVE  Fine(d)'
  <2>1. d \in Devices /\ Fine(d)
    BY <1>0, <1>k DEF Undisturbed
  <2>2. \A s \in Requests : Serving(s, d)' => Serving(s, d)
    BY <1>k DEF Serving
  <2>3. \A s \in Requests : Serving(s, d) => Serving(s, d)' /\ phase'[s] = phase[s] /\ row'[s] = row[s]
    BY <1>k DEF Serving
  <2>4. QED
    BY <1>k, <2>1, <2>2, <2>3, FineKept
<1>m. ASSUME UNCHANGED <<rows, user, expired>>
      PROVE  \A n : Live(n) => Live(n)'
  BY <1>m DEF Live
<1>1. ASSUME NEW r \in Requests, NEW e \in Devices, SignIn(r, e) PROVE Undisturbed'
  <2> SUFFICES ASSUME NEW d \in calm' PROVE Fine(d)'
    BY DEF Undisturbed
  <2>1. /\ UNCHANGED <<rows, user, expired>> /\ user = "active" /\ phase'[r] = "sign"
        /\ phase[r] = "idle" /\ device'[r] = e /\ \A s \in Busy : device[s] # e
        /\ holds' = [holds EXCEPT ![e] = 0] /\ calm' = calm \cup {e}
        /\ \A s \in Requests \ {r} : phase'[s] = phase[s] /\ device'[s] = device[s] /\ row'[s] = row[s]
    BY <1>0, <1>1 DEF SignIn, Start, stored, account
  <2>2. CASE d = e
    <3>1. \A s \in Requests : Serving(s, d)' <=> s = r
      BY <2>1, <2>2 DEF Serving, Busy
    <3>2. holds'[d] = 0
      BY <1>0, <2>1, <2>2
    <3>3. QED
      BY <2>1, <3>1, <3>2 DEF Fine
  <2>3. CASE d # e
    <3>1. d \in calm /\ holds'[d] = holds[d] /\ ~Serving(r, d) /\ ~Serving(r, d)'
      BY <1>0, <2>1, <2>3 DEF Serving
    <3>2. QED
      BY <1>k, <1>m, <2>1, <3>1
  <2>4. QED
    BY <2>2, <2>3
<1>2. ASSUME NEW r \in Requests, NEW e \in Devices, Refresh(r, e) PROVE Undisturbed'
  <2> SUFFICES ASSUME NEW d \in calm' PROVE Fine(d)'
    BY DEF Undisturbed
  <2>1. /\ UNCHANGED <<rows, user, expired, holds>> /\ phase'[r] = "look" /\ phase[r] = "idle"
        /\ device'[r] = e /\ row'[r] = holds[e] /\ holds[e] > 0 /\ d \in calm
        /\ d = e => \A s \in Busy : device[s] # e
        /\ \A s \in Requests \ {r} : phase'[s] = phase[s] /\ device'[s] = device[s] /\ row'[s] = row[s]
    BY <1>0, <1>2 DEF Refresh, Start, stored, account
  <2>2. CASE d = e
    <3>1. \A s \in Requests : Serving(s, d)' <=> s = r
      BY <2>1, <2>2 DEF Serving, Busy
    <3>2. \A s \in Requests : ~Serving(s, d)
      BY <2>1, <2>2 DEF Serving, Busy
    <3>3. user = "active" /\ Live(holds[d])
      BY <2>1, <2>2, <3>2 DEF Fine, Undisturbed
    <3>4. Live(row[r])'
      BY <2>1, <2>2, <3>3 DEF Live
    <3>5. QED
      BY <2>1, <2>2, <3>1, <3>3, <3>4 DEF Fine
  <2>3. CASE d # e
    <3>1. ~Serving(r, d) /\ ~Serving(r, d)'
      BY <2>1, <2>3 DEF Serving
    <3>2. QED
      BY <1>k, <1>m, <2>1, <3>1
  <2>4. QED
    BY <2>2, <2>3
<1>3. ASSUME NEW r \in Requests, NEW e \in Devices, Revoke(r, e) PROVE Undisturbed'
  <2>1. /\ UNCHANGED <<rows, user, expired, holds, calm>> /\ phase'[r] = "bump" /\ phase[r] = "idle"
        /\ \A s \in Requests \ {r} : phase'[s] = phase[s] /\ device'[s] = device[s] /\ row'[s] = row[s]
    BY <1>0, <1>3 DEF Revoke, Start, stored, account
  <2>2. \A d \in calm : ~Serving(r, d) /\ ~Serving(r, d)'
    BY <2>1 DEF Serving
  <2>3. QED
    BY <1>k, <1>m, <2>1, <2>2 DEF Undisturbed
<1>4. ASSUME NEW r \in Requests, Sign(r, "sign", "open") \/ Sign(r, "renew", "reply")
      PROVE  Undisturbed'
  <2>0. UNCHANGED <<rows, user, expired, holds, calm>>
    BY <1>4 DEF Sign, stored, account, past
  <2> SUFFICES ASSUME NEW d \in calm PROVE Fine(d)'
    BY <2>0 DEF Undisturbed
  <2>1. Fine(d) /\ user = "active"
    BY DEF Undisturbed, Fine
  <2>2. /\ UNCHANGED <<device, row>> /\ \A s \in Requests \ {r} : phase'[s] = phase[s]
        /\ \/ phase[r] = "sign" /\ phase'[r] = "open"
           \/ phase[r] = "renew" /\ phase'[r] = "reply"
    BY <1>0, <1>4, <2>1 DEF Sign, Advance
  <2>3. CASE device[r] = d
    <3>1. Serving(r, d) /\ \A s \in Requests : Serving(s, d) => s = r
      BY <2>1, <2>2, <2>3 DEF Serving, Fine
    <3>2. Serving(r, d)' /\ \A s \in Requests : Serving(s, d)' => s = r
      BY <2>2, <2>3, <3>1 DEF Serving
    <3>3. CASE phase'[r] = "open"
      BY <2>0, <2>1, <2>2, <3>1, <3>2, <3>3 DEF Fine
    <3>4. CASE phase'[r] = "reply"
      <4>1. Live(row[r]) /\ Live(row[r])'
        BY <2>0, <2>1, <2>2, <3>1, <3>4 DEF Fine, Live
      <4>2. QED
        BY <2>0, <2>1, <3>2, <3>4, <4>1 DEF Fine
    <3>5. QED
      BY <2>2, <3>3, <3>4
  <2>4. CASE device[r] # d
    <3>1. ~Serving(r, d) /\ ~Serving(r, d)'
      BY <2>2, <2>4 DEF Serving
    <3>2. QED
      BY <1>k, <1>m, <2>0, <2>2, <3>1
  <2>5. QED
    BY <2>3, <2>4
\* A row is added: good, and the only one its request works with.
<1>5. ASSUME NEW r \in Requests, NEW g, NewRow(r, g), phase[r] \in {"open", "issue"},
             phase'[r] \in {"reply", "renew"},
             \A s \in Requests \ {r} : phase'[s] = phase[s],
             UNCHANGED <<holds, calm, user, expired>>,
             g = Len(rows) + 1 \/ (phase[r] = "issue" /\ g = FamilyOf(row[r]))
      PROVE  Undisturbed'
  <2>. PICK new \in Nat : new = Len(rows) + 1
    BY <1>0
  <2>1. Len(rows) < MaxTokens /\ (phase[r] = "issue" => row[r] \in DOMAIN rows /\ FamilyOf(row[r]) \in DOMAIN rows)
    BY <1>0, <1>5, RoomForOne, AtWork DEF Adders
  <2>2. g \in 1 .. MaxTokens
    BY <1>0, <1>5, <2>1, SessionsConstants
  <2>3. /\ DOMAIN rows' = DOMAIN rows \cup {new} /\ row' = [row EXCEPT ![r] = new]
        /\ \A n \in DOMAIN rows : rows'[n] = rows[n]
        /\ rows'[new] = [family |-> g, used |-> FALSE] /\ UNCHANGED device
    BY <1>0, <1>5, <2>1, <2>2, NewRowRows DEF NewRow
  <2>4. \A n \in DOMAIN rows : Live(n) => Live(n)'
    BY <1>5, <2>3 DEF Live
  <2> SUFFICES ASSUME NEW d \in calm PROVE Fine(d)'
    BY <1>5 DEF Undisturbed
  <2>5. Fine(d) /\ user = "active"
    BY DEF Undisturbed, Fine
  <2>6. CASE device[r] = d
    <3>1. Serving(r, d) /\ \A s \in Requests : Serving(s, d) => s = r
      BY <1>5, <2>5, <2>6 DEF Serving, Fine
    <3>2. Serving(r, d)' /\ \A s \in Requests : Serving(s, d)' => s = r
      BY <1>5, <2>3, <2>6, <3>1 DEF Serving
    <3>3. new \notin expired /\ row'[r] = new
      BY <1>0, <2>3 DEF SessionsTypeOK
    <3>4. Live(row[r])'
      BY <1>5, <2>3, <2>5, <3>3 DEF Live
    <3>5. QED
      BY <1>5, <2>5, <3>2, <3>4 DEF Fine
  <2>7. CASE device[r] # d
    <3>1. ~Serving(r, d) /\ ~Serving(r, d)'
      BY <2>3, <2>7 DEF Serving
    <3>2. \A s \in Requests \ {r} : phase'[s] = phase[s] /\ device'[s] = device[s] /\ row'[s] = row[s]
      BY <1>0, <1>5, <2>3
    <3>3. QED
      BY <1>5, <1>k, <2>4, <3>1, <3>2
  <2>8. QED
    BY <2>6, <2>7
<1>6. ASSUME NEW r \in Requests, Open(r) PROVE Undisturbed'
  <2>0. UNCHANGED <<calm, user, expired>> /\ phase[r] = "open"
    BY <1>6 DEF Open, account, past
  <2>1. CASE user = "erased"
    <3>1. calm = {}
      BY <2>1 DEF Undisturbed, Fine
    <3>2. QED
      BY <2>0, <3>1 DEF Undisturbed
  <2>2. CASE user # "erased"
    <3>. PICK g : g = Len(rows) + 1
      OBVIOUS
    <3>1. NewRow(r, g) /\ phase' = [phase EXCEPT ![r] = "reply"] /\ UNCHANGED holds
      BY <1>6, <2>2 DEF Open, NewRow
    <3>2. phase'[r] = "reply" /\ \A s \in Requests \ {r} : phase'[s] = phase[s]
      BY <1>0, <3>1
    <3>3. QED
      BY <1>5, <2>0, <3>1, <3>2
  <2>3. QED
    BY <2>1, <2>2
<1>7. ASSUME NEW r \in Requests, Issue(r) PROVE Undisturbed'
  <2>0. UNCHANGED <<calm, user, expired>> /\ phase[r] = "issue"
    BY <1>7 DEF Issue, account, past
  <2>1. CASE user = "erased"
    <3>1. calm = {}
      BY <2>1 DEF Undisturbed, Fine
    <3>2. QED
      BY <2>0, <3>1 DEF Undisturbed
  <2>2. CASE user # "erased"
    <3>. PICK g : g = FamilyOf(row[r])
      OBVIOUS
    <3>1. NewRow(r, g) /\ phase' = [phase EXCEPT ![r] = "renew"] /\ UNCHANGED holds
      BY <1>7, <2>2 DEF Issue, NewRow
    <3>2. phase'[r] = "renew" /\ \A s \in Requests \ {r} : phase'[s] = phase[s]
      BY <1>0, <3>1
    <3>3. QED
      BY <1>5, <2>0, <3>1, <3>2
  <2>3. QED
    BY <2>1, <2>2
<1>8. ASSUME NEW r \in Requests, Reply(r) PROVE Undisturbed'
  <2>1. /\ UNCHANGED <<rows, user, expired>> /\ phase[r] = "reply" /\ phase'[r] = "idle" /\ calm' \subseteq calm
        /\ \A s \in Requests \ {r} : phase'[s] = phase[s] /\ device'[s] = device[s] /\ row'[s] = row[s]
        /\ \/ holds' = [holds EXCEPT ![device[r]] = row[r]]
           \/ UNCHANGED holds /\ device[r] \notin calm'
    BY <1>0, <1>8 DEF Reply, Finish, stored, account
  <2> SUFFICES ASSUME NEW d \in calm' PROVE Fine(d)'
    BY DEF Undisturbed
  <2>2. Fine(d) /\ user = "active" /\ d \in Devices
    BY <1>0, <2>1 DEF Undisturbed, Fine
  <2>3. CASE device[r] = d
    <3>1. Serving(r, d) /\ \A s \in Requests : Serving(s, d) => s = r
      BY <2>1, <2>2, <2>3 DEF Serving, Fine
    <3>2. \A s \in Requests : ~Serving(s, d)'
      BY <2>1, <3>1 DEF Serving
    <3>3. holds'[d] = row[r] /\ Live(row[r])
      BY <1>0, <2>1, <2>2, <2>3, <3>1 DEF Fine
    <3>4. Live(holds[d])'
      BY <2>1, <3>3 DEF Live
    <3>5. QED
      BY <2>1, <2>2, <3>2, <3>4 DEF Fine
  <2>4. CASE device[r] # d
    <3>1. ~Serving(r, d) /\ ~Serving(r, d)' /\ holds'[d] = holds[d] /\ d \in calm
      BY <1>0, <2>1, <2>4 DEF Serving
    <3>2. QED
      BY <1>k, <1>m, <2>1, <3>1
  <2>5. QED
    BY <2>3, <2>4
<1>9. ASSUME NEW r \in Requests, Present(r) PROVE Undisturbed'
  <2>1. /\ UNCHANGED <<calm, user, expired>> /\ phase[r] = "look" /\ row[r] \in DOMAIN rows
        /\ device[r] \in Devices
    BY <1>0, <1>9 DEF Present, account, past, Apart, Busy
  <2> SUFFICES ASSUME NEW d \in calm PROVE Fine(d)'
    BY <2>1 DEF Undisturbed
  <2>2. Fine(d) /\ user = "active" /\ d \in Devices
    BY <1>0 DEF Undisturbed, Fine
  <2>3. CASE device[r] = d
    <3>1. Serving(r, d) /\ \A s \in Requests : Serving(s, d) => s = r
      BY <2>1, <2>2, <2>3 DEF Serving, Fine
    <3>2. row[r] = holds[d] /\ Live(row[r])
      BY <2>1, <2>2, <3>1 DEF Fine
    <3>3. Advance(r, "save") /\ UNCHANGED <<rows, holds>>
      BY <1>9, <2>2, <3>2 DEF Present, Live, IsReuse
    <3>4. phase'[r] = "save" /\ UNCHANGED <<device, row>> /\ \A s \in Requests \ {r} : phase'[s] = phase[s]
      BY <1>0, <3>3 DEF Advance
    <3>5. Serving(r, d)' /\ \A s \in Requests : Serving(s, d)' => s = r
      BY <2>3, <3>1, <3>4 DEF Serving
    <3>6. Live(row[r])'
      BY <2>1, <3>2, <3>3, <3>4 DEF Live
    <3>7. QED
      BY <2>1, <2>2, <3>2, <3>3, <3>4, <3>5, <3>6 DEF Fine
  <2>4. CASE device[r] # d
    <3>1. /\ holds' = holds /\ ~Serving(r, d)
          /\ \A s \in Requests \ {r} : phase'[s] = phase[s] /\ device'[s] = device[s] /\ row'[s] = row[s]
          /\ phase'[r] = "idle" \/ device'[r] = device[r]
      BY <1>0, <1>9, <2>4 DEF Present, Fail, Finish, Advance, Serving
    <3>2. ~Serving(r, d)'
      BY <2>4, <3>1 DEF Serving
    <3>3. \A n \in DOMAIN rows : Claimed(d, n) /\ Live(n) => Live(n)'
      <4>1. CASE UNCHANGED rows
        BY <1>m, <2>1, <4>1
      <4>2. CASE RevokeFamily(row[r])
        <5>1. PICK S : S = {m \in DOMAIN rows : FamilyOf(m) = FamilyOf(row[r])}
          OBVIOUS
        <5>2. Retire(S)
          BY <4>2, <5>1 DEF RevokeFamily, Retire
        <5>3. \A n \in S \cap DOMAIN rows : FamilyOf(n) = FamilyOf(row[r])
          BY <5>1
        <5>4. QED
          BY <2>1, <2>2, <2>4, <5>2, <5>3, OthersRowsKept
      <4>3. QED
        BY <1>9, <4>1, <4>2 DEF Present
    <3>4. QED
      BY <1>k, <2>1, <3>1, <3>2, <3>3
  <2>5. QED
    BY <2>3, <2>4
<1>10. ASSUME NEW r \in Requests, Save(r) PROVE Undisturbed'
  <2>1. /\ UNCHANGED <<calm, user, expired>> /\ phase[r] = "save" /\ row[r] \in DOMAIN rows
        /\ device[r] \in Devices
    BY <1>0, <1>10 DEF Save, account, past, Apart, Busy
  <2> SUFFICES ASSUME NEW d \in calm PROVE Fine(d)'
    BY <2>1 DEF Undisturbed
  <2>2. Fine(d) /\ user = "active" /\ d \in Devices
    BY <1>0 DEF Undisturbed, Fine
  <2>3. Advance(r, "issue") /\ Retire({row[r]}) /\ UNCHANGED holds
    BY <1>10, <2>2 DEF Save
  <2>4. phase'[r] = "issue" /\ UNCHANGED <<device, row>> /\ \A s \in Requests \ {r} : phase'[s] = phase[s]
    BY <1>0, <2>3 DEF Advance
  <2>5. CASE device[r] = d
    <3>1. Serving(r, d) /\ \A s \in Requests : Serving(s, d) => s = r
      BY <2>1, <2>2, <2>5 DEF Serving, Fine
    <3>2. Serving(r, d)' /\ \A s \in Requests : Serving(s, d)' => s = r
      BY <2>4, <2>5, <3>1 DEF Serving
    <3>3. row[r] = holds[d]
      BY <2>1, <2>2, <3>1 DEF Fine
    <3>4. QED
      BY <2>1, <2>2, <2>3, <2>4, <3>2, <3>3 DEF Fine
  <2>6. CASE device[r] # d
    <3>1. ~Serving(r, d) /\ ~Serving(r, d)'
      BY <2>4, <2>6 DEF Serving
    <3>2. PICK S : S = {row[r]}
      OBVIOUS
    <3>3. Retire(S) /\ \A n \in S \cap DOMAIN rows : FamilyOf(n) = FamilyOf(row[r])
      BY <2>3, <3>2 DEF Retire
    <3>4. \A n \in DOMAIN rows : Claimed(d, n) /\ Live(n) => Live(n)'
      BY <2>1, <2>2, <2>6, <3>3, OthersRowsKept
    <3>5. QED
      BY <1>k, <2>1, <2>3, <2>4, <3>1, <3>4
  <2>7. QED
    BY <2>5, <2>6
<1>11. ASSUME NEW r \in Requests, Bump(r) PROVE Undisturbed'
  <2>1. /\ UNCHANGED <<rows, user, expired, holds, calm, device, row>> /\ phase'[r] = "retire"
        /\ phase[r] = "bump" /\ \A s \in Requests \ {r} : phase'[s] = phase[s]
    BY <1>0, <1>11 DEF Bump, Advance, stored, past
  <2>2. \A d \in calm : ~Serving(r, d) /\ ~Serving(r, d)'
    BY <2>1 DEF Serving
  <2>3. QED
    BY <1>k, <1>m, <2>1, <2>2 DEF Undisturbed
<1>12. ASSUME calm' = {} PROVE Undisturbed'
  BY <1>12 DEF Undisturbed
<1>13. ASSUME UNCHANGED <<rows, user, expired, holds, calm, job>> PROVE Undisturbed'
  BY <1>13 DEF Undisturbed, Fine, Serving, Live, job
<1>14. ASSUME NEW v \in access, AccessExpires(v) PROVE Undisturbed'
  BY <1>13, <1>14 DEF AccessExpires, account, stored, past
<1>15. CASE UNCHANGED sessionsVars
  BY <1>13, <1>15 DEF sessionsVars, account, stored, past
<1>16. QED
  BY <1>1, <1>2, <1>3, <1>4, <1>6, <1>7, <1>8, <1>9, <1>10, <1>11, <1>12, <1>14, <1>15
  DEF SessionsNext, Exchange, RetireAll, RowExpires, SetUser

\* A device that sends one request at a time and gets its answers keeps its
\* session, whatever other devices do: no rotation, reuse alarm or sign-in of
\* theirs touches a row of its family.
THEOREM CalmAlwaysKeepsSession == SessionsSpec => []CalmKeepsSession
<1>1. SessionsInit => Apart /\ Undisturbed
  BY DEF SessionsInit, Apart, Undisturbed, Fine, Serving, Busy, Claimed
<1>2. ASSUME SessionsInv, Undisturbed PROVE CalmKeepsSession
  <2> SUFFICES ASSUME NEW d \in calm, holds[d] > 0, \A r \in Busy : device[r] # d
               PROVE  Live(holds[d])
    BY DEF CalmKeepsSession
  <2>1. \A r \in Requests : ~Serving(r, d)
    BY DEF Serving, Busy
  <2>2. QED
    BY <1>2, <2>1 DEF Undisturbed, Fine
<1>3. QED
  BY <1>1, <1>2, SessionsInvAlways, ApartStep, CalmDeviceStep, PTL DEF SessionsSpec

\* What a session is to its device.
THEOREM TokensAlwaysGood == SessionsSpec => []GoodTokens
BY AlwaysOneGoodToken, CalmAlwaysKeepsSession, PTL DEF GoodTokens

=============================================================================
