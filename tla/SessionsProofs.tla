--------------------------- MODULE SessionsProofs ---------------------------
(***************************************************************************)
(* The sessions of one account, for any number of requests at once, any    *)
(* lifetimes and any policy: a family keeps its expiry and its successors, *)
(* what was ended stays ended, and the failures, the recovery codes, the   *)
(* branches of a family and the live sessions are within what the overlaps *)
(* of requests explain.                                                    *)
(***************************************************************************)
EXTENDS Sessions, SequenceTheorems, FiniteSetTheorems, TLAPS

-----------------------------------------------------------------------------
(* What a request is, from its fields in work, w, and what it wrote, o       *)

Row == [family : Nat, created : Nat, expires : Nat, rotated : Nat, by : Nat, revoked : Nat]

Empty(s) == s = <<>>

\* What is in a list.
Elements(s) == {s[k] : k \in DOMAIN s}

Sends(w, op) == ~Empty(w.steps) /\ Head(w.steps).op = op

\* The rows a bulk UPDATE has picked.
Picks(w) == IF Sends(w, "revoke") /\ ~Empty(w.seen) THEN Head(w.seen) ELSE {}

\* One bulk statement, insertion or cap in a request, and it comes last.
LastOK(steps) ==
    \A k \in DOMAIN steps : steps[k].op \in {"insert", "revoke", "cap"} => k = Len(steps)

IsRequest(w) ==
    /\ w = [kind |-> w.kind, steps |-> w.steps, said |-> w.said, note |-> w.note,
            now |-> w.now, seen |-> w.seen, beside |-> w.beside]
    /\ w.kind # "idle" /\ w.now \in Nat \ {0} /\ w.beside \in Nat
    /\ w.steps \in Seq(Elements(w.steps)) /\ LastOK(w.steps)

IsWrite(o) ==
    o = [user |-> o.user, sessions |-> o.sessions, dropped |-> o.dropped, added |-> o.added,
         left |-> o.left]

\* Rows by id, all of ids below n.
IsTable(T, n) ==
    /\ T = [i \in DOMAIN T |-> T[i]]
    /\ \A i \in DOMAIN T : i \in 1..(n - 1) /\ T[i] \in Row

-----------------------------------------------------------------------------
(* The family.  T are the committed rows, O those a request has written, D  *)
(* the statements it has still to send, P the rows it has picked.           *)

\* A row that stands for the session of this id keeps what never changes.
Kin(T, r, i) == i \in DOMAIN T => r.family = T[i].family /\ r.expires = T[i].expires

\* A new row starts a family or inherits the expiry of one.
Rooted(T, r, i) == r.family = i \/ (r.family \in DOMAIN T /\ r.expires = T[r.family].expires)

\* The successor of a row is there for the request that writes the row, or it is
\* about to insert it.
Linked(V, D, r, i) ==
    r.by # 0 =>
        /\ r.by > i
        /\ \/ r.by \in DOMAIN V /\ V[r.by].family = r.family
           \/ \E s \in D : s.op = "insert" /\ s.id = r.by /\ s.obj.family = r.family

RowOK(T, V, D, r, i) ==
    r \in Row /\ Kin(T, r, i) /\ Linked(V, D, r, i) /\ (i \notin DOMAIN T => Rooted(T, r, i))

RowsOK(T, O, D) == \A i \in DOMAIN O : RowOK(T, Overlay(O, T), D, O[i], i)

StepsOK(T, O, D, n) ==
    \A s \in D :
        /\ s.op = "session" => s.id \in DOMAIN T /\ RowOK(T, Overlay(O, T), D, s.obj, s.id)
        /\ s.op = "insert" => /\ s.obj \in Row /\ s.obj.by = 0 /\ Rooted(T, s.obj, s.id)
                              /\ s.id \in 1..(n - 1)
                              /\ s.id \notin DOMAIN T /\ s.id \notin DOMAIN O
                              /\ \A t \in D : t.op = "insert" => t = s
        /\ s.op = "cap" => DOMAIN O \subseteq DOMAIN T

\* Nobody is about to write a session of a family that was ended.
Spares(T, O, D, P, E) ==
    /\ \A i \in DOMAIN O : O[i].family \notin E
    /\ \A s \in D : s.op \in {"session", "insert"} => s.obj.family \notin E
    /\ \A i \in P : Overlay(O, T)[i].family \notin E

ClientOK(T, O, D, P, n, E) ==
    /\ RowsOK(T, O, D) /\ StepsOK(T, O, D, n)
    /\ P \subseteq DOMAIN Overlay(O, T)
    /\ Spares(T, O, D, P, E)

\* Ids a request was given and has not committed.
Given(T, O, D) == (DOMAIN O \cup {s.id : s \in {t \in D : t.op = "insert"}}) \ DOMAIN T

Lineage(T) ==
    \A i \in DOMAIN T :
        /\ T[i].family \in DOMAIN T
        /\ T[i].expires = T[T[i].family].expires
        /\ T[i].by # 0 => /\ T[i].by \in DOMAIN T /\ T[i].by > i
                          /\ T[T[i].by].family = T[i].family

-----------------------------------------------------------------------------
(* Requests that nothing was committed beside                               *)

Paired(r) == r.rotated = Never <=> r.by = 0

\* What such a request has read is what there is.
PairedFor(T, w, o) ==
    w # Idle /\ w.beside = 0 =>
        /\ \A i \in DOMAIN o.sessions : Paired(o.sessions[i])
        /\ \A s \in Elements(w.steps) : s.op \in {"session", "insert"} => Paired(s.obj)
        /\ Sends(w, "session") /\ ~Empty(w.seen)
              => Head(w.seen) = Overlay(o.sessions, T)[Head(w.steps).id]

\* Every session of the families it revokes is revoked, but for the one it spares.
Complete(T, w, o) ==
    /\ DOMAIN o.sessions \subseteq DOMAIN T
    /\ \A i \in DOMAIN T, j \in DOMAIN o.sessions :
          T[i].family = T[j].family /\ i # w.note => Overlay(o.sessions, T)[i].revoked # Never

\* What a bulk UPDATE picks.
Matching(T, s) ==
    {i \in DOMAIN T : T[i].family \in s.families /\ i # s.except /\ T[i].revoked = Never}

\* It ends sessions, after a write of the user or of the membership.
OnlyEnds(w) ==
    \A s \in Elements(w.steps) : /\ s.op \in {"user", "leave", "revoke"}
                                 /\ s.op = "revoke" => s.except \in {0, w.note}

\* A request that will end families has still to pick its rows, has picked them,
\* or has revoked them all.
EndingOK(T, w, o) ==
    w # Idle /\ w.said = "ended" /\ w.beside = 0 =>
        /\ OnlyEnds(w)
        /\ ~Empty(w.steps) => /\ Empty(o.sessions)
                             /\ w.steps[Len(w.steps)].op = "revoke"
        /\ Sends(w, "revoke") /\ ~Empty(w.seen) => Picks(w) = Matching(T, Head(w.steps))
        /\ Empty(w.steps) => Complete(T, w, o)

-----------------------------------------------------------------------------
(* The inductive invariant                                                  *)

\* One client, beside rows T of ids below n, ended families E and z overlaps.
Fine(T, w, o, n, E, z) ==
    /\ w = Idle \/ IsRequest(w)
    /\ w = Idle => o = Nothing
    /\ IsWrite(o) /\ IsTable(o.sessions, n)
    /\ ClientOK(T, o.sessions, Elements(w.steps), Picks(w), n, E)
    /\ z = 0 => PairedFor(T, w, o)
    /\ EndingOK(T, w, o)

GivenTo(T, w, o) == Given(T, o.sessions, Elements(w.steps))

\* The committed rows.
Stored(T, n, E, z) ==
    /\ IsTable(T, n) /\ Lineage(T)
    /\ z = 0 => \A i \in DOMAIN T : Paired(T[i])
    /\ E \subseteq DOMAIN T
    /\ \A i \in DOMAIN T : T[i].family \in E => T[i].revoked # Never

Numbers == nextId \in Nat \ {0} /\ clock \in Nat \ {0} /\ races \in Nat

Apart ==
    \A c, d \in Clients :
        c # d => GivenTo(sessions, work[c], own[c]) \cap GivenTo(sessions, work[d], own[d]) = {}

IInv ==
    /\ Numbers
    /\ work = [c \in Clients |-> work[c]] /\ own = [c \in Clients |-> own[c]]
    /\ Stored(sessions, nextId, ended, races)
    /\ \A c \in Clients : Fine(sessions, work[c], own[c], nextId, ended, races)
    /\ Apart

-----------------------------------------------------------------------------
(* Lists and overlays                                                       *)

\* A function on 1..n is a list of what it holds.
LEMMA ListOf ==
    ASSUME NEW n \in Nat, NEW s, s = [k \in 1..n |-> s[k]]
    PROVE  s \in Seq(Elements(s)) /\ Len(s) = n /\ DOMAIN s = 1..n
  <1>1. s \in [1..n -> Elements(s)]
    BY DEF Elements
  <1> QED  BY <1>1

\* What a list is once its head is gone.
LEMMA Pops ==
    ASSUME NEW s, s \in Seq(Elements(s)), ~Empty(s)
    PROVE  /\ Len(s) \in Nat /\ Len(s) >= 1 /\ DOMAIN s = 1..Len(s)
           /\ Head(s) = s[1] /\ Head(s) \in Elements(s)
           /\ Tail(s) \in Seq(Elements(Tail(s)))
           /\ Len(Tail(s)) = Len(s) - 1 /\ DOMAIN Tail(s) = 1..(Len(s) - 1)
           /\ \A k \in 1..(Len(s) - 1) : Tail(s)[k] = s[k + 1]
           /\ Elements(s) = {Head(s)} \cup Elements(Tail(s))
  <1>1. Len(s) \in Nat /\ Len(s) >= 1 /\ DOMAIN s = 1..Len(s)
    BY LenProperties, EmptySeq DEF Empty
  <1>2. /\ Head(s) = s[1] /\ Tail(s) \in Seq(Elements(s)) /\ Len(Tail(s)) = Len(s) - 1
        /\ \A k \in 1..Len(Tail(s)) : Tail(s)[k] = s[k + 1]
    BY HeadTailProperties DEF Empty
  <1>3. DOMAIN Tail(s) = 1..(Len(s) - 1) /\ \A k \in 1..(Len(s) - 1) : Tail(s)[k] = s[k + 1]
    BY <1>2, LenProperties
  <1>4. Tail(s) \in Seq(Elements(Tail(s)))
    <2>1. Len(Tail(s)) \in Nat /\ Tail(s) = [k \in 1..Len(Tail(s)) |-> Tail(s)[k]]
      BY <1>2, LenProperties
    <2> QED  BY <2>1, ListOf
  <1>5. Head(s) \in Elements(s)
    BY <1>1, <1>2 DEF Elements
  <1>6. Elements(s) = {Head(s)} \cup Elements(Tail(s))
    <2>1. ASSUME NEW k \in 1..Len(s) PROVE s[k] \in {Head(s)} \cup Elements(Tail(s))
      <3>1. CASE k = 1
        BY <1>2, <3>1
      <3>2. CASE k # 1
        <4>1. k - 1 \in 1..(Len(s) - 1) /\ (k - 1) + 1 = k
          BY <1>1, <3>2
        <4>2. Tail(s)[k - 1] = s[k]
          BY <1>3, <4>1
        <4>3. s[k] \in Elements(Tail(s))
          BY <1>3, <4>1, <4>2 DEF Elements
        <4> QED  BY <4>3
      <3> QED  BY <3>1, <3>2
    <2>2. ASSUME NEW k \in 1..(Len(s) - 1) PROVE Tail(s)[k] \in Elements(s)
      <3>1. k + 1 \in 1..Len(s)
        BY <1>1
      <3> QED  BY <1>1, <1>3, <3>1 DEF Elements
    <2> QED  BY <1>1, <1>3, <1>5, <2>1, <2>2 DEF Elements
  <1> QED  BY <1>1, <1>2, <1>3, <1>4, <1>5, <1>6

\* The lists of up to three statements.
LEMMA Tuples ==
    /\ <<>> \in Seq(Elements(<<>>)) /\ Elements(<<>>) = {} /\ Len(<<>>) = 0
    /\ \A x : /\ <<x>> \in Seq(Elements(<<x>>)) /\ Elements(<<x>>) = {x}
              /\ Len(<<x>>) = 1 /\ <<x>>[1] = x /\ <<x>> # <<>>
    /\ \A x, y : /\ <<x, y>> \in Seq(Elements(<<x, y>>)) /\ Elements(<<x, y>>) = {x, y}
                 /\ Len(<<x, y>>) = 2 /\ <<x, y>>[1] = x /\ <<x, y>>[2] = y /\ <<x, y>> # <<>>
    /\ \A x, y, z : /\ <<x, y, z>> \in Seq(Elements(<<x, y, z>>)) /\ Elements(<<x, y, z>>) = {x, y, z}
                    /\ Len(<<x, y, z>>) = 3 /\ <<x, y, z>>[1] = x /\ <<x, y, z>>[2] = y
                    /\ <<x, y, z>>[3] = z /\ <<x, y, z>> # <<>>
  <1>1. <<>> \in Seq(Elements(<<>>)) /\ Elements(<<>>) = {} /\ Len(<<>>) = 0
    BY EmptySeq DEF Elements
  <1>2. ASSUME NEW x
        PROVE  /\ <<x>> \in Seq(Elements(<<x>>)) /\ Elements(<<x>>) = {x}
               /\ Len(<<x>>) = 1 /\ <<x>>[1] = x /\ <<x>> # <<>>
    <2>1. <<x>> \in Seq({x}) /\ Len(<<x>>) = 1 /\ <<x>>[1] = x /\ <<x>> # <<>>
      OBVIOUS
    <2>2. DOMAIN <<x>> = 1..1
      BY <2>1, LenProperties
    <2>3. Elements(<<x>>) = {x}
      BY <2>1, <2>2 DEF Elements
    <2> QED  BY <2>1, <2>3
  <1>3. ASSUME NEW x, NEW y
        PROVE  /\ <<x, y>> \in Seq(Elements(<<x, y>>)) /\ Elements(<<x, y>>) = {x, y}
               /\ Len(<<x, y>>) = 2 /\ <<x, y>>[1] = x /\ <<x, y>>[2] = y /\ <<x, y>> # <<>>
    <2>1. <<x, y>> \in Seq({x, y}) /\ Len(<<x, y>>) = 2 /\ <<x, y>>[1] = x /\ <<x, y>>[2] = y
          /\ <<x, y>> # <<>>
      OBVIOUS
    <2>2. DOMAIN <<x, y>> = 1..2
      BY <2>1, LenProperties
    <2>3. Elements(<<x, y>>) = {x, y}
      BY <2>1, <2>2 DEF Elements
    <2> QED  BY <2>1, <2>3
  <1>4. ASSUME NEW x, NEW y, NEW z
        PROVE  /\ <<x, y, z>> \in Seq(Elements(<<x, y, z>>)) /\ Elements(<<x, y, z>>) = {x, y, z}
               /\ Len(<<x, y, z>>) = 3 /\ <<x, y, z>>[1] = x /\ <<x, y, z>>[2] = y
               /\ <<x, y, z>>[3] = z /\ <<x, y, z>> # <<>>
    <2>1. /\ <<x, y, z>> \in Seq({x, y, z}) /\ Len(<<x, y, z>>) = 3 /\ <<x, y, z>>[1] = x
          /\ <<x, y, z>>[2] = y /\ <<x, y, z>>[3] = z /\ <<x, y, z>> # <<>>
      OBVIOUS
    <2>2. DOMAIN <<x, y, z>> = 1..3
      BY <2>1, LenProperties
    <2>3. Elements(<<x, y, z>>) = {x, y, z}
      BY <2>1, <2>2 DEF Elements
    <2> QED  BY <2>1, <2>3
  <1> QED  BY <1>1, <1>2, <1>3, <1>4

\* A request sees its own rows over the committed ones.
LEMMA OverlayFacts ==
    ASSUME NEW O, NEW T
    PROVE  /\ DOMAIN Overlay(O, T) = DOMAIN O \cup DOMAIN T
           /\ \A i \in DOMAIN O : Overlay(O, T)[i] = O[i]
           /\ \A i \in DOMAIN T : i \notin DOMAIN O => Overlay(O, T)[i] = T[i]
  BY DEF Overlay

\* What a request sees is a table.
LEMMA OverlayIsFunction ==
    ASSUME NEW O, NEW T
    PROVE  Overlay(O, T) = [i \in DOMAIN Overlay(O, T) |-> Overlay(O, T)[i]]
  BY DEF Overlay

\* What a request has written, with one row more.
With(O, i, r) == Overlay([j \in {i} |-> r], O)

-----------------------------------------------------------------------------
(* One request, as its statements go out                                    *)

\* What a request sees of a table in order is in order.
LEMMA ViewOK ==
    ASSUME NEW T, NEW O, NEW D, NEW n, IsTable(T, n), Lineage(T), RowsOK(T, O, D),
           NEW i \in DOMAIN Overlay(O, T)
    PROVE  RowOK(T, Overlay(O, T), D, Overlay(O, T)[i], i)
  <1> DEFINE V == Overlay(O, T)
  <1>0. /\ DOMAIN V = DOMAIN O \cup DOMAIN T
        /\ \A j \in DOMAIN O : V[j] = O[j]
        /\ \A j \in DOMAIN T : j \notin DOMAIN O => V[j] = T[j]
    BY DEF Overlay
  <1>00. \A j \in DOMAIN O : RowOK(T, V, D, O[j], j)
    BY DEF RowsOK
  <1> HIDE DEF V
  <1>1. CASE i \in DOMAIN O
    BY <1>0, <1>00, <1>1 DEF V
  <1>2. CASE i \notin DOMAIN O
    <2>1. i \in DOMAIN T /\ V[i] = T[i] /\ T[i] \in Row
      BY <1>0, <1>2 DEF IsTable, V
    <2>2. ASSUME T[i].by # 0
          PROVE  T[i].by > i /\ T[i].by \in DOMAIN V /\ V[T[i].by].family = T[i].family
      <3>1. T[i].by \in DOMAIN T /\ T[i].by > i /\ T[T[i].by].family = T[i].family
        BY <2>1, <2>2 DEF Lineage
      <3>2. CASE T[i].by \in DOMAIN O
        <4>1. V[T[i].by] = O[T[i].by] /\ Kin(T, O[T[i].by], T[i].by)
          BY <1>0, <1>00, <3>2 DEF RowOK
        <4> QED  BY <1>0, <3>1, <4>1 DEF Kin
      <3>3. CASE T[i].by \notin DOMAIN O
        BY <1>0, <3>1, <3>3
      <3> QED  BY <3>2, <3>3
    <2> QED  BY <1>2, <2>1, <2>2 DEF RowOK, Kin, Linked, V
  <1> QED  BY <1>1, <1>2

\* A link is good as long as rows stay in their families and an announced row
\* stays announced or is there.
LEMMA LinkedKeeps ==
    ASSUME NEW V, NEW W, NEW D, NEW D1, NEW r, NEW i, Linked(V, D, r, i),
           \A j \in DOMAIN V : j \in DOMAIN W /\ W[j].family = V[j].family,
           \A s \in D : s.op = "insert" =>
               s \in D1 \/ (s.id \in DOMAIN W /\ W[s.id].family = s.obj.family)
    PROVE  Linked(W, D1, r, i)
  BY DEF Linked

\* A statement is sent that writes no session and is no insertion.
LEMMA LinkedSame ==
    ASSUME NEW V, NEW D, NEW q, NEW r, NEW i, Linked(V, D, q, i),
           r.by = q.by, q.family = r.family
    PROVE  Linked(V, D, r, i)
  BY DEF Linked

\* Statements that are sent leave the rest of a request as it was.
LEMMA PopKeeps ==
    ASSUME NEW T, NEW O, NEW D, NEW D1, NEW P, NEW n, NEW E, ClientOK(T, O, D, P, n, E),
           D1 \subseteq D, \A s \in D : s.op = "insert" => s \in D1
    PROVE  ClientOK(T, O, D1, {}, n, E)
  <1>1. RowsOK(T, O, D1)
    BY LinkedKeeps DEF ClientOK, RowsOK, RowOK
  <1>2. StepsOK(T, O, D1, n)
    BY LinkedKeeps DEF ClientOK, StepsOK, RowOK
  <1> QED  BY <1>1, <1>2 DEF ClientOK, Spares

\* Rows are written that are in order, and announced rows inserted.
LEMMA RowsKeep ==
    ASSUME NEW T, NEW O, NEW D, NEW P, NEW n, NEW E, ClientOK(T, O, D, P, n, E),
           IsTable(T, n), Lineage(T),
           NEW O1, NEW D1, D1 \subseteq D, DOMAIN O \subseteq DOMAIN O1,
           \A j \in DOMAIN O1 : RowOK(T, Overlay(O, T), D, O1[j], j) /\ O1[j].family \notin E,
           \A j \in DOMAIN O : O1[j].family = O[j].family,
           \A s \in D : s.op = "insert" =>
               s \in D1 \/ (s.id \in DOMAIN O1 /\ O1[s.id].family = s.obj.family),
           \A s \in D1 : /\ s.op = "insert" => s.id \notin DOMAIN O1
                         /\ s.op = "cap" => DOMAIN O1 \subseteq DOMAIN T
    PROVE  ClientOK(T, O1, D1, {}, n, E)
  <1> DEFINE V == Overlay(O, T)
             W == Overlay(O1, T)
  <1>1. /\ DOMAIN V = DOMAIN O \cup DOMAIN T
        /\ \A j \in DOMAIN O : V[j] = O[j]
        /\ \A j \in DOMAIN T : j \notin DOMAIN O => V[j] = T[j]
    BY DEF Overlay
  <1>2. /\ DOMAIN W = DOMAIN O1 \cup DOMAIN T
        /\ \A j \in DOMAIN O1 : W[j] = O1[j]
        /\ \A j \in DOMAIN T : j \notin DOMAIN O1 => W[j] = T[j]
    BY DEF Overlay
  <1>3. \A j \in DOMAIN O1 : RowOK(T, V, D, O1[j], j)
    OBVIOUS
  <1>4. RowsOK(T, O, D) /\ StepsOK(T, O, D, n) /\ Spares(T, O, D, P, E)
    BY DEF ClientOK
  <1> HIDE DEF V, W
  <1>5. ASSUME NEW j \in DOMAIN V PROVE j \in DOMAIN W /\ W[j].family = V[j].family
    <2>1. j \in DOMAIN W
      BY <1>1, <1>2, <1>5
    <2>2. CASE j \in DOMAIN O
      BY <1>1, <1>2, <2>2
    <2>3. CASE j \notin DOMAIN O /\ j \in DOMAIN O1
      <3>1. j \in DOMAIN T /\ V[j] = T[j] /\ W[j] = O1[j]
        BY <1>1, <1>2, <1>5, <2>3
      <3> QED  BY <1>3, <2>1, <2>3, <3>1 DEF RowOK, Kin
    <2>4. CASE j \notin DOMAIN O1
      BY <1>1, <1>2, <1>5, <2>1, <2>4
    <2> QED  BY <2>2, <2>3, <2>4
  <1>6. ASSUME NEW x, NEW j, RowOK(T, V, D, x, j) PROVE RowOK(T, W, D1, x, j)
    <2>1. \A s \in D : s.op = "insert" => s \in D1 \/ (s.id \in DOMAIN W /\ W[s.id].family = s.obj.family)
      BY <1>2
    <2>2. Linked(V, D, x, j)
      BY <1>6 DEF RowOK
    <2>3. Linked(W, D1, x, j)
      BY <1>5, <2>1, <2>2, LinkedKeeps
    <2> QED  BY <1>6, <2>3 DEF RowOK
  <1>7. RowsOK(T, O1, D1)
    <2>1. \A j \in DOMAIN O1 : RowOK(T, W, D1, O1[j], j)
      BY <1>3, <1>6
    <2> QED  BY <2>1 DEF RowsOK, W
  <1>8. StepsOK(T, O1, D1, n)
    <2>2. ASSUME NEW s \in D1, s.op = "session"
          PROVE  s.id \in DOMAIN T /\ RowOK(T, W, D1, s.obj, s.id)
      BY <1>4, <1>6, <2>2 DEF StepsOK, V
    <2>3. ASSUME NEW s \in D1, s.op = "insert"
          PROVE  /\ s.obj \in Row /\ s.obj.by = 0 /\ Rooted(T, s.obj, s.id)
                 /\ s.id \in 1..(n - 1)
                 /\ s.id \notin DOMAIN T /\ s.id \notin DOMAIN O1
                 /\ \A t \in D1 : t.op = "insert" => t = s
      BY <1>4, <2>3 DEF StepsOK
    <2> QED  BY <2>2, <2>3 DEF StepsOK, W
  <1>9. Spares(T, O1, D1, {}, E)
    BY <1>4 DEF Spares
  <1> QED  BY <1>7, <1>8, <1>9 DEF ClientOK

\* Ids given out meanwhile change nothing.
LEMMA MoreIds ==
    ASSUME NEW T, NEW O, NEW D, NEW P, NEW E, NEW n \in Nat, NEW m \in Nat, n <= m
    PROVE  /\ IsTable(T, n) => IsTable(T, m)
           /\ ClientOK(T, O, D, P, n, E) => ClientOK(T, O, D, P, m, E)
  <1>1. \A i \in 1..(n - 1) : i \in 1..(m - 1)
    OBVIOUS
  <1>2. IsTable(T, n) => IsTable(T, m)
    BY <1>1 DEF IsTable
  <1>3. StepsOK(T, O, D, n) => StepsOK(T, O, D, m)
    BY <1>1 DEF StepsOK
  <1> QED  BY <1>2, <1>3 DEF ClientOK

-----------------------------------------------------------------------------
(* A commit, for the rows and for the requests beside it                    *)

\* The rows of a request, over the committed ones, make a table of whole families.
LEMMA CommitRows ==
    ASSUME NEW T, NEW O, NEW n, NEW E, ClientOK(T, O, {}, {}, n, E),
           IsTable(T, n), IsTable(O, n), Lineage(T)
    PROVE  IsTable(Overlay(O, T), n) /\ Lineage(Overlay(O, T))
  <1> DEFINE V == Overlay(O, T)
  <1>1. /\ DOMAIN V = DOMAIN O \cup DOMAIN T
        /\ \A j \in DOMAIN O : V[j] = O[j]
        /\ \A j \in DOMAIN T : j \notin DOMAIN O => V[j] = T[j]
    BY DEF Overlay
  <1>2. V = [i \in DOMAIN V |-> V[i]]
    BY OverlayIsFunction
  <1>3. RowsOK(T, O, {})
    BY DEF ClientOK
  <1>4. ASSUME NEW i \in DOMAIN V PROVE RowOK(T, V, {}, V[i], i)
    BY <1>3, <1>4, ViewOK
  <1> HIDE DEF V
  <1>5. IsTable(V, n)
    BY <1>1, <1>2 DEF IsTable
  <1>6. ASSUME NEW i \in DOMAIN T
        PROVE  i \in DOMAIN V /\ V[i].family = T[i].family /\ V[i].expires = T[i].expires
    BY <1>1, <1>4, <1>6 DEF RowOK, Kin
  <1>7. ASSUME NEW i \in DOMAIN V
        PROVE  V[i].family \in DOMAIN V /\ V[i].expires = V[V[i].family].expires
    <2>1. CASE i \in DOMAIN T
      <3>1. T[i].family \in DOMAIN T /\ T[i].expires = T[T[i].family].expires
        BY <2>1 DEF Lineage
      <3> QED  BY <1>6, <2>1, <3>1
    <2>2. CASE i \notin DOMAIN T
      <3>1. Rooted(T, V[i], i)
        BY <1>4, <2>2 DEF RowOK
      <3> QED  BY <1>6, <1>7, <3>1 DEF Rooted
    <2> QED  BY <2>1, <2>2
  <1>8. ASSUME NEW i \in DOMAIN V, V[i].by # 0
        PROVE  V[i].by \in DOMAIN V /\ V[i].by > i /\ V[V[i].by].family = V[i].family
    <2>1. Linked(V, {}, V[i], i)
      BY <1>4 DEF RowOK
    <2> QED  BY <1>8, <2>1 DEF Linked
  <1>9. Lineage(V)
    BY <1>7, <1>8 DEF Lineage
  <1> QED  BY <1>5, <1>9 DEF V

\* O2 is committed while another request has written O.
LEMMA CommitBeside ==
    ASSUME NEW T, NEW O2, NEW O, NEW D, NEW P, NEW n, NEW E,
           ClientOK(T, O2, {}, {}, n, E), ClientOK(T, O, D, P, n, E), Lineage(T),
           Given(T, O, D) \cap Given(T, O2, {}) = {}
    PROVE  /\ ClientOK(Overlay(O2, T), O, D, P, n, E)
           /\ Given(Overlay(O2, T), O, D) \subseteq Given(T, O, D)
  <1> DEFINE T1 == Overlay(O2, T)
             V == Overlay(O, T)
             W == Overlay(O, T1)
  <1>1. /\ DOMAIN V = DOMAIN O \cup DOMAIN T
        /\ \A j \in DOMAIN O : V[j] = O[j]
        /\ \A j \in DOMAIN T : j \notin DOMAIN O => V[j] = T[j]
    BY DEF Overlay
  <1>2. /\ DOMAIN T1 = DOMAIN O2 \cup DOMAIN T
        /\ \A j \in DOMAIN O2 : T1[j] = O2[j]
        /\ \A j \in DOMAIN T : j \notin DOMAIN O2 => T1[j] = T[j]
    BY DEF Overlay
  <1>3. /\ DOMAIN W = DOMAIN O \cup DOMAIN T1
        /\ \A j \in DOMAIN O : W[j] = O[j]
        /\ \A j \in DOMAIN T1 : j \notin DOMAIN O => W[j] = T1[j]
    BY DEF Overlay
  <1>4. RowsOK(T, O, D) /\ StepsOK(T, O, D, n) /\ Spares(T, O, D, P, E) /\ P \subseteq DOMAIN V
        /\ RowsOK(T, O2, {})
    BY DEF ClientOK
  <1> HIDE DEF V, W, T1
  <1>5. ASSUME NEW j \in DOMAIN T
        PROVE  j \in DOMAIN T1 /\ T1[j].family = T[j].family /\ T1[j].expires = T[j].expires
    BY <1>2, <1>4 DEF RowsOK, RowOK, Kin
  <1>6. \A j \in DOMAIN V : j \in DOMAIN W /\ W[j].family = V[j].family
    BY <1>1, <1>3, <1>5
  <1>7. \A j \in DOMAIN T1 : j \notin DOMAIN T => j \in Given(T, O2, {})
    BY <1>2 DEF Given
  <1>8. ASSUME NEW r, NEW j, RowOK(T, V, D, r, j), j \in DOMAIN T1 => j \in DOMAIN T
        PROVE  RowOK(T1, W, D, r, j)
    <2>1. Linked(V, D, r, j)
      BY <1>8 DEF RowOK
    <2>2. Linked(W, D, r, j)
      BY <1>6, <2>1, LinkedKeeps
    <2>3. Kin(T1, r, j)
      BY <1>5, <1>8 DEF RowOK, Kin
    <2>4. j \notin DOMAIN T1 => Rooted(T1, r, j)
      BY <1>5, <1>8 DEF RowOK, Rooted
    <2> QED  BY <1>8, <2>2, <2>3, <2>4 DEF RowOK
  <1>9. RowsOK(T1, O, D)
    <2>1. ASSUME NEW j \in DOMAIN O PROVE RowOK(T1, W, D, O[j], j)
      <3>1. j \notin DOMAIN T => j \in Given(T, O, D)
        BY <2>1 DEF Given
      <3>2. RowOK(T, V, D, O[j], j)
        BY <1>4 DEF RowsOK, V
      <3> QED  BY <1>7, <1>8, <3>1, <3>2
    <2> QED  BY <2>1 DEF RowsOK, W
  <1>10. StepsOK(T1, O, D, n)
    <2>1. ASSUME NEW s \in D, s.op = "session"
          PROVE  s.id \in DOMAIN T1 /\ RowOK(T1, W, D, s.obj, s.id)
      <3>1. s.id \in DOMAIN T /\ RowOK(T, V, D, s.obj, s.id)
        BY <1>4, <2>1 DEF StepsOK, V
      <3> QED  BY <1>5, <1>8, <3>1
    <2>2. ASSUME NEW s \in D, s.op = "insert"
          PROVE  /\ s.obj \in Row /\ s.obj.by = 0 /\ Rooted(T1, s.obj, s.id)
                 /\ s.id \in 1..(n - 1)
                 /\ s.id \notin DOMAIN T1 /\ s.id \notin DOMAIN O
                 /\ \A t \in D : t.op = "insert" => t = s
      <3>1. /\ s.obj \in Row /\ s.obj.by = 0 /\ Rooted(T, s.obj, s.id)
            /\ s.id \in 1..(n - 1)
            /\ s.id \notin DOMAIN T /\ s.id \notin DOMAIN O
            /\ \A t \in D : t.op = "insert" => t = s
        BY <1>4, <2>2 DEF StepsOK
      <3>2. Rooted(T1, s.obj, s.id)
        BY <1>5, <3>1 DEF Rooted
      <3>3. s.id \in Given(T, O, D)
        BY <2>2, <3>1 DEF Given
      <3> QED  BY <1>7, <3>1, <3>2, <3>3
    <2>3. ASSUME NEW s \in D, s.op = "cap" PROVE DOMAIN O \subseteq DOMAIN T1
      BY <1>4, <1>5, <2>3 DEF StepsOK
    <2> QED  BY <2>1, <2>2, <2>3 DEF StepsOK, W
  <1>11. Spares(T1, O, D, P, E)
    <2>1. \A i \in P : W[i].family \notin E
      BY <1>4, <1>6 DEF Spares, V
    <2> QED  BY <1>4, <2>1 DEF Spares, W
  <1>12. P \subseteq DOMAIN W
    BY <1>4, <1>6
  <1>13. Given(T1, O, D) \subseteq Given(T, O, D)
    BY <1>5 DEF Given
  <1> QED  BY <1>9, <1>10, <1>11, <1>12, <1>13 DEF ClientOK, W, T1

-----------------------------------------------------------------------------
(* The invariant around one client's step                                   *)

\* Who has no request has written nothing.
LEMMA IdleFine ==
    ASSUME NEW T, NEW n, NEW E, NEW z
    PROVE  Fine(T, Idle, Nothing, n, E, z) /\ GivenTo(T, Idle, Nothing) = {}
  <1>1. /\ Idle.steps = <<>> /\ Nothing.sessions = <<>> /\ Elements(<<>>) = {}
        /\ DOMAIN <<>> = {} /\ IsWrite(Nothing)
    BY Tuples DEF Idle, Nothing, IsWrite
  <1>2. Picks(Idle) = {}
    BY <1>1 DEF Picks, Sends, Empty
  <1>3. IsTable(<<>>, n)
    BY <1>1 DEF IsTable
  <1>4. ClientOK(T, <<>>, {}, {}, n, E) /\ Given(T, <<>>, {}) = {}
    BY <1>1 DEF ClientOK, RowsOK, StepsOK, Spares, Given
  <1>5. PairedFor(T, Idle, Nothing) /\ EndingOK(T, Idle, Nothing)
    BY DEF PairedFor, EndingOK
  <1> QED  BY <1>1, <1>2, <1>3, <1>4, <1>5 DEF Fine, GivenTo

\* Ids given to others disturb no request.
LEMMA FineMore ==
    ASSUME NEW T, NEW w, NEW o, NEW E, NEW z, NEW n \in Nat, NEW m \in Nat, n <= m,
           Fine(T, w, o, n, E, z)
    PROVE  Fine(T, w, o, m, E, z)
  BY MoreIds DEF Fine

\* The ids a request has not committed were given.
LEMMA GivenBelow ==
    ASSUME NEW T, NEW w, NEW o, NEW n, NEW E, NEW z, Fine(T, w, o, n, E, z)
    PROVE  GivenTo(T, w, o) \subseteq 1..(n - 1)
  <1>1. IsTable(o.sessions, n) /\ StepsOK(T, o.sessions, Elements(w.steps), n)
    BY DEF Fine, ClientOK
  <1> QED  BY <1>1 DEF IsTable, StepsOK, GivenTo, Given

\* A step of one request that commits nothing: what it leaves is in order, and it
\* takes no ids but new ones.
LEMMA ClientStep ==
    ASSUME IInv, NEW c \in Clients, NEW w, NEW o, NEW n \in Nat, n >= nextId,
           work' = [work EXCEPT ![c] = w], own' = [own EXCEPT ![c] = o], nextId' = n,
           UNCHANGED <<sessions, clock, ended, races>>,
           Fine(sessions, w, o, n, ended, races),
           \A i \in GivenTo(sessions, w, o) :
               i \in GivenTo(sessions, work[c], own[c]) \/ i >= nextId
    PROVE  IInv'
  <1>1. /\ nextId \in Nat /\ \A d \in Clients : d # c => work'[d] = work[d] /\ own'[d] = own[d]
        /\ work'[c] = w /\ own'[c] = o
        /\ work' = [d \in Clients |-> work'[d]] /\ own' = [d \in Clients |-> own'[d]]
    BY DEF IInv, Numbers
  <1>2. Numbers'
    BY <1>1 DEF IInv, Numbers
  <1>3. Stored(sessions, n, ended, races)
    <2>1. IsTable(sessions, n)
      BY <1>1, MoreIds DEF IInv, Stored
    <2> QED  BY <2>1 DEF IInv, Stored
  <1>4. ASSUME NEW d \in Clients
        PROVE  Fine(sessions, work'[d], own'[d], n, ended, races)
    <2>1. CASE d = c
      BY <1>1, <2>1
    <2>2. CASE d # c
      <3>1. Fine(sessions, work[d], own[d], nextId, ended, races)
        BY DEF IInv
      <3> QED  BY <1>1, <2>2, <3>1, FineMore
    <2> QED  BY <2>1, <2>2
  <1>5. ASSUME NEW d \in Clients, d # c
        PROVE  GivenTo(sessions, w, o) \cap GivenTo(sessions, work[d], own[d]) = {}
    <2>1. GivenTo(sessions, work[d], own[d]) \subseteq 1..(nextId - 1)
      <3>1. Fine(sessions, work[d], own[d], nextId, ended, races)
        BY DEF IInv
      <3> QED  BY <3>1, GivenBelow
    <2>2. GivenTo(sessions, work[c], own[c]) \cap GivenTo(sessions, work[d], own[d]) = {}
      BY <1>5 DEF IInv, Apart
    <2>3. \A i \in 1..(nextId - 1) : ~(i >= nextId)
      BY <1>1
    <2> QED  BY <2>1, <2>2, <2>3
  <1>6. Apart'
    <2>1. ASSUME NEW d \in Clients, NEW e \in Clients, d # e
          PROVE  GivenTo(sessions, work'[d], own'[d]) \cap GivenTo(sessions, work'[e], own'[e]) = {}
      <3>1. CASE d = c
        BY <1>1, <1>5, <2>1, <3>1
      <3>2. CASE e = c
        BY <1>1, <1>5, <2>1, <3>2
      <3>3. CASE d # c /\ e # c
        BY <1>1, <2>1, <3>3 DEF IInv, Apart
      <3> QED  BY <3>1, <3>2, <3>3
    <2> QED  BY <2>1 DEF Apart
  <1> QED  BY <1>1, <1>2, <1>3, <1>4, <1>6 DEF IInv

\* A request after a read, and after a statement with S left to send.
Reading(w, x) == [w EXCEPT !.seen = x]
Sent(w, S) == [w EXCEPT !.steps = S, !.seen = <<>>]

\* A request in progress is not idle.
LEMMA NotIdle ==
    ASSUME NEW w, IsRequest(w)
    PROVE  w # Idle
  BY DEF IsRequest, Idle

\* The second read of update() changes what was seen and nothing else.
LEMMA ReadingIs ==
    ASSUME NEW w, NEW x, IsRequest(w)
    PROVE  /\ IsRequest(Reading(w, x))
           /\ Reading(w, x).steps = w.steps /\ Reading(w, x).said = w.said
           /\ Reading(w, x).note = w.note /\ Reading(w, x).beside = w.beside
           /\ Reading(w, x).seen = x
  BY DEF IsRequest, Reading

\* A statement that is sent changes what is left to send and nothing else.
LEMMA SentIs ==
    ASSUME NEW w, NEW S, IsRequest(w), S \in Seq(Elements(S)), LastOK(S)
    PROVE  /\ IsRequest(Sent(w, S))
           /\ Sent(w, S).steps = S /\ Sent(w, S).said = w.said
           /\ Sent(w, S).note = w.note /\ Sent(w, S).beside = w.beside
           /\ Empty(Sent(w, S).seen) /\ Picks(Sent(w, S)) = {}
  <1>1. /\ Sent(w, S).steps = S /\ Sent(w, S).said = w.said /\ Sent(w, S).kind = w.kind
        /\ Sent(w, S).note = w.note /\ Sent(w, S).beside = w.beside /\ Sent(w, S).now = w.now
        /\ Sent(w, S).seen = <<>>
        /\ Sent(w, S) = [kind |-> w.kind, steps |-> S, said |-> w.said, note |-> w.note,
                         now |-> w.now, seen |-> <<>>, beside |-> w.beside]
    <2>1. w = [kind |-> w.kind, steps |-> w.steps, said |-> w.said, note |-> w.note,
               now |-> w.now, seen |-> w.seen, beside |-> w.beside]
      BY DEF IsRequest
    <2>2. [w EXCEPT !.steps = S] =
              [kind |-> w.kind, steps |-> S, said |-> w.said, note |-> w.note,
               now |-> w.now, seen |-> w.seen, beside |-> w.beside]
      BY <2>1
    <2>3. Sent(w, S) = [kind |-> w.kind, steps |-> S, said |-> w.said, note |-> w.note,
                        now |-> w.now, seen |-> <<>>, beside |-> w.beside]
      <3>1. Sent(w, S) = [[w EXCEPT !.steps = S] EXCEPT !.seen = <<>>]
        BY <2>1 DEF Sent
      <3> QED  BY <2>2, <3>1
    <2> QED  BY <2>3
  <1>2. Picks(Sent(w, S)) = {}
    BY <1>1 DEF Picks, Empty
  <1>3. w.kind # "idle" /\ w.now \in Nat \ {0} /\ w.beside \in Nat
    BY DEF IsRequest
  <1>4. IsRequest(Sent(w, S))
    BY <1>1, <1>3 DEF IsRequest
  <1>5. Empty(Sent(w, S).seen)
    <2>1. Sent(w, S).seen = <<>>
      BY <1>1
    <2> QED  BY <2>1 DEF Empty
  <1> QED  BY <1>1, <1>2, <1>4, <1>5

\* The last statement stays last.
LEMMA TailLastOK ==
    ASSUME NEW s, s \in Seq(Elements(s)), ~Empty(s), LastOK(s)
    PROVE  LastOK(Tail(s))
  <1>1. /\ Len(s) \in Nat /\ Len(s) >= 1 /\ DOMAIN s = 1..Len(s)
        /\ Len(Tail(s)) = Len(s) - 1 /\ DOMAIN Tail(s) = 1..(Len(s) - 1)
        /\ \A k \in 1..(Len(s) - 1) : Tail(s)[k] = s[k + 1]
    BY Pops
  <1>0. Len(s) \in Nat /\ Len(Tail(s)) = Len(s) - 1
    BY <1>1
  <1>2. ASSUME NEW k \in 1..(Len(s) - 1), Tail(s)[k].op \in {"insert", "revoke", "cap"}
        PROVE  k = Len(Tail(s))
    <2>1. k + 1 \in DOMAIN s /\ s[k + 1].op \in {"insert", "revoke", "cap"}
      BY <1>1, <1>2
    <2>2. k + 1 = Len(s)
      BY <2>1 DEF LastOK
    <2>3. k = Len(s) - 1
      BY <1>0, <2>2
    <2> QED  BY <1>0, <2>3
  <1> QED  BY <1>1, <1>2 DEF LastOK

\* A last statement leaves nothing to send.
LEMMA LastLeavesNothing ==
    ASSUME NEW s, s \in Seq(Elements(s)), ~Empty(s), LastOK(s),
           Head(s).op \in {"insert", "revoke", "cap"}
    PROVE  Len(s) = 1 /\ Empty(Tail(s)) /\ Elements(s) = {Head(s)} /\ Elements(Tail(s)) = {}
  <1>1. /\ Len(s) \in Nat /\ Len(s) >= 1 /\ DOMAIN s = 1..Len(s) /\ Head(s) = s[1]
        /\ Len(Tail(s)) = Len(s) - 1 /\ Tail(s) \in Seq(Elements(Tail(s)))
        /\ Elements(s) = {Head(s)} \cup Elements(Tail(s))
    BY Pops
  <1>0. Len(s) \in Nat /\ Len(Tail(s)) = Len(s) - 1
    BY <1>1
  <1>2. 1 = Len(s)
    BY <1>1 DEF LastOK
  <1>3. Empty(Tail(s)) /\ Elements(Tail(s)) = {}
    <2>1. Len(Tail(s)) = 0
      BY <1>0, <1>2
    <2>2. Tail(s) = <<>>
      BY <1>1, <2>1, EmptySeq
    <2> QED  BY <2>2, Tuples DEF Empty
  <1> QED  BY <1>1, <1>2, <1>3

\* Who has something to send has a request in progress.
LEMMA RequestOf ==
    ASSUME NEW T, NEW w, NEW o, NEW n, NEW E, NEW z, Fine(T, w, o, n, E, z), ~Empty(w.steps)
    PROVE  IsRequest(w) /\ w # Idle /\ w.steps \in Seq(Elements(w.steps)) /\ LastOK(w.steps)
  BY DEF Fine, IsRequest, Idle, Empty

\* A request that ends families beside no other has them still to revoke.
LEMMA EndingSays ==
    ASSUME NEW T, NEW w, NEW o, EndingOK(T, w, o),
           w # Idle, w.said = "ended", w.beside = 0, ~Empty(w.steps)
    PROVE  OnlyEnds(w) /\ Empty(o.sessions) /\ w.steps[Len(w.steps)].op = "revoke"
  BY DEF EndingOK

\* The id given last is below the next one.
LEMMA Below ==
    ASSUME NEW n \in Nat, n >= 1, n # 1
    PROVE  n - 1 \in 1..(n - 1) /\ (n - 1) + 1 = n
  OBVIOUS

\* A statement that writes no session.
LEMMA PopFine ==
    ASSUME NEW T, NEW w, NEW o, NEW n, NEW E, NEW z, Fine(T, w, o, n, E, z),
           ~Empty(w.steps), Head(w.steps).op \notin {"insert", "revoke"},
           NEW o1, IsWrite(o1), o1.sessions = o.sessions
    PROVE  /\ Fine(T, Sent(w, Tail(w.steps)), o1, n, E, z)
           /\ GivenTo(T, Sent(w, Tail(w.steps)), o1) \subseteq GivenTo(T, w, o)
  <1> DEFINE S == Tail(w.steps)
             w1 == Sent(w, S)
  <1>1. IsRequest(w) /\ w # Idle /\ w.steps \in Seq(Elements(w.steps)) /\ LastOK(w.steps)
    BY RequestOf
  <1>2. /\ S \in Seq(Elements(S)) /\ Elements(w.steps) = {Head(w.steps)} \cup Elements(S)
        /\ Len(w.steps) \in Nat /\ Len(w.steps) >= 1 /\ DOMAIN w.steps = 1..Len(w.steps)
        /\ Len(S) = Len(w.steps) - 1 /\ \A k \in 1..(Len(w.steps) - 1) : S[k] = w.steps[k + 1]
        /\ Head(w.steps) = w.steps[1]
    BY <1>1, Pops
  <1>3. LastOK(S)
    BY <1>1, TailLastOK
  <1> HIDE DEF S
  <1>4. /\ IsRequest(w1) /\ w1.steps = S /\ w1.said = w.said /\ w1.note = w.note
        /\ w1.beside = w.beside /\ Empty(w1.seen) /\ Picks(w1) = {}
    BY <1>1, <1>2, <1>3, SentIs
  <1>5. w1 # Idle
    BY <1>4, NotIdle
  <1> HIDE DEF w1
  <1>6. ClientOK(T, o1.sessions, Elements(S), {}, n, E)
    <2>1. ClientOK(T, o.sessions, Elements(w.steps), Picks(w), n, E)
      BY DEF Fine
    <2>2. Elements(S) \subseteq Elements(w.steps)
          /\ \A s \in Elements(w.steps) : s.op = "insert" => s \in Elements(S)
      BY <1>2
    <2> QED  BY <2>1, <2>2, PopKeeps
  <1>7. PairedFor(T, w, o) => PairedFor(T, w1, o1)
    BY <1>1, <1>2, <1>4 DEF PairedFor
  <1>8. EndingOK(T, w1, o1)
    <2> SUFFICES ASSUME w1.said = "ended", w1.beside = 0
                 PROVE  /\ OnlyEnds(w1)
                        /\ ~Empty(S) /\ Empty(o1.sessions) /\ S[Len(S)].op = "revoke"
      BY <1>4 DEF EndingOK, Picks
    <2>1. OnlyEnds(w) /\ Empty(o.sessions) /\ w.steps[Len(w.steps)].op = "revoke"
      <3>1. EndingOK(T, w, o)
        BY DEF Fine
      <3>2. w # Idle /\ w.said = "ended" /\ w.beside = 0 /\ ~Empty(w.steps)
        BY <1>1, <1>4
      <3> QED  BY <3>1, <3>2, EndingSays
    <2>2. Len(w.steps) # 1
      BY <1>2, <2>1
    <2>3. Len(S) >= 1 /\ S[Len(S)] = w.steps[Len(w.steps)]
      <3>1. Len(w.steps) - 1 \in 1..(Len(w.steps) - 1) /\ (Len(w.steps) - 1) + 1 = Len(w.steps)
        <4>1. Len(w.steps) \in Nat /\ Len(w.steps) >= 1
          BY <1>2
        <4> QED  BY <2>2, <4>1, Below, Zenon
      <3>2. S[Len(w.steps) - 1] = w.steps[Len(w.steps)]
        BY <1>2, <3>1
      <3> QED  BY <1>2, <3>1, <3>2
    <2>4. ~Empty(S)
      BY <2>3, Tuples DEF Empty
    <2>5. OnlyEnds(w1)
      BY <1>2, <1>4, <2>1 DEF OnlyEnds
    <2> QED  BY <2>1, <2>3, <2>4, <2>5
  <1>9. GivenTo(T, w1, o1) \subseteq GivenTo(T, w, o)
    BY <1>2, <1>4 DEF GivenTo, Given
  <1> QED  BY <1>4, <1>5, <1>6, <1>7, <1>8, <1>9 DEF Fine, w1, S

\* An UPDATE keeps a row a row, of one of the two families it could be of.
LEMMA MergeRow ==
    ASSUME NEW current \in Row, NEW obj \in Row, NEW seen
    PROVE  /\ Merge(current, obj, seen) \in Row
           /\ Merge(current, obj, seen).family \in {obj.family, current.family}
           /\ Merge(current, obj, seen).expires \in {obj.expires, current.expires}
           /\ Merge(current, obj, seen).by \in {obj.by, current.by}
           /\ seen = current => /\ Merge(current, obj, seen).rotated = obj.rotated
                                /\ Merge(current, obj, seen).by = obj.by
  <1> DEFINE r == Merge(current, obj, seen)
  <1>1. DOMAIN obj = {"family", "created", "expires", "rotated", "by", "revoked"}
    BY DEF Row
  <1>2. DOMAIN r = DOMAIN obj /\ \A k \in DOMAIN obj : r[k] = IF obj[k] # seen[k] THEN obj[k] ELSE current[k]
    BY DEF Merge
  <1>3. /\ r["family"] \in {obj["family"], current["family"]}
        /\ r["created"] \in {obj["created"], current["created"]}
        /\ r["expires"] \in {obj["expires"], current["expires"]}
        /\ r["rotated"] \in {obj["rotated"], current["rotated"]}
        /\ r["by"] \in {obj["by"], current["by"]}
        /\ r["revoked"] \in {obj["revoked"], current["revoked"]}
    BY <1>1, <1>2
  <1>4. r = [family |-> r["family"], created |-> r["created"], expires |-> r["expires"],
             rotated |-> r["rotated"], by |-> r["by"], revoked |-> r["revoked"]]
    BY <1>1, <1>2 DEF Merge
  <1>5. seen = current => r["rotated"] = obj["rotated"] /\ r["by"] = obj["by"]
    BY <1>1, <1>2
  <1> HIDE DEF r
  <1>6. r \in Row
    BY <1>3, <1>4 DEF Row
  <1> QED  BY <1>3, <1>5, <1>6 DEF r

\* Reread, for one request.
LEMMA ReadFine ==
    ASSUME NEW T, NEW w, NEW o, NEW n, NEW E, NEW z, Fine(T, w, o, n, E, z),
           ~Empty(w.steps), NEW x, Head(w.steps).op \in {"user", "session"},
           Head(w.steps).op = "session" =>
               Head(x) = Overlay(o.sessions, T)[Head(w.steps).id]
    PROVE  /\ Fine(T, Reading(w, x), o, n, E, z)
           /\ GivenTo(T, Reading(w, x), o) = GivenTo(T, w, o)
  <1> DEFINE w1 == Reading(w, x)
  <1>1. IsRequest(w) /\ w # Idle
    BY RequestOf
  <1>2. /\ IsRequest(w1) /\ w1.steps = w.steps /\ w1.said = w.said /\ w1.note = w.note
        /\ w1.beside = w.beside /\ w1.seen = x /\ w1 # Idle
    BY <1>1, ReadingIs, NotIdle
  <1> HIDE DEF w1
  <1>3. ~Sends(w, "revoke") /\ ~Sends(w1, "revoke")
    BY <1>2 DEF Sends
  <1>4. Picks(w1) = Picks(w)
    BY <1>3 DEF Picks
  <1>5. PairedFor(T, w, o) => PairedFor(T, w1, o)
    BY <1>1, <1>2 DEF PairedFor, Sends
  <1>6. EndingOK(T, w1, o)
    <2>1. OnlyEnds(w) => OnlyEnds(w1)
      BY <1>2 DEF OnlyEnds
    <2>2. EndingOK(T, w, o)
      BY DEF Fine
    <2> QED  BY <1>1, <1>2, <1>3, <2>1, <2>2 DEF EndingOK
  <1> QED  BY <1>2, <1>4, <1>5, <1>6 DEF Fine, GivenTo, w1

\* PickRows, for one request.
LEMMA PickFine ==
    ASSUME NEW T, NEW w, NEW o, NEW n, NEW E, NEW z, Fine(T, w, o, n, E, z), Stored(T, n, E, z),
           ~Empty(w.steps), Head(w.steps).op = "revoke",
           NEW x, Head(x) = Matching(Overlay(o.sessions, T), Head(w.steps))
    PROVE  /\ Fine(T, Reading(w, x), o, n, E, z)
           /\ GivenTo(T, Reading(w, x), o) = GivenTo(T, w, o)
  <1> DEFINE w1 == Reading(w, x)
             O == o.sessions
             V == Overlay(O, T)
             Y == Matching(V, Head(w.steps))
  <1>1. IsRequest(w) /\ w # Idle
    BY RequestOf
  <1>2. /\ IsRequest(w1) /\ w1.steps = w.steps /\ w1.said = w.said /\ w1.note = w.note
        /\ w1.beside = w.beside /\ w1.seen = x /\ w1 # Idle
    BY <1>1, ReadingIs, NotIdle
  <1>3. /\ DOMAIN V = DOMAIN O \cup DOMAIN T
        /\ \A j \in DOMAIN O : V[j] = O[j]
        /\ \A j \in DOMAIN T : j \notin DOMAIN O => V[j] = T[j]
    BY DEF Overlay
  <1> HIDE DEF w1, V, O
  <1>4. ClientOK(T, O, Elements(w.steps), Picks(w), n, E)
    BY DEF Fine, O
  <1>5. ClientOK(T, O, Elements(w1.steps), Y, n, E)
    <2>1. \A i \in Y : V[i].family \notin E
      <3>1. \A i \in DOMAIN T : T[i].family \in E => T[i].revoked # Never
        BY DEF Stored
      <3>2. \A i \in DOMAIN O : O[i].family \notin E
        BY <1>4 DEF ClientOK, Spares
      <3> QED  BY <1>3, <3>1, <3>2 DEF Matching
    <2>2. Y \subseteq DOMAIN V
      BY DEF Matching
    <2> QED  BY <1>2, <1>4, <2>1, <2>2 DEF ClientOK, Spares, V
  <1>6. Picks(w1) \subseteq Y
    BY <1>2 DEF Picks, V, O
  <1>7. ClientOK(T, O, Elements(w1.steps), Picks(w1), n, E)
    BY <1>5, <1>6 DEF ClientOK, Spares
  <1>8. PairedFor(T, w, o) => PairedFor(T, w1, o)
    BY <1>1, <1>2 DEF PairedFor, Sends
  <1>9. EndingOK(T, w1, o)
    <2> SUFFICES ASSUME w1.said = "ended", w1.beside = 0
                 PROVE  /\ OnlyEnds(w1) /\ Empty(O) /\ w1.steps[Len(w1.steps)].op = "revoke"
                        /\ Sends(w1, "revoke") /\ ~Empty(w1.seen)
                              => Picks(w1) = Matching(T, Head(w1.steps))
      BY <1>2 DEF EndingOK, O
    <2>1. EndingOK(T, w, o)
      BY DEF Fine
    <2>2. OnlyEnds(w) /\ Empty(O) /\ w.steps[Len(w.steps)].op = "revoke"
      BY <1>1, <1>2, <2>1, EndingSays DEF O
    <2>3. OnlyEnds(w1)
      BY <1>2, <2>2 DEF OnlyEnds
    <2>4. V = T
      <3>1. DOMAIN O = {}
        BY <2>2 DEF Empty
      <3>2. V = [i \in DOMAIN V |-> V[i]]
        BY OverlayIsFunction DEF V
      <3>3. T = [i \in DOMAIN T |-> T[i]]
        BY DEF Stored, IsTable
      <3> QED  BY <1>3, <3>1, <3>2, <3>3
    <2>5. Sends(w1, "revoke") /\ ~Empty(w1.seen) => Picks(w1) = Y
      BY <1>2 DEF Picks, V, O
    <2> QED  BY <1>2, <2>2, <2>3, <2>4, <2>5
  <1> QED  BY <1>2, <1>7, <1>8, <1>9 DEF Fine, GivenTo, w1, O

\* An UPDATE of one session.
LEMMA WriteFine ==
    ASSUME NEW T, NEW w, NEW o, NEW n, NEW E, NEW z, Fine(T, w, o, n, E, z), Stored(T, n, E, z),
           ~Empty(w.steps), Head(w.steps).op = "session", ~Empty(w.seen),
           NEW r, r = Merge(Overlay(o.sessions, T)[Head(w.steps).id], Head(w.steps).obj, Head(w.seen)),
           NEW o1, IsWrite(o1), o1.sessions = With(o.sessions, Head(w.steps).id, r)
    PROVE  /\ Fine(T, Sent(w, Tail(w.steps)), o1, n, E, z)
           /\ GivenTo(T, Sent(w, Tail(w.steps)), o1) \subseteq GivenTo(T, w, o)
  <1> DEFINE S == Tail(w.steps)
             w1 == Sent(w, S)
             h == Head(w.steps)
             O == o.sessions
             O1 == o1.sessions
             V == Overlay(O, T)
             D == Elements(w.steps)
             i == h.id
  <1>1. IsRequest(w) /\ w # Idle /\ w.steps \in Seq(Elements(w.steps)) /\ LastOK(w.steps)
    BY RequestOf
  <1>2. S \in Seq(Elements(S)) /\ D = {h} \cup Elements(S) /\ LastOK(S)
    BY <1>1, Pops, TailLastOK
  <1>3. /\ DOMAIN O1 = DOMAIN O \cup {i} /\ O1[i] = r /\ \A j \in DOMAIN O : j # i => O1[j] = O[j]
        /\ O1 = [j \in DOMAIN O1 |-> O1[j]]
    BY DEF With, Overlay
  <1>4. /\ DOMAIN V = DOMAIN O \cup DOMAIN T
        /\ \A j \in DOMAIN O : V[j] = O[j]
        /\ \A j \in DOMAIN T : j \notin DOMAIN O => V[j] = T[j]
    BY DEF Overlay
  <1>5. IsTable(T, n) /\ Lineage(T)
    BY DEF Stored
  <1>6. ClientOK(T, O, D, Picks(w), n, E) /\ IsTable(O, n) /\ (z = 0 => PairedFor(T, w, o))
        /\ EndingOK(T, w, o)
    BY DEF Fine
  <1>7. r = Merge(V[i], h.obj, Head(w.seen))
    OBVIOUS
  <1> HIDE DEF S, h, O, O1, V, D
  <1>8. /\ IsRequest(w1) /\ w1.steps = S /\ w1.said = w.said /\ w1.note = w.note
        /\ w1.beside = w.beside /\ Empty(w1.seen) /\ Picks(w1) = {} /\ w1 # Idle
    BY <1>1, <1>2, SentIs, NotIdle
  <1> HIDE DEF w1
  <1>9. h \in D /\ h.op = "session"
    BY <1>2 DEF h
  <1>10. i \in DOMAIN T /\ RowOK(T, V, D, h.obj, i) /\ h.obj.family \notin E
    BY <1>6, <1>9 DEF ClientOK, StepsOK, Spares, V
  <1>11. RowOK(T, V, D, V[i], i)
    <2>1. RowsOK(T, O, D) /\ i \in DOMAIN V
      BY <1>4, <1>6, <1>10 DEF ClientOK
    <2> QED  BY <1>5, <2>1, ViewOK DEF V
  <1>12. RowOK(T, V, D, r, i) /\ r.family = h.obj.family
    <2>1. /\ r \in Row /\ r.family \in {h.obj.family, V[i].family}
          /\ r.expires \in {h.obj.expires, V[i].expires} /\ r.by \in {h.obj.by, V[i].by}
      BY <1>7, <1>10, <1>11, MergeRow DEF RowOK
    <2>2. /\ h.obj.family = T[i].family /\ h.obj.expires = T[i].expires
          /\ V[i].family = T[i].family /\ V[i].expires = T[i].expires
      BY <1>10, <1>11 DEF RowOK, Kin
    <2>3. r.family = T[i].family /\ r.expires = T[i].expires
      <3>1. r.family = h.obj.family \/ r.family = V[i].family
        BY <2>1
      <3>2. r.expires = h.obj.expires \/ r.expires = V[i].expires
        BY <2>1
      <3> QED  BY <2>2, <3>1, <3>2
    <2>4. Linked(V, D, r, i)
      <3>1. Linked(V, D, h.obj, i) /\ Linked(V, D, V[i], i)
        BY <1>10, <1>11 DEF RowOK
      <3>2. h.obj.family = r.family /\ V[i].family = r.family
        BY <2>2, <2>3
      <3>3. CASE r.by = h.obj.by
        BY <3>1, <3>2, <3>3, LinkedSame
      <3>4. CASE r.by = V[i].by
        BY <3>1, <3>2, <3>4, LinkedSame
      <3> QED  BY <2>1, <3>3, <3>4
    <2> QED  BY <1>10, <2>1, <2>2, <2>3, <2>4 DEF RowOK, Kin
  <1>13. ClientOK(T, O1, Elements(S), {}, n, E)
    <2>1. RowsOK(T, O, D) /\ StepsOK(T, O, D, n) /\ \A j \in DOMAIN O : O[j].family \notin E
      BY <1>6 DEF ClientOK, Spares
    <2>2. \A j \in DOMAIN O1 : RowOK(T, V, D, O1[j], j) /\ O1[j].family \notin E
      BY <1>3, <1>10, <1>12, <2>1 DEF RowsOK, V
    <2>3. \A j \in DOMAIN O : O1[j].family = O[j].family
      <3>1. i \in DOMAIN O => O[i].family = T[i].family
        BY <1>4, <1>10, <1>11 DEF RowOK, Kin
      <3>2. r.family = T[i].family
        BY <1>10, <1>12 DEF RowOK, Kin
      <3> QED  BY <1>3, <3>1, <3>2
    <2>4. \A s \in D : s.op = "insert" => s \in Elements(S)
      BY <1>2, <1>9
    <2>5. \A s \in Elements(S) : /\ s.op = "insert" => s.id \notin DOMAIN O1
                                 /\ s.op = "cap" => DOMAIN O1 \subseteq DOMAIN T
      BY <1>2, <1>3, <1>10, <2>1 DEF StepsOK
    <2>6. Elements(S) \subseteq D /\ DOMAIN O \subseteq DOMAIN O1
      BY <1>2, <1>3
    <2> QED  BY <1>5, <1>6, <2>2, <2>3, <2>4, <2>5, <2>6, RowsKeep DEF V
  <1>14. IsTable(O1, n)
    BY <1>3, <1>5, <1>6, <1>10, <1>12 DEF IsTable, RowOK
  <1>15. ASSUME z = 0 PROVE PairedFor(T, w1, o1)
    <2> SUFFICES ASSUME w.beside = 0
                 PROVE  /\ \A j \in DOMAIN O1 : Paired(O1[j])
                        /\ \A s \in Elements(S) : s.op \in {"session", "insert"} => Paired(s.obj)
      BY <1>8 DEF PairedFor, O1
    <2>1. /\ \A j \in DOMAIN O : Paired(O[j])
          /\ \A s \in D : s.op \in {"session", "insert"} => Paired(s.obj)
          /\ Head(w.seen) = V[i]
      <3>1. PairedFor(T, w, o) /\ Sends(w, "session") /\ ~Empty(w.seen)
        BY <1>6, <1>9, <1>15 DEF Sends, h
      <3> QED  BY <1>1, <3>1 DEF PairedFor, O, D, V, h
    <2>2. Paired(r)
      <3>1. r.rotated = h.obj.rotated /\ r.by = h.obj.by
        BY <1>7, <1>10, <1>11, <2>1, MergeRow DEF RowOK
      <3>2. Paired(h.obj)
        BY <1>9, <2>1
      <3> QED  BY <3>1, <3>2 DEF Paired
    <2> QED  BY <1>2, <1>3, <2>1, <2>2
  <1>16. EndingOK(T, w1, o1)
    <2> SUFFICES ASSUME w1.said = "ended", w1.beside = 0 PROVE FALSE
      BY DEF EndingOK
    <2>1. OnlyEnds(w)
      BY <1>1, <1>6, <1>8, EndingSays
    <2> QED  BY <1>9, <2>1 DEF OnlyEnds, D
  <1>17. GivenTo(T, w1, o1) \subseteq GivenTo(T, w, o)
    <2>1. Given(T, O1, Elements(S)) \subseteq Given(T, O, D)
      BY <1>2, <1>3, <1>10 DEF Given
    <2> QED  BY <1>8, <2>1 DEF GivenTo, O, O1, D
  <1> QED  BY <1>8, <1>13, <1>14, <1>15, <1>16, <1>17 DEF Fine, w1, S, O1

\* Revocation touches no other column.
LEMMA RevokedRow ==
    ASSUME NEW s \in Row, NEW now \in Nat \ {0}
    PROVE  /\ Revoked(s, now) \in Row /\ Revoked(s, now).revoked # Never
           /\ Revoked(s, now).family = s.family /\ Revoked(s, now).expires = s.expires
           /\ Revoked(s, now).rotated = s.rotated /\ Revoked(s, now).by = s.by
  BY DEF Revoked, Row, Never

\* Revocation breaks no family.
LEMMA RevokedOK ==
    ASSUME NEW T, NEW V, NEW D, NEW i, NEW s, RowOK(T, V, D, s, i), NEW now \in Nat \ {0}
    PROVE  RowOK(T, V, D, Revoked(s, now), i) /\ Revoked(s, now).family = s.family
  <1>1. s \in Row
    BY DEF RowOK
  <1>2. /\ Revoked(s, now) \in Row
        /\ Revoked(s, now).family = s.family /\ Revoked(s, now).expires = s.expires
        /\ Revoked(s, now).by = s.by
    BY <1>1, RevokedRow
  <1> QED  BY <1>2 DEF RowOK, Kin, Rooted, Linked

\* An INSERT, which comes last.
LEMMA InsertFine ==
    ASSUME NEW T, NEW w, NEW o, NEW n, NEW E, NEW z, Fine(T, w, o, n, E, z), Stored(T, n, E, z),
           ~Empty(w.steps), Head(w.steps).op = "insert",
           NEW o1, IsWrite(o1),
           o1.sessions = With(o.sessions, Head(w.steps).id, Head(w.steps).obj)
    PROVE  /\ Fine(T, Sent(w, Tail(w.steps)), o1, n, E, z)
           /\ GivenTo(T, Sent(w, Tail(w.steps)), o1) \subseteq GivenTo(T, w, o)
  <1> DEFINE S == Tail(w.steps)
             w1 == Sent(w, S)
             h == Head(w.steps)
             O == o.sessions
             O1 == o1.sessions
             V == Overlay(O, T)
             D == Elements(w.steps)
             i == h.id
  <1>1. IsRequest(w) /\ w # Idle /\ w.steps \in Seq(Elements(w.steps)) /\ LastOK(w.steps)
    BY RequestOf
  <1>2. S \in Seq(Elements(S)) /\ LastOK(S)
    BY <1>1, Pops, TailLastOK
  <1>3. D = {h} /\ Elements(S) = {} /\ Empty(S)
    BY <1>1, LastLeavesNothing
  <1>4. /\ DOMAIN O1 = DOMAIN O \cup {i} /\ O1[i] = h.obj
        /\ \A j \in DOMAIN O : j # i => O1[j] = O[j]
        /\ O1 = [j \in DOMAIN O1 |-> O1[j]]
    BY DEF With, Overlay
  <1>5. IsTable(T, n) /\ Lineage(T)
    BY DEF Stored
  <1>6. ClientOK(T, O, D, Picks(w), n, E) /\ IsTable(O, n) /\ (z = 0 => PairedFor(T, w, o))
        /\ EndingOK(T, w, o)
    BY DEF Fine
  <1> HIDE DEF S, h, O, O1, V, D
  <1>7. /\ IsRequest(w1) /\ w1.steps = S /\ w1.said = w.said /\ w1.note = w.note
        /\ w1.beside = w.beside /\ Empty(w1.seen) /\ Picks(w1) = {} /\ w1 # Idle
    BY <1>1, <1>2, SentIs, NotIdle
  <1> HIDE DEF w1
  <1>8. h \in D /\ h.op = "insert"
    BY <1>3 DEF h
  <1>9. /\ h.obj \in Row /\ h.obj.by = 0 /\ Rooted(T, h.obj, i)
        /\ i \in 1..(n - 1) /\ i \notin DOMAIN T /\ i \notin DOMAIN O
        /\ h.obj.family \notin E
    BY <1>6, <1>8 DEF ClientOK, StepsOK, Spares
  <1>10. ClientOK(T, O1, {}, {}, n, E)
    <2>1. RowsOK(T, O, D) /\ \A j \in DOMAIN O : O[j].family \notin E
      BY <1>6 DEF ClientOK, Spares
    <2>2. RowOK(T, V, D, h.obj, i)
      BY <1>9 DEF RowOK, Kin, Linked
    <2>3. \A j \in DOMAIN O1 : RowOK(T, V, D, O1[j], j) /\ O1[j].family \notin E
      BY <1>4, <1>9, <2>1, <2>2 DEF RowsOK, V
    <2>4. DOMAIN O \subseteq DOMAIN O1 /\ \A j \in DOMAIN O : O1[j].family = O[j].family
      BY <1>4, <1>9
    <2>5. \A s \in D : s.op = "insert" => s.id \in DOMAIN O1 /\ O1[s.id].family = s.obj.family
      BY <1>3, <1>4
    <2> QED  BY <1>5, <1>6, <2>3, <2>4, <2>5, RowsKeep DEF V
  <1>11. IsTable(O1, n)
    BY <1>4, <1>6, <1>9 DEF IsTable
  <1>12. ASSUME z = 0 PROVE PairedFor(T, w1, o1)
    <2> SUFFICES ASSUME w.beside = 0
                 PROVE  \A j \in DOMAIN O1 : Paired(O1[j])
      BY <1>3, <1>7 DEF PairedFor, O1
    <2>1. /\ \A j \in DOMAIN O : Paired(O[j])
          /\ \A s \in D : s.op \in {"session", "insert"} => Paired(s.obj)
      BY <1>1, <1>6, <1>12 DEF PairedFor, O, D
    <2> QED  BY <1>4, <1>8, <2>1
  <1>13. EndingOK(T, w1, o1)
    <2> SUFFICES ASSUME w1.said = "ended", w1.beside = 0 PROVE FALSE
      BY DEF EndingOK
    <2>1. OnlyEnds(w)
      BY <1>1, <1>6, <1>7, EndingSays
    <2> QED  BY <1>8, <2>1 DEF OnlyEnds, D
  <1>14. GivenTo(T, w1, o1) \subseteq GivenTo(T, w, o)
    <2>1. Given(T, O1, Elements(S)) \subseteq Given(T, O, D)
      BY <1>3, <1>4, <1>8 DEF Given
    <2> QED  BY <1>7, <2>1 DEF GivenTo, O, O1, D
  <1> QED  BY <1>3, <1>7, <1>10, <1>11, <1>12, <1>13, <1>14 DEF Fine, w1, S, O1

\* A bulk UPDATE revokes what it has picked, and comes last.
LEMMA RevokeFine ==
    ASSUME NEW T, NEW w, NEW o, NEW n, NEW E, NEW z, Fine(T, w, o, n, E, z), Stored(T, n, E, z),
           ~Empty(w.steps), Head(w.steps).op = "revoke", ~Empty(w.seen),
           NEW o1, IsWrite(o1),
           o1.sessions = Overlay([i \in Head(w.seen) |->
                                     Revoked(Overlay(o.sessions, T)[i], w.now)], o.sessions)
    PROVE  /\ Fine(T, Sent(w, Tail(w.steps)), o1, n, E, z)
           /\ GivenTo(T, Sent(w, Tail(w.steps)), o1) \subseteq GivenTo(T, w, o)
  <1> DEFINE S == Tail(w.steps)
             w1 == Sent(w, S)
             h == Head(w.steps)
             P == Head(w.seen)
             O == o.sessions
             O1 == o1.sessions
             V == Overlay(O, T)
             D == Elements(w.steps)
  <1>1. IsRequest(w) /\ w # Idle /\ w.steps \in Seq(Elements(w.steps)) /\ LastOK(w.steps)
        /\ w.now \in Nat \ {0}
    BY RequestOf DEF IsRequest
  <1>2. S \in Seq(Elements(S)) /\ LastOK(S)
    BY <1>1, Pops, TailLastOK
  <1>3. D = {h} /\ Elements(S) = {} /\ Empty(S)
    BY <1>1, LastLeavesNothing
  <1>4. Sends(w, "revoke") /\ Picks(w) = P
    BY DEF Picks, Sends
  <1>5. /\ DOMAIN O1 = P \cup DOMAIN O /\ \A j \in P : O1[j] = Revoked(V[j], w.now)
        /\ \A j \in DOMAIN O : j \notin P => O1[j] = O[j]
        /\ O1 = [j \in DOMAIN O1 |-> O1[j]]
    BY DEF Overlay
  <1>6. /\ DOMAIN V = DOMAIN O \cup DOMAIN T
        /\ \A j \in DOMAIN O : V[j] = O[j]
        /\ \A j \in DOMAIN T : j \notin DOMAIN O => V[j] = T[j]
    BY DEF Overlay
  <1>7. IsTable(T, n) /\ Lineage(T) /\ (z = 0 => \A j \in DOMAIN T : Paired(T[j]))
    BY DEF Stored
  <1>8. ClientOK(T, O, D, P, n, E) /\ IsTable(O, n) /\ (z = 0 => PairedFor(T, w, o))
        /\ EndingOK(T, w, o)
    BY <1>4 DEF Fine
  <1> HIDE DEF S, h, O, O1, V, D, P
  <1>9. /\ IsRequest(w1) /\ w1.steps = S /\ w1.said = w.said /\ w1.note = w.note
        /\ w1.beside = w.beside /\ Empty(w1.seen) /\ Picks(w1) = {} /\ w1 # Idle
    BY <1>1, <1>2, SentIs, NotIdle
  <1> HIDE DEF w1
  <1>10. h.op = "revoke" /\ h \in D
    BY <1>3 DEF h
  <1>11. RowsOK(T, O, D) /\ P \subseteq DOMAIN V /\ Spares(T, O, D, P, E)
    BY <1>8 DEF ClientOK, V
  <1>12. \A j \in DOMAIN V : RowOK(T, V, D, V[j], j)
    BY <1>7, <1>11, ViewOK DEF V
  <1>13. ASSUME NEW j \in P
         PROVE  /\ RowOK(T, V, D, O1[j], j) /\ O1[j].family = V[j].family
                /\ O1[j].rotated = V[j].rotated /\ O1[j].by = V[j].by /\ O1[j].revoked # Never
    <2>1. j \in DOMAIN V /\ RowOK(T, V, D, V[j], j) /\ V[j] \in Row
      BY <1>11, <1>12 DEF RowOK
    <2> QED  BY <1>1, <1>5, <2>1, RevokedOK, RevokedRow
  <1>14. ClientOK(T, O1, {}, {}, n, E)
    <2>1. \A j \in DOMAIN O1 : RowOK(T, V, D, O1[j], j) /\ O1[j].family \notin E
      BY <1>5, <1>11, <1>13 DEF RowsOK, Spares, V
    <2>2. DOMAIN O \subseteq DOMAIN O1 /\ \A j \in DOMAIN O : O1[j].family = O[j].family
      BY <1>5, <1>6, <1>13
    <2>3. \A s \in D : s.op # "insert"
      BY <1>3, <1>10
    <2> QED  BY <1>7, <1>8, <2>1, <2>2, <2>3, RowsKeep DEF V
  <1>15. IsTable(O1, n)
    <2>1. \A j \in DOMAIN O1 : j \in 1..(n - 1)
      BY <1>5, <1>6, <1>7, <1>8, <1>11 DEF IsTable
    <2>2. \A j \in DOMAIN O1 : O1[j] \in Row
      BY <1>5, <1>8, <1>13 DEF IsTable, RowOK
    <2> QED  BY <1>5, <2>1, <2>2 DEF IsTable
  <1>16. ASSUME z = 0 PROVE PairedFor(T, w1, o1)
    <2> SUFFICES ASSUME w.beside = 0
                 PROVE  \A j \in DOMAIN O1 : Paired(O1[j])
      BY <1>3, <1>9 DEF PairedFor, O1
    <2>1. \A j \in DOMAIN O : Paired(O[j])
      BY <1>1, <1>8, <1>16 DEF PairedFor, O
    <2>2. \A j \in DOMAIN V : Paired(V[j])
      BY <1>6, <1>7, <1>16, <2>1
    <2>3. ASSUME NEW j \in P PROVE Paired(O1[j])
      BY <1>11, <1>13, <2>2 DEF Paired
    <2> QED  BY <1>5, <2>1, <2>3
  <1>17. EndingOK(T, w1, o1)
    <2> SUFFICES ASSUME w1.said = "ended", w1.beside = 0
                 PROVE  OnlyEnds(w1) /\ Complete(T, w1, o1)
      BY <1>3, <1>9 DEF EndingOK
    <2>1. OnlyEnds(w) /\ Empty(O)
      BY <1>1, <1>8, <1>9, EndingSays DEF O
    <2>2. P = Matching(T, h)
      BY <1>1, <1>4, <1>8, <1>9 DEF EndingOK, h
    <2>3. DOMAIN O = {}
      BY <2>1 DEF Empty
    <2>4. DOMAIN O1 = P /\ P \subseteq DOMAIN T
      BY <1>5, <2>2, <2>3 DEF Matching
    <2>5. h.except \in {0, w.note}
      BY <1>10, <2>1 DEF OnlyEnds, D
    <2>6. /\ \A j \in DOMAIN O1 : Overlay(O1, T)[j] = O1[j]
          /\ \A j \in DOMAIN T : j \notin DOMAIN O1 => Overlay(O1, T)[j] = T[j]
      BY DEF Overlay
    <2>7. ASSUME NEW i \in DOMAIN T, NEW j \in P, T[i].family = T[j].family, i # w.note
          PROVE  Overlay(O1, T)[i].revoked # Never
      <3>1. CASE i \in P
        <4>1. Overlay(O1, T)[i] = O1[i]
          BY <2>4, <2>6, <3>1
        <4> QED  BY <1>13, <3>1, <4>1
      <3>2. CASE i \notin P
        <4>1. Overlay(O1, T)[i] = T[i]
          BY <2>4, <2>6, <3>2
        <4>2. T[i].family \in h.families
          BY <2>2, <2>7 DEF Matching
        <4>3. i # h.except
          <5>1. i # 0
            BY <1>7 DEF IsTable
          <5> QED  BY <2>5, <2>7, <5>1
        <4> QED  BY <2>2, <3>2, <4>1, <4>2, <4>3 DEF Matching
      <3> QED  BY <3>1, <3>2
    <2>8. Complete(T, w1, o1)
      BY <1>9, <2>4, <2>7 DEF Complete, O1
    <2>9. OnlyEnds(w1)
      BY <1>3, <1>9 DEF OnlyEnds
    <2> QED  BY <2>8, <2>9
  <1>18. GivenTo(T, w1, o1) \subseteq GivenTo(T, w, o)
    <2>1. Given(T, O1, Elements(S)) \subseteq Given(T, O, D)
      BY <1>3, <1>5, <1>6, <1>11 DEF Given
    <2> QED  BY <1>9, <2>1 DEF GivenTo, O, O1, D
  <1> QED  BY <1>3, <1>9, <1>14, <1>15, <1>16, <1>17, <1>18 DEF Fine, w1, S, O1

-----------------------------------------------------------------------------
(* The cap                                                                  *)

\* In a finite set where of two elements one has all before it that the other
\* has, and the other too, every rank is taken.  B[i] is what comes before i.
LEMMA EveryRankIsTaken ==
    ASSUME NEW S, IsFiniteSet(S), NEW B,
           \A i \in S : B[i] \subseteq S /\ i \notin B[i],
           \A i, j \in S : i # j => \/ i \in B[j] /\ B[i] \subseteq B[j]
                                    \/ j \in B[i] /\ B[j] \subseteq B[i],
           NEW k \in 1..Cardinality(S)
    PROVE  \E i \in S : Cardinality(B[i]) + 1 = k
  <1> DEFINE n == Cardinality(S)
             f == [i \in S |-> Cardinality(B[i]) + 1]
  <1>1. n \in Nat
    BY FS_CardinalityType
  <1>2. ASSUME NEW i \in S PROVE IsFiniteSet(B[i]) /\ Cardinality(B[i]) \in 0..(n - 1)
    <2>1. B[i] \subseteq S /\ B[i] # S
      OBVIOUS
    <2>2. IsFiniteSet(B[i]) /\ Cardinality(B[i]) <= n /\ Cardinality(B[i]) # n
      BY <2>1, FS_Subset
    <2>3. Cardinality(B[i]) \in Nat
      BY <2>2, FS_CardinalityType
    <2> QED  BY <1>1, <2>2, <2>3
  <1>3. ASSUME NEW i \in S, NEW j \in S, i \in B[j], B[i] \subseteq B[j]
        PROVE  Cardinality(B[i]) # Cardinality(B[j])
    <2>1. B[i] # B[j]
      BY <1>3
    <2> QED  BY <1>2, <1>3, <2>1, FS_Subset
  <1>4. \A i, j \in S : i # j => f[i] # f[j]
    <2>1. ASSUME NEW i \in S, NEW j \in S, i # j PROVE Cardinality(B[i]) # Cardinality(B[j])
      BY <1>3, <2>1
    <2>2. \A i \in S : Cardinality(B[i]) \in Nat
      BY <1>1, <1>2
    <2> QED  BY <2>1, <2>2
  <1>5. SUFFICES ASSUME \A i \in S : Cardinality(B[i]) + 1 # k PROVE FALSE
    OBVIOUS
  <1>6. f \in [S -> (1..n) \ {k}]
    BY <1>1, <1>2, <1>5
  <1>7. IsFiniteSet(1..n) /\ Cardinality(1..n) = n
    BY <1>1, FS_Interval
  <1>8. IsFiniteSet((1..n) \ {k}) /\ Cardinality((1..n) \ {k}) = n - 1
    BY <1>7, FS_RemoveElement
  <1>9. Cardinality((1..n) \ {k}) < Cardinality(S)
    BY <1>1, <1>8
  <1> HIDE DEF n, f
  <1>10. \E i, j \in S : i # j /\ f[i] = f[j]
    BY <1>6, <1>8, <1>9, FS_PigeonHole DEF n
  <1> QED  BY <1>4, <1>10

\* The parts of EnforceCap: the live sessions, those older than one of them, the
\* oldest ones, and the statements that make room.
Actives(V, now) == {i \in DOMAIN V : Active(V[i], now)}
Earlier(V, now, i) ==
    {j \in Actives(V, now) : \/ V[j].created < V[i].created
                             \/ V[j].created = V[i].created /\ j < i}
Oldest(V, now) ==
    [k \in 1..(Cardinality(Actives(V, now)) - MaxSessions + 1) |->
        CHOOSE i \in Actives(V, now) : Cardinality(Earlier(V, now, i)) + 1 = k]
CapSteps(V, now, n) ==
    [k \in DOMAIN Oldest(V, now) |->
        SessionStep(Oldest(V, now)[k], Revoked(V[Oldest(V, now)[k]], now))]
    \o <<InsertStep(n, Start(n, now))>>

\* EnforceCap plans the statements of CapSteps.
LEMMA CapIs ==
    ASSUME NEW c, EnforceCap(c)
    PROVE  Advance(c, CapSteps(SessionsSeen(c), work[c].now, nextId))
  BY DEF EnforceCap, CapSteps, Oldest, Earlier, Actives

\* However many there are to revoke, they are live sessions, each of its own age,
\* and they make room for one more.
LEMMA OldestAreActive ==
    ASSUME NEW V, NEW now, NEW n \in Nat \ {0},
           \A i \in DOMAIN V : i \in 1..(n - 1) /\ V[i] \in Row
    PROVE  /\ IsFiniteSet(Actives(V, now)) /\ Cardinality(Actives(V, now)) \in Nat
           /\ \E m \in Nat :
                 /\ DOMAIN Oldest(V, now) = 1..m
                 /\ m >= Cardinality(Actives(V, now)) - MaxSessions + 1
                 /\ \A k \in 1..m :
                       /\ Oldest(V, now)[k] \in Actives(V, now)
                       /\ Cardinality(Earlier(V, now, Oldest(V, now)[k])) + 1 = k
  <1> DEFINE A == Actives(V, now)
             B == [i \in A |-> Earlier(V, now, i)]
             m == Cardinality(A) - MaxSessions + 1
  <1>1. IsFiniteSet(A) /\ Cardinality(A) \in Nat
    <2>1. A \subseteq 1..(n - 1)
      BY DEF Actives
    <2>2. IsFiniteSet(1..(n - 1))
      BY FS_Interval
    <2> QED  BY <2>1, <2>2, FS_Subset, FS_CardinalityType
  <1>2. \A i \in A : i \in Nat /\ V[i].created \in Nat
    BY DEF Actives, Row
  <1>3. \A i \in A : B[i] \subseteq A /\ i \notin B[i]
    BY <1>2 DEF Earlier
  <1>4. \A i, j \in A : i # j => \/ i \in B[j] /\ B[i] \subseteq B[j]
                                 \/ j \in B[i] /\ B[j] \subseteq B[i]
    <2>1. ASSUME NEW i \in A, NEW j \in A, V[i].created < V[j].created
          PROVE  i \in B[j] /\ B[i] \subseteq B[j]
      BY <1>2, <2>1 DEF Earlier
    <2>2. ASSUME NEW i \in A, NEW j \in A, V[i].created = V[j].created, i < j
          PROVE  i \in B[j] /\ B[i] \subseteq B[j]
      BY <1>2, <2>2 DEF Earlier
    <2>3. ASSUME NEW i \in A, NEW j \in A, i # j
          PROVE  \/ V[i].created < V[j].created \/ V[j].created < V[i].created
                 \/ V[i].created = V[j].created /\ i < j
                 \/ V[j].created = V[i].created /\ j < i
      BY <1>2, <2>3
    <2> QED  BY <2>1, <2>2, <2>3
  <1>5. m \in Int /\ m <= Cardinality(A)
    BY <1>1, PolicyAssumption
  <1>6. ASSUME NEW k \in 1..m
        PROVE  /\ Oldest(V, now)[k] \in A
               /\ Cardinality(Earlier(V, now, Oldest(V, now)[k])) + 1 = k
    <2>1. k \in 1..Cardinality(A)
      BY <1>1, <1>5
    <2>2. \E i \in A : Cardinality(B[i]) + 1 = k
      <3> HIDE DEF A, B
      <3> QED  BY <1>1, <1>3, <1>4, <2>1, EveryRankIsTaken
    <2>3. \E i \in A : Cardinality(Earlier(V, now, i)) + 1 = k
      BY <2>2
    <2>4. Oldest(V, now)[k] = CHOOSE i \in A : Cardinality(Earlier(V, now, i)) + 1 = k
      BY DEF Oldest
    <2> QED  BY <2>3, <2>4
  <1>7. DOMAIN Oldest(V, now) = 1..m
    BY DEF Oldest
  <1>8. CASE m < 0
    <2>1. 1..m = 1..0 /\ 0 >= m
      BY <1>5, <1>8
    <2> QED  BY <1>1, <1>6, <1>7, <2>1
  <1>9. CASE m >= 0
    <2>1. m \in Nat /\ m >= m
      BY <1>5, <1>9
    <2> QED  BY <1>1, <1>6, <1>7, <2>1
  <1> QED  BY <1>5, <1>8, <1>9

\* The cap revokes live sessions and inserts one.
LEMMA CapStepsAre ==
    ASSUME NEW V, NEW now, NEW n \in Nat \ {0},
           \A i \in DOMAIN V : i \in 1..(n - 1) /\ V[i] \in Row
    PROVE  /\ CapSteps(V, now, n) \in Seq(Elements(CapSteps(V, now, n)))
           /\ LastOK(CapSteps(V, now, n))
           /\ \A s \in Elements(CapSteps(V, now, n)) :
                 \/ s = InsertStep(n, Start(n, now))
                 \/ \E i \in Actives(V, now) : s = SessionStep(i, Revoked(V[i], now))
  <1> DEFINE A == Actives(V, now)
             F == [k \in DOMAIN Oldest(V, now) |->
                      SessionStep(Oldest(V, now)[k], Revoked(V[Oldest(V, now)[k]], now))]
             x == InsertStep(n, Start(n, now))
             S == CapSteps(V, now, n)
             Z == {x} \cup {SessionStep(i, Revoked(V[i], now)) : i \in A}
  <1>1. PICK m \in Nat : /\ DOMAIN Oldest(V, now) = 1..m
                         /\ \A k \in 1..m : Oldest(V, now)[k] \in A
    BY OldestAreActive
  <1>2. F \in [1..m -> Z]
    BY <1>1
  <1>3. F \in Seq(Z) /\ Len(F) = m
    <2> HIDE DEF F, Z
    <2> QED  BY <1>2
  <1>4. <<x>> \in Seq(Z) /\ Len(<<x>>) = 1 /\ <<x>>[1] = x
    OBVIOUS
  <1>5. S = F \o <<x>>
    BY DEF CapSteps
  <1>6. \A k \in 1..m : F[k].op = "session"
    BY <1>1 DEF SessionStep
  <1> HIDE DEF F, S
  <1>7. /\ S \in Seq(Z) /\ Len(S) = m + 1
        /\ \A k \in 1..m : S[k] = F[k]
    <2> HIDE DEF Z, x
    <2>1. /\ F \o <<x>> \in Seq(Z) /\ Len(F \o <<x>>) = m + 1
          /\ \A k \in 1..(m + 1) : (F \o <<x>>)[k] = IF k <= m THEN F[k] ELSE <<x>>[k - m]
      BY <1>3, <1>4, ConcatProperties
    <2> QED  BY <1>5, <2>1
  <1>8. DOMAIN S = 1..(m + 1) /\ \A k \in DOMAIN S : S[k] \in Z
    <2> HIDE DEF Z
    <2> QED  BY <1>7, LenProperties, ElementOfSeq
  <1>9. S \in Seq(Elements(S))
    <2>1. S = [k \in 1..(m + 1) |-> S[k]]
      <3> HIDE DEF Z
      <3> QED  BY <1>7, LenProperties
    <2> QED  BY <2>1, ListOf
  <1>10. LastOK(S)
    <2>1. ASSUME NEW k \in 1..(m + 1), k # m + 1 PROVE S[k].op = "session"
      <3>1. k \in 1..m
        BY <2>1
      <3> QED  BY <1>6, <1>7, <3>1
    <2> QED  BY <1>7, <1>8, <2>1 DEF LastOK
  <1>11. Elements(S) \subseteq Z
    BY <1>8 DEF Elements
  <1> QED  BY <1>9, <1>10, <1>11 DEF S

\* What a capped request has to send: revocations of live sessions and the new one.
CapLeaves(S, V, now, n) ==
    /\ S \in Seq(Elements(S)) /\ LastOK(S)
    /\ \A s \in Elements(S) : \/ s = InsertStep(n, Start(n, now))
                              \/ \E i \in Actives(V, now) : s = SessionStep(i, Revoked(V[i], now))

\* EnforceCap comes last.
LEMMA CapSends ==
    ASSUME NEW T, NEW w, NEW o, NEW n \in Nat \ {0}, NEW E, NEW z,
           Fine(T, w, o, n, E, z), Stored(T, n, E, z),
           ~Empty(w.steps), Head(w.steps).op = "cap"
    PROVE  CapLeaves(CapSteps(Overlay(o.sessions, T), w.now, n) \o Tail(w.steps),
                     Overlay(o.sessions, T), w.now, n)
  <1> DEFINE V == Overlay(o.sessions, T)
             C == CapSteps(V, w.now, n)
  <1>1. w.steps \in Seq(Elements(w.steps)) /\ LastOK(w.steps)
    BY RequestOf
  <1>2. Tail(w.steps) = <<>>
    BY <1>1, LastLeavesNothing DEF Empty
  <1>3. DOMAIN V = DOMAIN o.sessions \cup DOMAIN T
        /\ \A j \in DOMAIN V : V[j] = IF j \in DOMAIN o.sessions THEN o.sessions[j] ELSE T[j]
    BY DEF Overlay
  <1> HIDE DEF V
  <1>4. \A i \in DOMAIN V : i \in 1..(n - 1) /\ V[i] \in Row
    BY <1>3 DEF Fine, Stored, IsTable
  <1>5. CapLeaves(C, V, w.now, n)
    BY <1>4, CapStepsAre DEF CapLeaves
  <1>6. C \in Seq(Elements(C))
    BY <1>5 DEF CapLeaves
  <1> HIDE DEF C
  <1>7. C \o Tail(w.steps) = C
    BY <1>2, <1>6, ConcatEmptySeq
  <1> QED  BY <1>5, <1>7 DEF V, C

\* EnforceCap, for one request.
LEMMA CapFine ==
    ASSUME NEW T, NEW w, NEW o, NEW n \in Nat \ {0}, NEW E, NEW z,
           Fine(T, w, o, n, E, z), Stored(T, n, E, z),
           ~Empty(w.steps), Head(w.steps).op = "cap",
           NEW S, CapLeaves(S, Overlay(o.sessions, T), w.now, n)
    PROVE  /\ Fine(T, Sent(w, S), o, n + 1, E, z)
           /\ \A i \in GivenTo(T, Sent(w, S), o) : i \in GivenTo(T, w, o) \/ i >= n
  <1> DEFINE w1 == Sent(w, S)
             h == Head(w.steps)
             O == o.sessions
             V == Overlay(O, T)
             D == Elements(w.steps)
             x == InsertStep(n, Start(n, w.now))
  <1>1. IsRequest(w) /\ w # Idle /\ w.steps \in Seq(Elements(w.steps)) /\ LastOK(w.steps)
        /\ w.now \in Nat \ {0}
    BY RequestOf DEF IsRequest
  <1>2. D = {h}
    BY <1>1, LastLeavesNothing
  <1>3. /\ DOMAIN V = DOMAIN O \cup DOMAIN T
        /\ \A j \in DOMAIN O : V[j] = O[j]
        /\ \A j \in DOMAIN T : j \notin DOMAIN O => V[j] = T[j]
    BY DEF Overlay
  <1>4. /\ IsTable(T, n) /\ Lineage(T) /\ (z = 0 => \A j \in DOMAIN T : Paired(T[j]))
        /\ E \subseteq DOMAIN T /\ \A i \in DOMAIN T : T[i].family \in E => T[i].revoked # Never
    BY DEF Stored
  <1>5. ClientOK(T, O, D, Picks(w), n, E) /\ IsTable(O, n) /\ (z = 0 => PairedFor(T, w, o))
        /\ EndingOK(T, w, o) /\ IsWrite(o)
    BY DEF Fine
  <1>6. /\ S \in Seq(Elements(S)) /\ LastOK(S)
        /\ \A s \in Elements(S) : \/ s = x
                                  \/ \E i \in Actives(V, w.now) : s = SessionStep(i, Revoked(V[i], w.now))
    BY DEF CapLeaves
  <1> HIDE DEF h, O, V, D, x
  <1>10. /\ IsRequest(w1) /\ w1.steps = S /\ w1.said = w.said /\ w1.note = w.note
         /\ w1.beside = w.beside /\ Empty(w1.seen) /\ Picks(w1) = {} /\ w1 # Idle
    <2>1. S \in Seq(Elements(S)) /\ LastOK(S) /\ IsRequest(w)
      BY <1>1, <1>6
    <2>2. /\ IsRequest(w1) /\ w1.steps = S /\ w1.said = w.said /\ w1.note = w.note
          /\ w1.beside = w.beside /\ Empty(w1.seen) /\ Picks(w1) = {}
      BY <2>1, SentIs
    <2> QED  BY <2>2, NotIdle
  <1> HIDE DEF w1
  <1>11. h.op = "cap" /\ h \in D
    BY <1>2 DEF h
  <1>12. DOMAIN O \subseteq DOMAIN T /\ RowsOK(T, O, D) /\ \A i \in DOMAIN O : O[i].family \notin E
    BY <1>5, <1>11 DEF ClientOK, StepsOK, Spares
  <1>13. \A i \in DOMAIN V : RowOK(T, V, D, V[i], i)
    BY <1>4, <1>12, ViewOK DEF V
  <1>14. ASSUME NEW r, NEW i, RowOK(T, V, D, r, i) PROVE RowOK(T, V, Elements(S), r, i)
    <2>1. Linked(V, D, r, i)
      BY <1>14 DEF RowOK
    <2>2. \A s \in D : s.op # "insert"
      BY <1>2, <1>11
    <2>3. Linked(V, Elements(S), r, i)
      BY <2>1, <2>2 DEF Linked
    <2> QED  BY <1>14, <2>3 DEF RowOK
  <1>15. /\ x.op = "insert" /\ x.id = n /\ x.obj = Start(n, w.now)
         /\ x.obj \in Row /\ x.obj.by = 0 /\ x.obj.rotated = Never /\ x.obj.family = n
    <2>1. Start(n, w.now) \in Row
      BY <1>1, PolicyAssumption DEF Start, Row, Never
    <2> QED  BY <2>1 DEF x, InsertStep, Start
  <1>16. n \notin DOMAIN T /\ n \notin DOMAIN O /\ n \notin E
    BY <1>4, <1>5 DEF IsTable
  <1>17. ASSUME NEW s \in Elements(S), s # x
         PROVE  /\ s.op = "session" /\ s.id \in DOMAIN T
                /\ RowOK(T, V, Elements(S), s.obj, s.id)
                /\ s.obj.family \notin E
                /\ s.obj.rotated = V[s.id].rotated /\ s.obj.by = V[s.id].by
    <2>1. PICK i \in Actives(V, w.now) : s = SessionStep(i, Revoked(V[i], w.now))
      BY <1>6, <1>17
    <2>2. s.op = "session" /\ s.id = i /\ s.obj = Revoked(V[i], w.now)
      BY <2>1 DEF SessionStep
    <2>3. i \in DOMAIN V /\ i \in DOMAIN T /\ V[i].revoked = Never
      BY <1>3, <1>12 DEF Actives, Active
    <2>4. RowOK(T, V, D, V[i], i) /\ V[i] \in Row
      BY <1>13, <2>3 DEF RowOK
    <2>5. /\ RowOK(T, V, D, Revoked(V[i], w.now), i) /\ Revoked(V[i], w.now).family = V[i].family
          /\ Revoked(V[i], w.now).rotated = V[i].rotated /\ Revoked(V[i], w.now).by = V[i].by
      BY <1>1, <2>4, RevokedOK, RevokedRow
    <2>6. V[i].family \notin E
      BY <1>3, <1>4, <1>12, <2>3
    <2> QED  BY <1>14, <2>2, <2>3, <2>5, <2>6
  <1>18. ClientOK(T, O, Elements(S), {}, n + 1, E)
    <2>1. RowsOK(T, O, Elements(S))
      BY <1>12, <1>14 DEF RowsOK, V
    <2>2. StepsOK(T, O, Elements(S), n + 1)
      <3>1. n \in 1..((n + 1) - 1)
        OBVIOUS
      <3>2. Rooted(T, x.obj, n)
        BY <1>15 DEF Rooted
      <3>3. ASSUME NEW s \in Elements(S), s.op = "insert" PROVE s = x
        BY <1>17, <3>3
      <3>4. \A s \in Elements(S) : s.op = "insert" \/ s.op = "session"
        BY <1>15, <1>17
      <3>5. \A s \in Elements(S) : s.op = "session" =>
                s.id \in DOMAIN T /\ RowOK(T, V, Elements(S), s.obj, s.id)
        BY <1>15, <1>17
      <3> QED  BY <1>15, <1>16, <3>1, <3>2, <3>3, <3>4, <3>5 DEF StepsOK, V
    <2>3. Spares(T, O, Elements(S), {}, E)
      BY <1>12, <1>15, <1>16, <1>17 DEF Spares
    <2> QED  BY <2>1, <2>2, <2>3 DEF ClientOK
  <1>19. IsTable(O, n + 1)
    <2>1. n + 1 \in Nat /\ n <= n + 1 /\ n \in Nat
      OBVIOUS
    <2>2. IsTable(O, n)
      BY <1>5
    <2> QED  BY <2>1, <2>2, MoreIds
  <1>20. ASSUME z = 0 PROVE PairedFor(T, w1, o)
    <2> SUFFICES ASSUME w.beside = 0
                 PROVE  /\ \A j \in DOMAIN O : Paired(O[j])
                        /\ \A s \in Elements(S) : Paired(s.obj)
      BY <1>10 DEF PairedFor, O
    <2>1. \A j \in DOMAIN O : Paired(O[j])
      BY <1>1, <1>5, <1>20 DEF PairedFor, O
    <2>2. \A j \in DOMAIN V : Paired(V[j])
      BY <1>3, <1>4, <1>20, <2>1
    <2>3. ASSUME NEW s \in Elements(S) PROVE Paired(s.obj)
      <3>1. CASE s = x
        BY <1>15, <3>1 DEF Paired
      <3>2. CASE s # x
        <4>1. s.id \in DOMAIN V /\ s.obj.rotated = V[s.id].rotated /\ s.obj.by = V[s.id].by
          BY <1>3, <1>17, <3>2
        <4> QED  BY <2>2, <4>1 DEF Paired
      <3> QED  BY <3>1, <3>2
    <2> QED  BY <2>1, <2>3
  <1>21. EndingOK(T, w1, o)
    <2> SUFFICES ASSUME w1.said = "ended", w1.beside = 0 PROVE FALSE
      BY DEF EndingOK
    <2>1. OnlyEnds(w)
      BY <1>1, <1>5, <1>10, EndingSays
    <2> QED  BY <1>11, <2>1 DEF OnlyEnds, D
  <1>22. \A i \in GivenTo(T, w1, o) : i \in GivenTo(T, w, o) \/ i >= n
    <2>1. \A s \in Elements(S) : s.op = "insert" => s = x
      BY <1>17
    <2>2. \A i \in Given(T, O, Elements(S)) : i \in Given(T, O, D) \/ i = n
      BY <1>15, <2>1 DEF Given
    <2>3. n >= n
      OBVIOUS
    <2> QED  BY <1>10, <2>2, <2>3 DEF GivenTo, O, D
  <1> QED  BY <1>5, <1>10, <1>18, <1>19, <1>20, <1>21, <1>22 DEF Fine, w1, O

-----------------------------------------------------------------------------
(* A new request, and the end of one                                        *)

\* A request with nothing written, and no session among its statements.
LEMMA BeginFine ==
    ASSUME NEW T, NEW w, NEW n, NEW E, NEW z, IsRequest(w), Empty(w.seen),
           \A s \in Elements(w.steps) :
               s.op \in {"user", "cap", "factor", "revoke", "discard", "leave"},
           w.said = "ended" => /\ OnlyEnds(w) /\ ~Empty(w.steps)
                               /\ w.steps[Len(w.steps)].op = "revoke"
    PROVE  Fine(T, w, Nothing, n, E, z) /\ GivenTo(T, w, Nothing) = {}
  <1>1. Fine(T, Idle, Nothing, n, E, z)
    BY IdleFine
  <1>2. IsWrite(Nothing) /\ IsTable(Nothing.sessions, n)
    BY <1>1 DEF Fine
  <1>3. Nothing.sessions = <<>> /\ DOMAIN <<>> = {} /\ Empty(Nothing.sessions)
    BY DEF Nothing, Empty
  <1>4. Picks(w) = {}
    BY DEF Picks
  <1>5. \A s \in Elements(w.steps) : s.op # "session" /\ s.op # "insert"
    OBVIOUS
  <1>6. ClientOK(T, Nothing.sessions, Elements(w.steps), {}, n, E)
    BY <1>3, <1>5 DEF ClientOK, RowsOK, StepsOK, Spares
  <1>7. PairedFor(T, w, Nothing)
    BY <1>3, <1>5 DEF PairedFor
  <1>8. EndingOK(T, w, Nothing)
    BY <1>3 DEF EndingOK
  <1>9. GivenTo(T, w, Nothing) = {}
    BY <1>3, <1>5 DEF GivenTo, Given
  <1> QED  BY <1>2, <1>4, <1>6, <1>7, <1>8, <1>9 DEF Fine

\* A rotation: the row that is consumed and the successor with the next id.
LEMMA RotateFine ==
    ASSUME NEW T, NEW w, NEW n \in Nat \ {0}, NEW E, NEW z, Stored(T, n, E, z),
           IsRequest(w), Empty(w.seen), w.said = "rotated",
           NEW id \in DOMAIN T, T[id].revoked = Never, NEW now \in Nat \ {0},
           NEW a, NEW b, Elements(w.steps) = {a, b},
           a = SessionStep(id, Rotated(T[id], n, now)), b = InsertStep(n, Successor(T[id], now))
    PROVE  /\ Fine(T, w, Nothing, n + 1, E, z)
           /\ \A i \in GivenTo(T, w, Nothing) : i >= n
  <1> DEFINE D == Elements(w.steps)
             V == Overlay(<<>>, T)
  <1>1. Fine(T, Idle, Nothing, n + 1, E, z)
    BY IdleFine
  <1>2. IsWrite(Nothing) /\ IsTable(Nothing.sessions, n + 1)
    BY <1>1 DEF Fine
  <1>3. Nothing.sessions = <<>> /\ DOMAIN <<>> = {}
    BY DEF Nothing
  <1>4. Picks(w) = {}
    BY DEF Picks
  <1>5. /\ T[id] \in Row /\ id \in 1..(n - 1) /\ n \notin DOMAIN T /\ T[id].family \notin E
        /\ T[id].family \in DOMAIN T /\ T[id].expires = T[T[id].family].expires
    BY DEF Stored, IsTable, Lineage
  <1>6. /\ a.op = "session" /\ a.id = id /\ a.obj \in Row /\ a.obj.family = T[id].family
        /\ a.obj.expires = T[id].expires /\ a.obj.by = n /\ a.obj.rotated = now
    BY <1>5 DEF SessionStep, Rotated, Row
  <1>7. /\ b.op = "insert" /\ b.id = n /\ b.obj \in Row /\ b.obj.family = T[id].family
        /\ b.obj.expires = T[id].expires /\ b.obj.by = 0 /\ b.obj.rotated = Never
    BY <1>5 DEF InsertStep, Successor, Row, Never
  <1> HIDE DEF V, D
  <1>8. a \in D /\ b \in D /\ \A s \in D : s = a \/ s = b
    BY DEF D
  <1>9. RowOK(T, V, D, a.obj, id)
    <2>1. Linked(V, D, a.obj, id)
      BY <1>5, <1>6, <1>7, <1>8 DEF Linked
    <2> QED  BY <1>6, <2>1 DEF RowOK, Kin
  <1>10. ClientOK(T, <<>>, D, {}, n + 1, E)
    <2>1. RowsOK(T, <<>>, D)
      BY <1>3 DEF RowsOK
    <2>2. StepsOK(T, <<>>, D, n + 1)
      <3>1. Rooted(T, b.obj, n)
        BY <1>5, <1>7 DEF Rooted
      <3>2. n \in 1..((n + 1) - 1)
        OBVIOUS
      <3>3. ASSUME NEW s \in D, s.op = "session"
            PROVE  s.id \in DOMAIN T /\ RowOK(T, V, D, s.obj, s.id)
        BY <1>6, <1>7, <1>8, <1>9, <3>3
      <3>4. ASSUME NEW s \in D, s.op = "insert" PROVE s = b
        BY <1>6, <1>8, <3>4
      <3>5. \A s \in D : s.op # "cap"
        BY <1>6, <1>7, <1>8
      <3> QED  BY <1>3, <1>5, <1>7, <3>1, <3>2, <3>3, <3>4, <3>5 DEF StepsOK, V
    <2>3. Spares(T, <<>>, D, {}, E)
      BY <1>3, <1>5, <1>6, <1>7, <1>8 DEF Spares
    <2> QED  BY <2>1, <2>2, <2>3 DEF ClientOK
  <1>11. PairedFor(T, w, Nothing)
    <2>1. Paired(a.obj) /\ Paired(b.obj)
      BY <1>6, <1>7 DEF Paired, Never
    <2> QED  BY <1>3, <1>8, <2>1 DEF PairedFor, D
  <1>12. EndingOK(T, w, Nothing)
    BY DEF EndingOK
  <1>13. \A i \in GivenTo(T, w, Nothing) : i >= n
    <2>1. \A i \in Given(T, <<>>, D) : i = n
      BY <1>3, <1>6, <1>7, <1>8 DEF Given
    <2> QED  BY <1>3, <2>1 DEF GivenTo, D
  <1> QED  BY <1>2, <1>3, <1>4, <1>10, <1>11, <1>12, <1>13 DEF Fine, D

-----------------------------------------------------------------------------
(* The actions that start a request                                         *)

NewRequest(kind, steps, said, note) ==
    [kind |-> kind, steps |-> steps, said |-> said, note |-> note, now |-> clock,
     seen |-> <<>>, beside |-> 0]

\* What a request is when it starts.
LEMMA BeginIs ==
    ASSUME IInv, NEW c \in Clients, NEW kind, NEW steps, NEW said, NEW note,
           Begin(c, kind, steps, said, note), kind # "idle",
           steps \in Seq(Elements(steps)), LastOK(steps)
    PROVE  /\ own[c] = Nothing
           /\ IsRequest(NewRequest(kind, steps, said, note))
           /\ NewRequest(kind, steps, said, note).steps = steps
           /\ NewRequest(kind, steps, said, note).said = said
           /\ NewRequest(kind, steps, said, note).note = note
           /\ Empty(NewRequest(kind, steps, said, note).seen)
           /\ work' = [work EXCEPT ![c] = NewRequest(kind, steps, said, note)]
           /\ own' = [own EXCEPT ![c] = Nothing]
           /\ UNCHANGED <<sessions, clock, ended, races>>
  <1>1. work[c] = Idle /\ Fine(sessions, work[c], own[c], nextId, ended, races)
    BY DEF Begin, IInv
  <1>2. own[c] = Nothing
    BY <1>1 DEF Fine
  <1>3. clock \in Nat \ {0} /\ own = [d \in Clients |-> own[d]]
    BY DEF IInv, Numbers
  <1>4. IsRequest(NewRequest(kind, steps, said, note))
    BY <1>3 DEF IsRequest, NewRequest
  <1>5. UNCHANGED <<own, sessions, clock, ended, races>>
    BY DEF Begin, account, history
  <1>6. own' = [own EXCEPT ![c] = Nothing]
    BY <1>2, <1>3, <1>5
  <1>7. work' = [work EXCEPT ![c] = NewRequest(kind, steps, said, note)]
    BY DEF Begin, NewRequest
  <1> QED  BY <1>2, <1>4, <1>5, <1>6, <1>7 DEF NewRequest, Empty

Early == {"user", "factor", "discard", "leave"}
Plain == Early \cup {"cap", "revoke"}

\* What a request that ends sessions starts with.
EndsWith(steps, note) ==
    /\ \A s \in Elements(steps) : /\ s.op \in {"user", "leave", "revoke"}
                                  /\ s.op = "revoke" => s.except \in {0, note}
    /\ ~Empty(steps) /\ steps[Len(steps)].op = "revoke"

\* A request starts that does not write sessions row by row.
LEMMA PlainBegin ==
    ASSUME IInv, NEW c \in Clients, NEW kind, NEW steps, NEW said, NEW note,
           Begin(c, kind, steps, said, note), UNCHANGED nextId, kind # "idle",
           steps \in Seq(Elements(steps)), LastOK(steps),
           \A s \in Elements(steps) : s.op \in Plain,
           said = "ended" => EndsWith(steps, note)
    PROVE  IInv'
  <1> DEFINE w == NewRequest(kind, steps, said, note)
  <1>1. /\ own[c] = Nothing /\ IsRequest(w) /\ w.steps = steps /\ w.said = said /\ w.note = note
        /\ Empty(w.seen) /\ work' = [work EXCEPT ![c] = w] /\ own' = [own EXCEPT ![c] = Nothing]
        /\ UNCHANGED <<sessions, clock, ended, races>>
    BY BeginIs
  <1> HIDE DEF w
  <1>2. w.said = "ended" => OnlyEnds(w) /\ ~Empty(w.steps) /\ w.steps[Len(w.steps)].op = "revoke"
    BY <1>1 DEF EndsWith, OnlyEnds
  <1>3. Fine(sessions, w, Nothing, nextId, ended, races) /\ GivenTo(sessions, w, Nothing) = {}
    BY <1>1, <1>2, BeginFine DEF Plain, Early
  <1>4. nextId \in Nat /\ nextId >= nextId /\ nextId' = nextId
    BY DEF IInv, Numbers
  <1> QED  BY <1>1, <1>3, <1>4, ClientStep

\* The same, with one statement, ...
LEMMA BeginOne ==
    ASSUME IInv, NEW c \in Clients, NEW kind, NEW x, NEW said, NEW note,
           Begin(c, kind, <<x>>, said, note), UNCHANGED nextId, kind # "idle",
           x.op \in Plain, said = "ended" => x.op = "revoke" /\ x.except \in {0, note}
    PROVE  IInv'
  <1> DEFINE s == <<x>>
  <1>1. s \in Seq(Elements(s)) /\ Elements(s) = {x} /\ Len(s) = 1 /\ s[1] = x /\ ~Empty(s)
    BY Tuples DEF Empty
  <1>2. Begin(c, kind, s, said, note)
    OBVIOUS
  <1> HIDE DEF s
  <1>3. DOMAIN s = 1..1
    BY <1>1, LenProperties
  <1>4. LastOK(s)
    BY <1>1, <1>3 DEF LastOK
  <1>5. said = "ended" => EndsWith(s, note)
    BY <1>1 DEF EndsWith
  <1> QED  BY <1>1, <1>2, <1>4, <1>5, PlainBegin

\* ... with two, ...
LEMMA BeginTwo ==
    ASSUME IInv, NEW c \in Clients, NEW kind, NEW x, NEW y, NEW said, NEW note,
           Begin(c, kind, <<x, y>>, said, note), UNCHANGED nextId, kind # "idle",
           x.op \in Early, y.op \in Plain,
           said = "ended" => /\ x.op \in {"user", "leave"}
                             /\ y.op = "revoke" /\ y.except \in {0, note}
    PROVE  IInv'
  <1> DEFINE s == <<x, y>>
  <1>1. s \in Seq(Elements(s)) /\ Elements(s) = {x, y} /\ Len(s) = 2 /\ s[1] = x /\ s[2] = y
        /\ ~Empty(s)
    BY Tuples DEF Empty
  <1>2. Begin(c, kind, s, said, note)
    OBVIOUS
  <1> HIDE DEF s
  <1>3. DOMAIN s = 1..2
    BY <1>1, LenProperties
  <1>4. LastOK(s)
    BY <1>1, <1>3 DEF LastOK, Early
  <1>5. said = "ended" => EndsWith(s, note)
    BY <1>1 DEF EndsWith
  <1> QED  BY <1>1, <1>2, <1>4, <1>5, PlainBegin DEF Plain

\* ... and with three.
LEMMA BeginThree ==
    ASSUME IInv, NEW c \in Clients, NEW kind, NEW x, NEW y, NEW v, NEW said, NEW note,
           Begin(c, kind, <<x, y, v>>, said, note), UNCHANGED nextId, kind # "idle",
           x.op \in Early, y.op \in Early, v.op \in Plain, said # "ended"
    PROVE  IInv'
  <1> DEFINE s == <<x, y, v>>
  <1>1. s \in Seq(Elements(s)) /\ Elements(s) = {x, y, v} /\ Len(s) = 3
        /\ s[1] = x /\ s[2] = y /\ s[3] = v
    BY Tuples
  <1>2. Begin(c, kind, s, said, note)
    OBVIOUS
  <1> HIDE DEF s
  <1>3. DOMAIN s = 1..3
    BY <1>1, LenProperties
  <1>4. LastOK(s)
    BY <1>1, <1>3 DEF LastOK, Early
  <1> QED  BY <1>1, <1>2, <1>4, PlainBegin DEF Plain

\* SignIn and CompleteMfa.
LEMMA SignInStep ==
    ASSUME IInv, NEW c \in Clients, SignIn(c) \/ CompleteMfa(c)
    PROVE  IInv'
  <1>1. CASE SignIn(c)
    <2>1. PICK p \in Passwords :
            \/ Begin(c, "signin", <<UserStep(RecordFailedLogin(user, clock))>>, "failure", 0)
            \/ Begin(c, "signin", <<UserStep(SignedIn(user))>>, "challenge", 0)
            \/ Begin(c, "signin", <<UserStep(SignedIn(user)), CapStep>>, "tokens", 0)
      BY <1>1 DEF SignIn
    <2>2. UNCHANGED nextId
      BY <1>1 DEF SignIn
    <2>3. UserStep(RecordFailedLogin(user, clock)).op = "user"
          /\ UserStep(SignedIn(user)).op = "user" /\ CapStep.op = "cap"
      BY DEF UserStep, CapStep
    <2> QED  BY <2>1, <2>2, <2>3, BeginOne, BeginTwo DEF Plain, Early
  <1>2. CASE CompleteMfa(c)
    <2>1. UNCHANGED nextId
      BY <1>2 DEF CompleteMfa
    <2>2. /\ UserStep(RecordFailedLogin(user, clock)).op = "user"
          /\ UserStep(RecordSuccessfulLogin(user)).op = "user" /\ CapStep.op = "cap"
          /\ \A f, x : FactorStep(f, x).op = "factor"
      BY DEF UserStep, CapStep, FactorStep
    <2>3. CASE Begin(c, "mfa", <<UserStep(RecordFailedLogin(user, clock))>>, "failure", 0)
      BY <2>1, <2>2, <2>3, BeginOne DEF Plain, Early
    <2>4. ASSUME NEW f \in factors,
                 Begin(c, "mfa",
                       <<FactorStep(f, "confirmed"), UserStep(RecordSuccessfulLogin(user)), CapStep>>,
                       "tokens", 0)
          PROVE  IInv'
      BY <2>1, <2>2, <2>4, BeginThree DEF Plain, Early
    <2>5. ASSUME NEW f \in factors,
                 Begin(c, "mfa",
                       <<FactorStep(f, "used"), UserStep(RecordSuccessfulLogin(user)), CapStep>>,
                       "recovered", <<f.code, f.set>>)
          PROVE  IInv'
      BY <2>1, <2>2, <2>5, BeginThree DEF Plain, Early
    <2> QED  BY <1>2, <2>3, <2>4, <2>5 DEF CompleteMfa
  <1> QED  BY <1>1, <1>2

\* Refresh: its rows are those of the session it names.
LEMMA RefreshStep ==
    ASSUME IInv, NEW c \in Clients, Refresh(c)
    PROVE  IInv'
  <1>1. PICK id \in DOMAIN sessions :
          \/ /\ Begin(c, "refresh", <<FamilyStep(sessions[id].family)>>, "ended", 0)
             /\ UNCHANGED nextId
          \/ /\ Verdict(sessions[id], clock) = "rotate" /\ nextId' = nextId + 1
             /\ Begin(c, "refresh",
                      <<SessionStep(id, Rotated(sessions[id], nextId, clock)),
                        InsertStep(nextId, Successor(sessions[id], clock))>>, "rotated", 0)
    BY DEF Refresh
  <1>2. CASE /\ Begin(c, "refresh", <<FamilyStep(sessions[id].family)>>, "ended", 0)
             /\ UNCHANGED nextId
    <2>1. /\ FamilyStep(sessions[id].family).op = "revoke"
          /\ FamilyStep(sessions[id].family).except = 0
      BY DEF FamilyStep
    <2> QED  BY <1>2, <2>1, BeginOne DEF Plain
  <1>3. CASE /\ Verdict(sessions[id], clock) = "rotate" /\ nextId' = nextId + 1
             /\ Begin(c, "refresh",
                      <<SessionStep(id, Rotated(sessions[id], nextId, clock)),
                        InsertStep(nextId, Successor(sessions[id], clock))>>, "rotated", 0)
    <2> DEFINE a == SessionStep(id, Rotated(sessions[id], nextId, clock))
               b == InsertStep(nextId, Successor(sessions[id], clock))
               s == <<a, b>>
               w == NewRequest("refresh", s, "rotated", 0)
    <2>1. sessions[id].revoked = Never
      BY <1>3 DEF Verdict
    <2>2. a.op = "session" /\ b.op = "insert"
      BY DEF SessionStep, InsertStep
    <2>3. Begin(c, "refresh", s, "rotated", 0)
      BY <1>3
    <2>4. /\ nextId \in Nat \ {0} /\ clock \in Nat \ {0} /\ nextId' = nextId + 1
          /\ Stored(sessions, nextId, ended, races)
      BY <1>3 DEF IInv, Numbers
    <2>5. a = SessionStep(id, Rotated(sessions[id], nextId, clock))
          /\ b = InsertStep(nextId, Successor(sessions[id], clock))
      OBVIOUS
    <2> HIDE DEF a, b
    <2>6. s \in Seq(Elements(s)) /\ Elements(s) = {a, b} /\ Len(s) = 2 /\ s[1] = a /\ s[2] = b
      BY Tuples
    <2> HIDE DEF s
    <2>7. DOMAIN s = 1..2
      BY <2>6, LenProperties
    <2>8. LastOK(s)
      BY <2>2, <2>6, <2>7 DEF LastOK
    <2>9. /\ own[c] = Nothing /\ IsRequest(w) /\ w.steps = s /\ w.said = "rotated" /\ Empty(w.seen)
          /\ work' = [work EXCEPT ![c] = w] /\ own' = [own EXCEPT ![c] = Nothing]
          /\ UNCHANGED <<sessions, clock, ended, races>>
      BY <2>3, <2>6, <2>8, BeginIs
    <2> HIDE DEF w
    <2>10. /\ Fine(sessions, w, Nothing, nextId + 1, ended, races)
           /\ \A i \in GivenTo(sessions, w, Nothing) : i >= nextId
      BY <2>1, <2>4, <2>5, <2>6, <2>9, RotateFine
    <2>11. nextId + 1 \in Nat /\ nextId + 1 >= nextId
      BY <2>4
    <2> QED  BY <2>4, <2>9, <2>10, <2>11, ClientStep
  <1> QED  BY <1>1, <1>2, <1>3

\* The other use cases.
LEMMA SignedInStep ==
    ASSUME IInv, NEW c \in Clients,
           \/ SignOut(c) \/ SignOutEverywhere(c) \/ ChangePassword(c) \/ RemoveMember(c)
           \/ EnrolMfa(c) \/ ConfirmMfa(c) \/ DisableMfa(c)
    PROVE  IInv'
  <1>1. /\ \A f : FamilyStep(f).op = "revoke" /\ FamilyStep(f).except = 0
        /\ \A id : EveryoneStep(id).op = "revoke" /\ EveryoneStep(id).except = id
        /\ \A u : UserStep(u).op = "user"
        /\ \A f, x : FactorStep(f, x).op = "factor"
        /\ \A x : DiscardStep(x).op = "discard"
        /\ LeaveStep.op = "leave"
    BY DEF FamilyStep, EveryoneStep, UserStep, FactorStep, DiscardStep, LeaveStep
  <1>2. CASE SignOut(c)
    <2>1. PICK id \in DOMAIN sessions :
            Begin(c, "signout", <<FamilyStep(sessions[id].family)>>, "ended", 0)
      BY <1>2 DEF SignOut
    <2>2. UNCHANGED nextId
      BY <1>2 DEF SignOut
    <2> QED  BY <1>1, <2>1, <2>2, BeginOne DEF Plain
  <1>3. CASE SignOutEverywhere(c)
    <2>1. Begin(c, "signout all", <<EveryoneStep(0)>>, "ended", 0) /\ UNCHANGED nextId
      BY <1>3 DEF SignOutEverywhere
    <2> QED  BY <1>1, <2>1, BeginOne DEF Plain
  <1>4. CASE ChangePassword(c)
    <2>1. PICK id \in DOMAIN sessions, p \in Passwords \ {user.password.of} :
            Begin(c, "password", <<UserStep(SetPassword(user, Hashed(p))), EveryoneStep(id)>>, "ended", id)
      BY <1>4 DEF ChangePassword
    <2>2. UNCHANGED nextId
      BY <1>4 DEF ChangePassword
    <2> QED  BY <1>1, <2>1, <2>2, BeginTwo DEF Plain, Early
  <1>5. CASE RemoveMember(c)
    <2>1. Begin(c, "remove", <<LeaveStep, EveryoneStep(0)>>, "ended", 0) /\ UNCHANGED nextId
      BY <1>5 DEF RemoveMember
    <2> QED  BY <1>1, <2>1, BeginTwo DEF Plain, Early
  <1>6. CASE EnrolMfa(c)
    <2>1. /\ Begin(c, "enrol", <<DiscardStep(Enrolment(requests + 1, "pending"))>>, "done", 0)
          /\ UNCHANGED nextId
      BY <1>6 DEF EnrolMfa
    <2> QED  BY <1>1, <2>1, BeginOne DEF Plain, Early
  <1>7. CASE ConfirmMfa(c)
    <2>1. PICK f \in factors :
            Begin(c, "confirm", <<FactorStep(f, "confirmed"),
                                  UserStep([user EXCEPT !.mfa = TRUE])>>, "done", 0)
      BY <1>7 DEF ConfirmMfa
    <2>2. UNCHANGED nextId
      BY <1>7 DEF ConfirmMfa
    <2> QED  BY <1>1, <2>1, <2>2, BeginTwo DEF Plain, Early
  <1>8. CASE DisableMfa(c)
    <2>1. /\ Begin(c, "disable", <<DiscardStep({}), UserStep([user EXCEPT !.mfa = FALSE])>>,
                   "done", 0)
          /\ UNCHANGED nextId
      BY <1>8 DEF DisableMfa
    <2> QED  BY <1>1, <2>1, BeginTwo DEF Plain, Early
  <1> QED  BY <1>2, <1>3, <1>4, <1>5, <1>6, <1>7, <1>8

-----------------------------------------------------------------------------
(* The actions that send a statement                                        *)

\* What the invariant says of one request.
LEMMA Running ==
    ASSUME IInv, NEW c \in Clients
    PROVE  /\ Fine(sessions, work[c], own[c], nextId, ended, races)
           /\ Stored(sessions, nextId, ended, races)
           /\ nextId \in Nat \ {0} /\ nextId \in Nat /\ nextId >= nextId
           /\ work = [d \in Clients |-> work[d]] /\ own = [d \in Clients |-> own[d]]
  BY DEF IInv, Numbers

\* What no statement touches before the commit.
LEMMA Unwritten ==
    ASSUME UNCHANGED unwritten
    PROVE  UNCHANGED <<sessions, clock, ended, races>>
  BY DEF unwritten, account, history

\* Advance, as a change of one request.
LEMMA AdvanceIs ==
    ASSUME NEW c \in Clients, NEW more, Advance(c, more), work = [d \in Clients |-> work[d]]
    PROVE  work' = [work EXCEPT ![c] = Sent(work[c], more \o Tail(work[c].steps))]
  BY DEF Advance, Sent

\* The same, for a statement that plans no others.
LEMMA AdvanceByOne ==
    ASSUME IInv, NEW c \in Clients, Advance(c, <<>>), ~Empty(work[c].steps)
    PROVE  work' = [work EXCEPT ![c] = Sent(work[c], Tail(work[c].steps))]
  <1>1. work' = [work EXCEPT ![c] = Sent(work[c], <<>> \o Tail(work[c].steps))]
    BY AdvanceIs, Running
  <1>2. work[c].steps \in Seq(Elements(work[c].steps))
    BY Running, RequestOf
  <1>3. Tail(work[c].steps) \in Seq(Elements(Tail(work[c].steps)))
    BY <1>2, Pops
  <1> QED  BY <1>1, <1>3, ConcatEmptySeq

\* What is owed is the head of the list.
LEMMA OwesIs ==
    ASSUME NEW c, NEW op, Owes(c, op)
    PROVE  ~Empty(work[c].steps) /\ Head(work[c].steps).op = op /\ Next1(c) = Head(work[c].steps)
  BY DEF Owes, Next1, Empty

\* A statement of one request disturbs no other.
LEMMA SendStep ==
    ASSUME IInv, NEW c \in Clients, NEW w, NEW o,
           UNCHANGED unwritten, UNCHANGED nextId,
           work' = [work EXCEPT ![c] = w], own' = [own EXCEPT ![c] = o],
           Fine(sessions, w, o, nextId, ended, races),
           GivenTo(sessions, w, o) \subseteq GivenTo(sessions, work[c], own[c])
    PROVE  IInv'
  <1>1. UNCHANGED <<sessions, clock, ended, races>>
    BY Unwritten
  <1>2. nextId \in Nat /\ nextId >= nextId /\ nextId' = nextId
    BY Running
  <1> QED  BY <1>1, <1>2, ClientStep

\* Reread.
LEMMA RereadStep ==
    ASSUME IInv, NEW c \in Clients, Reread(c)
    PROVE  IInv'
  <1> DEFINE x == IF Next1(c).op = "user" THEN <<UserSeen(c)>> ELSE <<SessionsSeen(c)[Next1(c).id]>>
             w == Reading(work[c], x)
  <1>1. /\ ~Empty(work[c].steps) /\ Head(work[c].steps).op \in {"user", "session"}
        /\ Next1(c) = Head(work[c].steps)
    BY OwesIs DEF Reread
  <1>2. Head(work[c].steps).op = "session" =>
            Head(x) = Overlay(own[c].sessions, sessions)[Head(work[c].steps).id]
    BY <1>1 DEF SessionsSeen
  <1>3. work' = [work EXCEPT ![c] = w]
    BY Running DEF Reread, Reading
  <1>4. own' = [own EXCEPT ![c] = own[c]]
    BY Running DEF Reread
  <1>5. UNCHANGED unwritten /\ UNCHANGED nextId
    BY DEF Reread
  <1> HIDE DEF x
  <1>6. /\ Fine(sessions, w, own[c], nextId, ended, races)
        /\ GivenTo(sessions, w, own[c]) = GivenTo(sessions, work[c], own[c])
    BY <1>1, <1>2, Running, ReadFine
  <1> HIDE DEF w
  <1> QED  BY <1>3, <1>4, <1>5, <1>6, SendStep

\* PickRows.
LEMMA PickRowsStep ==
    ASSUME IInv, NEW c \in Clients, PickRows(c)
    PROVE  IInv'
  <1> DEFINE x == <<Matching(SessionsSeen(c), Next1(c))>>
             w == Reading(work[c], x)
  <1>1. ~Empty(work[c].steps) /\ Head(work[c].steps).op = "revoke" /\ Next1(c) = Head(work[c].steps)
    BY OwesIs DEF PickRows
  <1>2. Head(x) = Matching(Overlay(own[c].sessions, sessions), Head(work[c].steps))
    BY <1>1 DEF SessionsSeen
  <1>3. work' = [work EXCEPT ![c] = w]
    BY Running DEF PickRows, Reading, Matching
  <1>4. own' = [own EXCEPT ![c] = own[c]]
    BY Running DEF PickRows
  <1>5. UNCHANGED unwritten /\ UNCHANGED nextId
    BY DEF PickRows
  <1> HIDE DEF x
  <1>6. /\ Fine(sessions, w, own[c], nextId, ended, races)
        /\ GivenTo(sessions, w, own[c]) = GivenTo(sessions, work[c], own[c])
    BY <1>1, <1>2, Running, PickFine
  <1> HIDE DEF w
  <1> QED  BY <1>3, <1>4, <1>5, <1>6, SendStep

\* A statement that writes no session, sent by a request.
LEMMA PopStep ==
    ASSUME IInv, NEW c \in Clients, ~Empty(work[c].steps),
           Head(work[c].steps).op \notin {"insert", "revoke"}, Advance(c, <<>>),
           UNCHANGED unwritten, UNCHANGED nextId,
           NEW o, own' = [own EXCEPT ![c] = o], IsWrite(o), o.sessions = own[c].sessions
    PROVE  IInv'
  <1> DEFINE w == Sent(work[c], Tail(work[c].steps))
  <1>1. work' = [work EXCEPT ![c] = w]
    BY AdvanceByOne
  <1>2. /\ Fine(sessions, w, o, nextId, ended, races)
        /\ GivenTo(sessions, w, o) \subseteq GivenTo(sessions, work[c], own[c])
    BY Running, PopFine
  <1> HIDE DEF w
  <1> QED  BY <1>1, <1>2, SendStep

WithSessions(o, x)   == [o EXCEPT !.sessions = x]
WithLeft(o, x)       == [o EXCEPT !.left = x]
WithFactors(o, x, y) == [o EXCEPT !.dropped = x, !.added = y]

\* The update of one credential by the statement h.
Consuming(o, h) ==
    WithFactors(o, o.dropped \cup ({h.row, h.obj} \cap factors), o.added \cup {h.obj})

\* What a request wrote, one field at a time.
LEMMA WriteFields ==
    ASSUME NEW o, IsWrite(o), NEW x, NEW y
    PROVE  /\ IsWrite(WithSessions(o, x)) /\ WithSessions(o, x).sessions = x
           /\ IsWrite(WithLeft(o, x)) /\ WithLeft(o, x).sessions = o.sessions
           /\ IsWrite(WithFactors(o, x, y)) /\ WithFactors(o, x, y).sessions = o.sessions
  <1>1. o = [user |-> o.user, sessions |-> o.sessions, dropped |-> o.dropped, added |-> o.added,
             left |-> o.left]
    BY DEF IsWrite
  <1>2. [o EXCEPT !.sessions = x] =
            [user |-> o.user, sessions |-> x, dropped |-> o.dropped, added |-> o.added,
             left |-> o.left]
    BY <1>1
  <1>3. [o EXCEPT !.left = x] =
            [user |-> o.user, sessions |-> o.sessions, dropped |-> o.dropped, added |-> o.added,
             left |-> x]
    BY <1>1
  <1>4. [o EXCEPT !.dropped = x] =
            [user |-> o.user, sessions |-> o.sessions, dropped |-> x, added |-> o.added,
             left |-> o.left]
    BY <1>1
  <1>5. [o EXCEPT !.dropped = x, !.added = y] =
            [user |-> o.user, sessions |-> o.sessions, dropped |-> x, added |-> y,
             left |-> o.left]
    <2> DEFINE p == [o EXCEPT !.dropped = x]
    <2>1. [o EXCEPT !.dropped = x, !.added = y] = [p EXCEPT !.added = y]
      BY <1>1
    <2>2. p = [user |-> o.user, sessions |-> o.sessions, dropped |-> x, added |-> o.added,
               left |-> o.left]
      BY <1>4
    <2> HIDE DEF p
    <2>3. [p EXCEPT !.added = y] =
              [user |-> o.user, sessions |-> o.sessions, dropped |-> x, added |-> y,
               left |-> o.left]
      BY <2>2
    <2> QED  BY <2>1, <2>3
  <1>6. \A u, t, d, a, l :
          LET p == [user |-> u, sessions |-> t, dropped |-> d, added |-> a, left |-> l]
          IN IsWrite(p) /\ p.sessions = t
    BY DEF IsWrite
  <1> QED  BY <1>2, <1>3, <1>5, <1>6 DEF WithSessions, WithLeft, WithFactors

\* What a request wrote has its fields.
LEMMA WriteOf ==
    ASSUME IInv, NEW c \in Clients
    PROVE  IsWrite(own[c])
  BY Running DEF Fine

\* WriteUser, WriteFactor, Discard and Leave write no session.
LEMMA OtherWritesStep ==
    ASSUME IInv, NEW c \in Clients, WriteUser(c) \/ WriteFactor(c) \/ Discard(c) \/ Leave(c)
    PROVE  IInv'
  <1>1. IsWrite(own[c]) /\ own = [d \in Clients |-> own[d]]
    BY WriteOf, Running
  <1>2. CASE WriteUser(c)
    <2> DEFINE o == [own[c] EXCEPT !.user = <<Merge(UserSeen(c), Next1(c).obj, Head(work[c].seen))>>]
    <2>1. ~Empty(work[c].steps) /\ Head(work[c].steps).op = "user"
      BY <1>2, OwesIs DEF WriteUser
    <2>2. own' = [own EXCEPT ![c] = o]
      BY <1>1, <1>2 DEF WriteUser
    <2>3. IsWrite(o) /\ o.sessions = own[c].sessions
      BY <1>1 DEF IsWrite
    <2>4. Advance(c, <<>>) /\ UNCHANGED unwritten /\ UNCHANGED nextId
      BY <1>2 DEF WriteUser
    <2> HIDE DEF o
    <2> QED  BY <2>1, <2>2, <2>3, <2>4, PopStep
  <1>3. CASE WriteFactor(c)
    <2>1. ~Empty(work[c].steps) /\ Head(work[c].steps).op = "factor"
      BY <1>3, OwesIs DEF WriteFactor
    <2>2. Advance(c, <<>>) /\ UNCHANGED unwritten /\ UNCHANGED nextId
      BY <1>3 DEF WriteFactor
    <2> DEFINE o == Consuming(own[c], Next1(c))
    <2>3. own' = [own EXCEPT ![c] = o]
      BY <1>1, <1>3 DEF WriteFactor, Consuming, WithFactors
    <2>4. IsWrite(o) /\ o.sessions = own[c].sessions
      BY <1>1, WriteFields DEF Consuming
    <2> HIDE DEF o
    <2> QED  BY <2>1, <2>2, <2>3, <2>4, PopStep
  <1>4. CASE Discard(c)
    <2> DEFINE o == WithFactors(own[c], factors, Next1(c).added)
    <2>1. ~Empty(work[c].steps) /\ Head(work[c].steps).op = "discard"
      BY <1>4, OwesIs DEF Discard
    <2>2. own' = [own EXCEPT ![c] = o]
      BY <1>1, <1>4 DEF Discard, WithFactors
    <2>3. IsWrite(o) /\ o.sessions = own[c].sessions
      BY <1>1, WriteFields
    <2>4. Advance(c, <<>>) /\ UNCHANGED unwritten /\ UNCHANGED nextId
      BY <1>4 DEF Discard
    <2> HIDE DEF o
    <2> QED  BY <2>1, <2>2, <2>3, <2>4, PopStep
  <1>5. CASE Leave(c)
    <2> DEFINE o == WithLeft(own[c], TRUE)
    <2>1. ~Empty(work[c].steps) /\ Head(work[c].steps).op = "leave"
      BY <1>5, OwesIs DEF Leave
    <2>2. own' = [own EXCEPT ![c] = o]
      BY <1>1, <1>5 DEF Leave, WithLeft
    <2>3. IsWrite(o) /\ o.sessions = own[c].sessions
      BY <1>1, WriteFields, Zenon
    <2>4. Advance(c, <<>>) /\ UNCHANGED unwritten /\ UNCHANGED nextId
      BY <1>5 DEF Leave
    <2> HIDE DEF o
    <2> QED  BY <2>1, <2>2, <2>3, <2>4, PopStep
  <1> QED  BY <1>2, <1>3, <1>4, <1>5

\* Writes to sessions leave the other fields.
LEMMA WritesSessions ==
    ASSUME IInv, NEW c \in Clients, NEW X
    PROVE  IsWrite(WithSessions(own[c], X)) /\ WithSessions(own[c], X).sessions = X
  BY WriteOf, WriteFields

\* WriteSession.
LEMMA WriteSessionStep ==
    ASSUME IInv, NEW c \in Clients, WriteSession(c)
    PROVE  IInv'
  <1> DEFINE h == Head(work[c].steps)
             V == Overlay(own[c].sessions, sessions)
             r == Merge(V[h.id], h.obj, Head(work[c].seen))
             X == With(own[c].sessions, h.id, r)
             o == WithSessions(own[c], X)
             w == Sent(work[c], Tail(work[c].steps))
  <1>1. ~Empty(work[c].steps) /\ h.op = "session" /\ Next1(c) = h
    BY OwesIs DEF WriteSession
  <1>2. ~Empty(work[c].seen)
    BY DEF WriteSession, Empty
  <1>3. own' = [own EXCEPT ![c] = o]
    BY <1>1, Running DEF WriteSession, With, SessionsSeen, WithSessions
  <1>4. UNCHANGED unwritten /\ UNCHANGED nextId /\ Advance(c, <<>>)
    BY DEF WriteSession
  <1>5. work' = [work EXCEPT ![c] = w]
    BY <1>1, <1>4, AdvanceByOne
  <1>6. r = Merge(V[h.id], h.obj, Head(work[c].seen))
    OBVIOUS
  <1> HIDE DEF r, V, w
  <1>7. IsWrite(o) /\ o.sessions = X
    BY WritesSessions
  <1>8. /\ Fine(sessions, work[c], own[c], nextId, ended, races)
        /\ Stored(sessions, nextId, ended, races)
    BY Running
  <1> HIDE DEF o
  <1>9. o.sessions = With(own[c].sessions, h.id, r)
    BY <1>7
  <1> HIDE DEF X
  <1>10. /\ Fine(sessions, w, o, nextId, ended, races)
        /\ GivenTo(sessions, w, o) \subseteq GivenTo(sessions, work[c], own[c])
    BY <1>1, <1>2, <1>6, <1>7, <1>8, <1>9, WriteFine DEF V, w
  <1> QED  BY <1>3, <1>4, <1>5, <1>10, SendStep

\* InsertSession.
LEMMA InsertSessionStep ==
    ASSUME IInv, NEW c \in Clients, InsertSession(c)
    PROVE  IInv'
  <1> DEFINE h == Head(work[c].steps)
             X == With(own[c].sessions, h.id, h.obj)
             o == WithSessions(own[c], X)
             w == Sent(work[c], Tail(work[c].steps))
  <1>1. ~Empty(work[c].steps) /\ h.op = "insert" /\ Next1(c) = h
    BY OwesIs DEF InsertSession
  <1>2. own' = [own EXCEPT ![c] = o]
    BY <1>1, Running DEF InsertSession, With, WithSessions
  <1>3. UNCHANGED unwritten /\ UNCHANGED nextId /\ Advance(c, <<>>)
    BY DEF InsertSession
  <1>4. work' = [work EXCEPT ![c] = w]
    BY <1>1, <1>3, AdvanceByOne
  <1>5. IsWrite(o) /\ o.sessions = X
    BY WritesSessions
  <1>6. /\ Fine(sessions, work[c], own[c], nextId, ended, races)
        /\ Stored(sessions, nextId, ended, races)
    BY Running
  <1> HIDE DEF o
  <1>7. /\ Fine(sessions, w, o, nextId, ended, races)
        /\ GivenTo(sessions, w, o) \subseteq GivenTo(sessions, work[c], own[c])
    BY <1>1, <1>5, <1>6, InsertFine
  <1> HIDE DEF w
  <1> QED  BY <1>2, <1>3, <1>4, <1>7, SendStep

\* Revoke.
LEMMA RevokeStep ==
    ASSUME IInv, NEW c \in Clients, Revoke(c)
    PROVE  IInv'
  <1> DEFINE V == Overlay(own[c].sessions, sessions)
             X == Overlay([i \in Head(work[c].seen) |-> Revoked(V[i], work[c].now)], own[c].sessions)
             o == WithSessions(own[c], X)
             w == Sent(work[c], Tail(work[c].steps))
  <1>1. ~Empty(work[c].steps) /\ Head(work[c].steps).op = "revoke"
    BY OwesIs DEF Revoke
  <1>2. ~Empty(work[c].seen)
    BY DEF Revoke, Empty
  <1>3. own' = [own EXCEPT ![c] = o]
    BY Running DEF Revoke, SessionsSeen, WithSessions
  <1>4. UNCHANGED unwritten /\ UNCHANGED nextId /\ Advance(c, <<>>)
    BY DEF Revoke
  <1>5. work' = [work EXCEPT ![c] = w]
    BY <1>1, <1>4, AdvanceByOne
  <1>6. IsWrite(o) /\ o.sessions = X
    BY WritesSessions
  <1>7. /\ Fine(sessions, work[c], own[c], nextId, ended, races)
        /\ Stored(sessions, nextId, ended, races)
    BY Running
  <1> HIDE DEF o
  <1>8. /\ Fine(sessions, w, o, nextId, ended, races)
        /\ GivenTo(sessions, w, o) \subseteq GivenTo(sessions, work[c], own[c])
    BY <1>1, <1>2, <1>6, <1>7, RevokeFine
  <1> HIDE DEF w
  <1> QED  BY <1>3, <1>4, <1>5, <1>8, SendStep

\* EnforceCap.
LEMMA CapStepOf ==
    ASSUME IInv, NEW c \in Clients, EnforceCap(c)
    PROVE  IInv'
  <1> DEFINE V == Overlay(own[c].sessions, sessions)
             S == CapSteps(V, work[c].now, nextId) \o Tail(work[c].steps)
             w == Sent(work[c], S)
  <1>1. ~Empty(work[c].steps) /\ Head(work[c].steps).op = "cap"
    BY OwesIs DEF EnforceCap
  <1>2. Advance(c, CapSteps(V, work[c].now, nextId))
    BY CapIs DEF SessionsSeen
  <1>3. nextId' = nextId + 1 /\ UNCHANGED unwritten /\ UNCHANGED own
    BY DEF EnforceCap
  <1>4. UNCHANGED <<sessions, clock, ended, races>>
    BY <1>3, Unwritten
  <1>5. own' = [own EXCEPT ![c] = own[c]]
    BY <1>3, Running
  <1>6. work' = [work EXCEPT ![c] = w]
    BY <1>2, AdvanceIs, Running
  <1>7. /\ Fine(sessions, work[c], own[c], nextId, ended, races)
        /\ Stored(sessions, nextId, ended, races) /\ nextId \in Nat \ {0}
        /\ nextId + 1 \in Nat /\ nextId + 1 >= nextId
    BY Running
  <1>8. CapLeaves(S, V, work[c].now, nextId)
    BY <1>1, <1>7, CapSends
  <1> HIDE DEF S
  <1>9. /\ Fine(sessions, w, own[c], nextId + 1, ended, races)
        /\ \A i \in GivenTo(sessions, w, own[c]) :
              i \in GivenTo(sessions, work[c], own[c]) \/ i >= nextId
    BY <1>1, <1>7, <1>8, CapFine
  <1> HIDE DEF w
  <1> QED  BY <1>3, <1>4, <1>5, <1>6, <1>7, <1>9, ClientStep

-----------------------------------------------------------------------------
(* The end of a request, and time                                           *)

\* A request that something was committed beside.
Overtaken(w) == [w EXCEPT !.beside = @ + 1]

\* A request that another commits beside counts it.
LEMMA OvertakenIs ==
    ASSUME NEW w, IsRequest(w)
    PROVE  /\ IsRequest(Overtaken(w)) /\ Overtaken(w) # Idle
           /\ Overtaken(w).steps = w.steps /\ Overtaken(w).beside # 0
           /\ Picks(Overtaken(w)) = Picks(w)
  <1>1. /\ IsRequest(Overtaken(w)) /\ Overtaken(w).steps = w.steps
        /\ Overtaken(w).seen = w.seen /\ Overtaken(w).beside # 0
    BY DEF IsRequest, Overtaken
  <1>2. Picks(Overtaken(w)) = Picks(w)
    BY <1>1 DEF Picks, Sends
  <1> QED  BY <1>1, <1>2, NotIdle

\* What is still running is in order over the rows now committed.
LEMMA OvertakenFine ==
    ASSUME NEW T, NEW O2, NEW w, NEW o, NEW n, NEW E, NEW z, NEW y, Lineage(T),
           ClientOK(T, O2, {}, {}, n, E), Fine(T, w, o, n, E, z), w # Idle,
           GivenTo(T, w, o) \cap Given(T, O2, {}) = {}
    PROVE  /\ Fine(Overlay(O2, T), Overtaken(w), o, n, E, y)
           /\ GivenTo(Overlay(O2, T), Overtaken(w), o) \subseteq GivenTo(T, w, o)
  <1> DEFINE T1 == Overlay(O2, T)
             w1 == Overtaken(w)
             D == Elements(w.steps)
  <1>1. IsRequest(w) /\ IsWrite(o) /\ IsTable(o.sessions, n)
        /\ ClientOK(T, o.sessions, D, Picks(w), n, E)
    BY DEF Fine
  <1>2. /\ IsRequest(w1) /\ w1 # Idle /\ w1.steps = w.steps /\ w1.beside # 0 /\ Picks(w1) = Picks(w)
    BY <1>1, OvertakenIs
  <1>3. Given(T, o.sessions, D) \cap Given(T, O2, {}) = {}
    BY DEF GivenTo
  <1> HIDE DEF T1, w1, D
  <1>4. /\ ClientOK(T1, o.sessions, D, Picks(w), n, E)
        /\ Given(T1, o.sessions, D) \subseteq Given(T, o.sessions, D)
    BY <1>1, <1>3, CommitBeside DEF T1
  <1>5. PairedFor(T1, w1, o) /\ EndingOK(T1, w1, o)
    BY <1>2 DEF PairedFor, EndingOK
  <1>6. Fine(T1, w1, o, n, E, y)
    BY <1>1, <1>2, <1>4, <1>5 DEF Fine, D
  <1> QED  BY <1>2, <1>4, <1>6 DEF GivenTo, T1, w1, D

\* The rows after a commit, F being the families that count as ended now.
LEMMA CommitStored ==
    ASSUME NEW T, NEW w, NEW o, NEW n, NEW E, NEW z \in Nat, Stored(T, n, E, z),
           Fine(T, w, o, n, E, z), w # Idle, Empty(w.steps),
           NEW F, \/ F = E
                  \/ /\ w.said = "ended" /\ w.beside = 0
                     /\ F = E \cup ({T[i].family : i \in DOMAIN o.sessions \cap DOMAIN T}
                                     \ {T[i].family : i \in {w.note} \cap DOMAIN T})
    PROVE  /\ z + w.beside \in Nat /\ ClientOK(T, o.sessions, {}, {}, n, E)
           /\ Stored(Overlay(o.sessions, T), n, F, z + w.beside)
  <1> DEFINE O == o.sessions
             V == Overlay(O, T)
  <1>1. IsRequest(w) /\ IsTable(O, n) /\ (z = 0 => PairedFor(T, w, o)) /\ EndingOK(T, w, o)
        /\ ClientOK(T, O, Elements(w.steps), Picks(w), n, E)
    BY DEF Fine
  <1>2. Elements(w.steps) = {} /\ Picks(w) = {}
    BY Tuples DEF Empty, Picks, Sends
  <1>3. ClientOK(T, O, {}, {}, n, E)
    BY <1>1, <1>2
  <1>4. /\ IsTable(T, n) /\ Lineage(T) /\ E \subseteq DOMAIN T
        /\ \A i \in DOMAIN T : T[i].family \in E => T[i].revoked # Never
        /\ (z = 0 => \A i \in DOMAIN T : Paired(T[i]))
    BY DEF Stored
  <1>5. IsTable(V, n) /\ Lineage(V)
    BY <1>1, <1>3, <1>4, CommitRows
  <1>6. /\ DOMAIN V = DOMAIN O \cup DOMAIN T
        /\ \A j \in DOMAIN O : V[j] = O[j]
        /\ \A j \in DOMAIN T : j \notin DOMAIN O => V[j] = T[j]
    BY DEF Overlay
  <1>7. w.beside \in Nat /\ z + w.beside \in Nat /\ (z + w.beside = 0 => z = 0 /\ w.beside = 0)
    BY <1>1 DEF IsRequest
  <1>8. RowsOK(T, O, {}) /\ \A i \in DOMAIN O : O[i].family \notin E
    BY <1>3 DEF ClientOK, Spares
  <1>9. \A i \in DOMAIN V : RowOK(T, V, {}, V[i], i)
    BY <1>4, <1>8, ViewOK
  <1> HIDE DEF V, O
  <1>10. z + w.beside = 0 => \A i \in DOMAIN V : Paired(V[i])
    <2> SUFFICES ASSUME z = 0, w.beside = 0 PROVE \A i \in DOMAIN V : Paired(V[i])
      BY <1>7
    <2>1. \A i \in DOMAIN O : Paired(O[i])
      BY <1>1 DEF PairedFor, O
    <2>2. \A i \in DOMAIN T : Paired(T[i])
      BY <1>4
    <2>3. ASSUME NEW i \in DOMAIN V PROVE (V[i] = O[i] /\ i \in DOMAIN O) \/ (V[i] = T[i] /\ i \in DOMAIN T)
      BY <1>6, <2>3
    <2> QED  BY <2>1, <2>2, <2>3
  <1>11. F \subseteq DOMAIN V
    <2>1. \A i \in DOMAIN T : T[i].family \in DOMAIN T
      BY <1>4 DEF Lineage
    <2> QED  BY <1>4, <1>6, <2>1
  <1>12. ASSUME NEW i \in DOMAIN V, V[i].family \in F PROVE V[i].revoked # Never
    <2>1. CASE V[i].family \in E
      BY <1>4, <1>6, <1>8, <1>12, <2>1
    <2>2. CASE V[i].family \notin E
      <3>1. /\ w.said = "ended" /\ w.beside = 0
            /\ V[i].family \in {T[j].family : j \in DOMAIN O \cap DOMAIN T}
            /\ V[i].family \notin {T[j].family : j \in {w.note} \cap DOMAIN T}
        BY <1>12, <2>2 DEF O
      <3>2. PICK j \in DOMAIN O \cap DOMAIN T : V[i].family = T[j].family
        BY <3>1
      <3>3. Complete(T, w, o)
        BY <1>1, <3>1 DEF EndingOK
      <3>4. /\ DOMAIN O \subseteq DOMAIN T
            /\ \A a \in DOMAIN T, b \in DOMAIN O :
                  T[a].family = T[b].family /\ a # w.note => V[a].revoked # Never
        BY <3>3 DEF Complete, O, V
      <3>5. i \in DOMAIN T
        BY <1>6, <1>12, <3>4
      <3>6. V[i].family = T[i].family
        BY <1>9, <1>12, <3>5 DEF RowOK, Kin
      <3>7. i # w.note
        BY <3>1, <3>5, <3>6
      <3> QED  BY <3>2, <3>4, <3>5, <3>6, <3>7
    <2> QED  BY <2>1, <2>2
  <1>13. Stored(V, n, F, z + w.beside)
    BY <1>5, <1>10, <1>11, <1>12 DEF Stored
  <1> QED  BY <1>3, <1>7, <1>13 DEF V, O

\* Commit.
LEMMA CommitStep ==
    ASSUME IInv, NEW c \in Clients, Commit(c)
    PROVE  IInv'
  <1> DEFINE w == work[c]
             o == own[c]
             T1 == Overlay(o.sessions, sessions)
  <1>1. /\ Fine(sessions, w, o, nextId, ended, races) /\ Stored(sessions, nextId, ended, races)
        /\ w # Idle /\ Empty(w.steps) /\ races \in Nat
    BY Running DEF Commit, IInv, Numbers, Empty
  <1>2. /\ sessions' = T1 /\ races' = races + w.beside /\ nextId' = nextId /\ clock' = clock
    BY DEF Commit, SessionsSeen
  <1>3. \/ ended' = ended
        \/ /\ w.said = "ended" /\ w.beside = 0
           /\ \A d \in Clients : d # c => work[d] = Idle
           /\ ended' = ended \cup ({sessions[i].family : i \in DOMAIN o.sessions \cap DOMAIN sessions}
                                     \ {sessions[i].family : i \in {w.note} \cap DOMAIN sessions})
    BY DEF Commit, RunningBeside, Others, FamiliesOf
  <1>4. /\ work' = [d \in Clients |-> IF d = c \/ work[d] = Idle THEN Idle ELSE Overtaken(work[d])]
        /\ own' = [own EXCEPT ![c] = Nothing]
    BY DEF Commit, Release, Overtaken
  <1>5. /\ work'[c] = Idle /\ own'[c] = Nothing
        /\ \A d \in Clients : d # c => own'[d] = own[d]
        /\ \A d \in Clients : d # c /\ work[d] = Idle => work'[d] = Idle
        /\ \A d \in Clients : d # c /\ work[d] # Idle => work'[d] = Overtaken(work[d])
        /\ work' = [d \in Clients |-> work'[d]] /\ own' = [d \in Clients |-> own'[d]]
    BY <1>4, Running
  <1> HIDE DEF w, o, T1
  <1>6. /\ races + w.beside \in Nat
        /\ ClientOK(sessions, o.sessions, {}, {}, nextId, ended)
        /\ Stored(T1, nextId, ended', races + w.beside)
    BY <1>1, <1>3, CommitStored DEF T1
  <1>7. Numbers'
    BY <1>2, <1>6 DEF IInv, Numbers
  <1>8. Stored(sessions', nextId', ended', races')
    BY <1>2, <1>6
  <1>9. ASSUME NEW d \in Clients, d # c, work[d] # Idle
        PROVE  /\ Fine(T1, Overtaken(work[d]), own[d], nextId, ended, races')
               /\ GivenTo(T1, Overtaken(work[d]), own[d]) \subseteq GivenTo(sessions, work[d], own[d])
    <2>1. GivenTo(sessions, work[d], own[d]) \cap GivenTo(sessions, w, o) = {}
      BY <1>9 DEF IInv, Apart, w, o
    <2>2. GivenTo(sessions, w, o) = Given(sessions, o.sessions, {})
      BY <1>1, Tuples DEF GivenTo, Empty
    <2>3. GivenTo(sessions, work[d], own[d]) \cap Given(sessions, o.sessions, {}) = {}
      BY <2>1, <2>2
    <2>4. Fine(sessions, work[d], own[d], nextId, ended, races)
      BY Running
    <2>5. Lineage(sessions)
      BY <1>1 DEF Stored
    <2> QED  BY <1>6, <1>9, <2>3, <2>4, <2>5, OvertakenFine DEF T1
  <1>10. ASSUME NEW d \in Clients
         PROVE  /\ Fine(T1, work'[d], own'[d], nextId, ended', races')
                /\ GivenTo(T1, work'[d], own'[d]) \subseteq GivenTo(sessions, work[d], own[d])
    <2>1. CASE d = c
      BY <1>5, <2>1, IdleFine
    <2>2. CASE d # c /\ work[d] = Idle
      <3>1. own[d] = Nothing
        BY <2>2, Running DEF Fine
      <3> QED  BY <1>5, <2>2, <3>1, IdleFine
    <2>3. CASE d # c /\ work[d] # Idle
      <3>1. ended' = ended
        BY <1>3, <2>3
      <3> QED  BY <1>5, <1>9, <2>3, <3>1
    <2> QED  BY <2>1, <2>2, <2>3
  <1>11. Apart'
    <2>1. ASSUME NEW d \in Clients, NEW e \in Clients, d # e
          PROVE  GivenTo(T1, work'[d], own'[d]) \cap GivenTo(T1, work'[e], own'[e]) = {}
      <3>1. GivenTo(sessions, work[d], own[d]) \cap GivenTo(sessions, work[e], own[e]) = {}
        BY <2>1 DEF IInv, Apart
      <3> QED  BY <1>10, <3>1
    <2> QED  BY <1>2, <2>1 DEF Apart
  <1> QED  BY <1>2, <1>5, <1>7, <1>8, <1>10, <1>11 DEF IInv

\* Fail: what was rolled back was nobody else's.
LEMMA FailStep ==
    ASSUME IInv, NEW c \in Clients, Fail(c)
    PROVE  IInv'
  <1>1. work' = [work EXCEPT ![c] = Idle] /\ own' = [own EXCEPT ![c] = Nothing]
        /\ UNCHANGED <<sessions, clock, ended, races>> /\ nextId' = nextId
    BY DEF Fail, Release, account, history
  <1>2. /\ Fine(sessions, Idle, Nothing, nextId, ended, races)
        /\ GivenTo(sessions, Idle, Nothing) = {}
    BY IdleFine
  <1> QED  BY <1>1, <1>2, Running, ClientStep

\* Tick, and steps that change nothing.
LEMMA NothingChanges ==
    ASSUME IInv, UNCHANGED <<work, own, sessions, nextId, ended, races>>,
           clock' \in Nat \ {0}
    PROVE  IInv'
  BY DEF IInv, Numbers, Apart

-----------------------------------------------------------------------------
(* The theorems                                                             *)

\* The first session is a family of its own.
LEMMA Starts == Init => IInv
  <1> SUFFICES ASSUME Init PROVE IInv
    OBVIOUS
  <1> DEFINE s == Start(1, 1)
  <1>1. /\ sessions = <<s>> /\ work = [c \in Clients |-> Idle] /\ own = [c \in Clients |-> Nothing]
        /\ clock = 1 /\ nextId = 2 /\ races = 0 /\ ended = {}
    BY DEF Init
  <1>2. s \in Row /\ s.family = 1 /\ s.by = 0 /\ s.rotated = Never
    BY PolicyAssumption DEF Start, Row, Never
  <1> HIDE DEF s
  <1>3. DOMAIN sessions = {1} /\ sessions[1] = s /\ sessions = [i \in DOMAIN sessions |-> sessions[i]]
    BY <1>1
  <1>4. Stored(sessions, nextId, ended, races)
    <2>1. IsTable(sessions, nextId)
      BY <1>1, <1>2, <1>3 DEF IsTable
    <2>2. Lineage(sessions)
      BY <1>2, <1>3 DEF Lineage
    <2>3. \A i \in DOMAIN sessions : Paired(sessions[i])
      BY <1>2, <1>3 DEF Paired
    <2> QED  BY <1>1, <2>1, <2>2, <2>3 DEF Stored
  <1>5. \A c \in Clients : /\ Fine(sessions, work[c], own[c], nextId, ended, races)
                           /\ GivenTo(sessions, work[c], own[c]) = {}
    BY <1>1, IdleFine
  <1>6. Apart
    BY <1>5 DEF Apart
  <1> QED  BY <1>1, <1>4, <1>5, <1>6 DEF IInv, Numbers

\* Every step keeps the invariant.
LEMMA Steps == IInv /\ [Next]_vars => IInv'
  <1> SUFFICES ASSUME IInv, [Next]_vars PROVE IInv'
    OBVIOUS
  <1>1. ASSUME NEW c \in Clients, SignIn(c) \/ CompleteMfa(c) PROVE IInv'
    BY <1>1, SignInStep
  <1>2. ASSUME NEW c \in Clients, Refresh(c) PROVE IInv'
    BY <1>2, RefreshStep
  <1>3. ASSUME NEW c \in Clients,
               \/ SignOut(c) \/ SignOutEverywhere(c) \/ ChangePassword(c) \/ RemoveMember(c)
               \/ EnrolMfa(c) \/ ConfirmMfa(c) \/ DisableMfa(c)
        PROVE  IInv'
    BY <1>3, SignedInStep
  <1>4. ASSUME NEW c \in Clients, Reread(c) PROVE IInv'
    BY <1>4, RereadStep
  <1>5. ASSUME NEW c \in Clients, WriteUser(c) \/ WriteFactor(c) \/ Discard(c) \/ Leave(c)
        PROVE  IInv'
    BY <1>5, OtherWritesStep
  <1>6. ASSUME NEW c \in Clients, WriteSession(c) PROVE IInv'
    BY <1>6, WriteSessionStep
  <1>7. ASSUME NEW c \in Clients, InsertSession(c) PROVE IInv'
    BY <1>7, InsertSessionStep
  <1>8. ASSUME NEW c \in Clients, PickRows(c) PROVE IInv'
    BY <1>8, PickRowsStep
  <1>9. ASSUME NEW c \in Clients, Revoke(c) PROVE IInv'
    BY <1>9, RevokeStep
  <1>10. ASSUME NEW c \in Clients, EnforceCap(c) PROVE IInv'
    BY <1>10, CapStepOf
  <1>11. ASSUME NEW c \in Clients, Commit(c) PROVE IInv'
    BY <1>11, CommitStep
  <1>12. ASSUME NEW c \in Clients, Fail(c) PROVE IInv'
    BY <1>12, FailStep
  <1>13. CASE Tick
    <2>1. UNCHANGED <<work, own, sessions, nextId, ended, races>> /\ clock' = clock + 1
      BY <1>13 DEF Tick, account, history
    <2>2. clock' \in Nat \ {0}
      BY <2>1 DEF IInv, Numbers
    <2> QED  BY <2>1, <2>2, NothingChanges
  <1>14. CASE UNCHANGED vars
    <2>1. UNCHANGED <<work, own, sessions, nextId, ended, races>> /\ clock' = clock
      BY <1>14 DEF vars, account, history
    <2>2. clock' \in Nat \ {0}
      BY <2>1 DEF IInv, Numbers
    <2> QED  BY <2>1, <2>2, NothingChanges
  <1> QED  BY <1>1, <1>2, <1>3, <1>4, <1>5, <1>6, <1>7, <1>8, <1>9, <1>10, <1>11, <1>12, <1>13,
              <1>14 DEF Next

\* The invariant the theorems on sessions rest on.
LEMMA AlwaysIInv == Spec => []IInv
  BY Starts, Steps, PTL DEF Spec

\* Rotation: in every state a family keeps the expiry of its first session, its
\* replacements lead on within it, and while no requests have overlapped a session
\* is rotated just when it has a successor.
THEOREM FamilyStaysIntact == Spec => []FamilyIsIntact
  <1>1. IInv => FamilyIsIntact
    BY DEF IInv, Stored, Lineage, Paired, FamilyIsIntact
  <1> QED  BY <1>1, AlwaysIInv, PTL

\* Sign-out, reuse detection, password change and removal: a family ended beside
\* no other request has no session, and never gets one, that is not revoked.
THEOREM EndedIsEnded == Spec => []EndedStaysEnded
  <1>1. IInv => EndedStaysEnded
    BY DEF IInv, Stored, EndedStaysEnded
  <1> QED  BY <1>1, AlwaysIInv, PTL

-----------------------------------------------------------------------------
(* Failed attempts                                                          *)

\* A user's row, as far as it counts failures.
IsUser(u) == DOMAIN u = {"password", "mfa", "failed", "lockedUntil"} /\ u.failed \in Nat

\* A row that misses at most y of n failures, and is locked in time but for them.
Enough(n, u, y) == n <= u.failed + y /\ (n >= Threshold + y => u.lockedUntil # Never)

\* How many failures count once a request has committed, n counting before.
CountAfter(w, n) ==
    IF w.said = "failure" THEN n + 1
    ELSE IF w.said \in {"tokens", "recovered", "challenge"} \/ w.kind = "password" THEN 0 ELSE n

\* A row that request w may leave.
RowCounts(w, u, n, z) == IsUser(u) /\ Enough(CountAfter(w, n), u, z + w.beside)

\* What a request sees of the user's row u.
UserFor(o, u) == IF Empty(o.user) THEN u ELSE Head(o.user)

CountsFor(w, o, u, n, z) ==
    w # Idle =>
        /\ \A s \in Elements(w.steps) : s.op = "user" => RowCounts(w, s.obj, n, z)
        /\ ~Empty(o.user) => RowCounts(w, Head(o.user), n, z)
        /\ w.said = "failure" => /\ \A s \in Elements(w.steps) : s.op = "user"
                                 /\ Empty(w.steps) => ~Empty(o.user)
        /\ Sends(w, "user") /\ ~Empty(w.seen) /\ w.beside = 0 => Head(w.seen) = UserFor(o, u)

FailuresInv ==
    /\ failures \in Nat /\ IsUser(user) /\ Enough(failures, user, races)
    /\ \A c \in Clients : CountsFor(work[c], own[c], user, failures, races)

-----------------------------------------------------------------------------
(* Recovery codes                                                           *)

Keys(m) == RecoveryCodes \X (0..m)

\* The row of a recovery code that is still good, and of one that was taken.
Unused(k) == [kind |-> "RECOVERY", code |-> k[1], set |-> k[2], state |-> "unused"]
Used(k)   == [kind |-> "RECOVERY", code |-> k[1], set |-> k[2], state |-> "used"]

\* A credential of one of the first m enrolments.
IsFactor(f, m) ==
    /\ f = [kind |-> f.kind, code |-> f.code, set |-> f.set, state |-> f.state]
    /\ f.kind \in {"TOTP", "RECOVERY"} /\ f.set \in 0..m
    /\ f.kind = "RECOVERY" => f.code \in RecoveryCodes

\* The codes a request may store, which are new.
Offers(w, o) ==
    {k \in Keys(MaxRequests) :
        Unused(k) \in o.added \/ \E s \in Elements(w.steps) : s.op = "discard" /\ Unused(k) \in s.added}

Fresh(F, U, k) == U[k] = 0 /\ Unused(k) \notin F /\ Used(k) \notin F

\* A request that takes a code: somebody has taken it beside this one if it is
\* gone already, and it is gone once the request has written.
Takes(w, o, F, U, m) ==
    /\ w.note \in Keys(m) /\ w.note \notin Offers(w, o)
    /\ \A s \in Elements(w.steps) : s.op # "discard"
    /\ U[w.note] >= 1 => w.beside >= 1
    /\ \/ \E s \in Elements(w.steps) : s.op = "factor"
       \/ Unused(w.note) \in o.dropped
       \/ Unused(w.note) \notin F

CodesFor(w, o, F, U, m) ==
    w # Idle =>
        /\ \A f \in o.added : IsFactor(f, m)
        /\ \A s \in Elements(w.steps) : s.op = "discard" =>
              \A f \in s.added : IsFactor(f, m) /\ f.state # "used"
        /\ \A s \in Elements(w.steps) : s.op = "factor" =>
              /\ IsFactor(s.obj, m)
              /\ \/ w.said # "recovered" /\ s.obj.kind = "TOTP"
                 \/ w.said = "recovered" /\ s.row = Unused(w.note) /\ s.obj = Used(w.note)
        /\ \A k \in Keys(MaxRequests) : Used(k) \in o.added =>
              w.said = "recovered" /\ w.note = k
        /\ w.said = "recovered" => Takes(w, o, F, U, m)
        /\ \A k \in Offers(w, o) : Fresh(F, U, k)

\* The codes that are stored.
CodesStored(F, U, m, z) ==
    /\ m \in 0..MaxRequests
    /\ U = [k \in Keys(MaxRequests) |-> U[k]]
    /\ \A f \in F : IsFactor(f, m)
    /\ \A k \in Keys(MaxRequests) :
          /\ U[k] \in 0..(1 + z)
          /\ Unused(k) \in F => U[k] = 0 /\ Used(k) \notin F
          /\ k[2] > m => U[k] = 0

CodesInv ==
    /\ CodesStored(factors, uses, requests, races)
    /\ \A c \in Clients : CodesFor(work[c], own[c], factors, uses, requests)
    /\ \A c, d \in Clients : c # d /\ work[c] # Idle /\ work[d] # Idle =>
          /\ Offers(work[c], own[c]) \cap Offers(work[d], own[d]) = {}
          /\ work[d].said = "recovered" => work[d].note \notin Offers(work[c], own[c])

-----------------------------------------------------------------------------
(* What a user's row counts                                                 *)

\* The fields of a request, and of one that was overtaken.
LEMMA RequestFields ==
    ASSUME NEW w, IsRequest(w), NEW x, NEW S
    PROVE  /\ Reading(w, x).said = w.said /\ Reading(w, x).kind = w.kind
           /\ Reading(w, x).note = w.note /\ Reading(w, x).beside = w.beside
           /\ Reading(w, x).steps = w.steps /\ Reading(w, x).seen = x
           /\ Sent(w, S).said = w.said /\ Sent(w, S).kind = w.kind /\ Sent(w, S).note = w.note
           /\ Sent(w, S).beside = w.beside /\ Sent(w, S).steps = S /\ Sent(w, S).seen = <<>>
           /\ Overtaken(w).said = w.said /\ Overtaken(w).kind = w.kind
           /\ Overtaken(w).note = w.note /\ Overtaken(w).beside = w.beside + 1
           /\ Overtaken(w).steps = w.steps /\ Overtaken(w).seen = w.seen
           /\ w.beside \in Nat
  <1>1. w = [kind |-> w.kind, steps |-> w.steps, said |-> w.said, note |-> w.note,
             now |-> w.now, seen |-> w.seen, beside |-> w.beside]
        /\ w.beside \in Nat
    BY DEF IsRequest
  <1>2. /\ Reading(w, x).said = w.said /\ Reading(w, x).kind = w.kind
        /\ Reading(w, x).note = w.note /\ Reading(w, x).beside = w.beside
        /\ Reading(w, x).steps = w.steps /\ Reading(w, x).seen = x
    BY <1>1 DEF Reading
  <1>3. /\ Overtaken(w).said = w.said /\ Overtaken(w).kind = w.kind
        /\ Overtaken(w).note = w.note /\ Overtaken(w).beside = w.beside + 1
        /\ Overtaken(w).steps = w.steps /\ Overtaken(w).seen = w.seen
    BY <1>1 DEF Overtaken
  <1>4. [w EXCEPT !.steps = S] =
            [kind |-> w.kind, steps |-> S, said |-> w.said, note |-> w.note,
             now |-> w.now, seen |-> w.seen, beside |-> w.beside]
    BY <1>1
  <1>5. Sent(w, S) = [kind |-> w.kind, steps |-> S, said |-> w.said, note |-> w.note,
                      now |-> w.now, seen |-> <<>>, beside |-> w.beside]
    <2>1. Sent(w, S) = [[w EXCEPT !.steps = S] EXCEPT !.seen = <<>>]
      BY <1>1 DEF Sent
    <2> QED  BY <1>4, <2>1
  <1> QED  BY <1>1, <1>2, <1>3, <1>5

\* A request adds one failure at most.
LEMMA CountIs ==
    ASSUME NEW w, NEW n \in Nat
    PROVE  CountAfter(w, n) \in Nat /\ CountAfter(w, n) <= n + 1
           /\ (w.said # "failure" => CountAfter(w, n) <= n)
  BY DEF CountAfter

\* More overlaps than failures are added: a row still counts enough.
LEMMA EnoughKeeps ==
    ASSUME NEW u, IsUser(u), NEW n \in Nat, NEW y \in Nat, Enough(n, u, y),
           NEW m \in Nat, NEW x \in Nat, m <= n + 1, x >= y, m = n + 1 => x >= y + 1
    PROVE  Enough(m, u, x)
  <1>1. Threshold \in Nat /\ u.failed \in Nat
    BY PolicyAssumption DEF IsUser
  <1> QED  BY <1>1 DEF Enough

\* The sum of a row's columns that were changed and of a row that is there.
LEMMA MergeUser ==
    ASSUME NEW v, IsUser(v), NEW x, IsUser(x), NEW seen
    PROVE  /\ IsUser(Merge(v, x, seen))
           /\ Merge(v, x, seen).failed \in {x.failed, v.failed}
           /\ Merge(v, x, seen).lockedUntil \in {x.lockedUntil, v.lockedUntil}
           /\ seen = v => /\ Merge(v, x, seen).failed = x.failed
                          /\ Merge(v, x, seen).lockedUntil = x.lockedUntil
  <1> DEFINE r == Merge(v, x, seen)
  <1>1. DOMAIN x = {"password", "mfa", "failed", "lockedUntil"}
    BY DEF IsUser
  <1>2. DOMAIN r = DOMAIN x /\ \A k \in DOMAIN x : r[k] = IF x[k] # seen[k] THEN x[k] ELSE v[k]
    BY DEF Merge
  <1>3. /\ r["failed"] \in {x["failed"], v["failed"]}
        /\ r["lockedUntil"] \in {x["lockedUntil"], v["lockedUntil"]}
        /\ seen = v => r["failed"] = x["failed"] /\ r["lockedUntil"] = x["lockedUntil"]
    BY <1>1, <1>2
  <1> HIDE DEF r
  <1>4. /\ r.failed \in {x.failed, v.failed} /\ r.lockedUntil \in {x.lockedUntil, v.lockedUntil}
        /\ seen = v => r.failed = x.failed /\ r.lockedUntil = x.lockedUntil
    BY <1>3
  <1> QED  BY <1>1, <1>2, <1>4 DEF IsUser, r

\* What a write of the user's row leaves, the row that is there counting enough.
LEMMA MergeCounts ==
    ASSUME NEW w, IsRequest(w), NEW n \in Nat, NEW z \in Nat,
           NEW x, RowCounts(w, x, n, z),
           NEW v, IsUser(v), NEW seen, w.beside = 0 => seen = v,
           w.beside # 0 => Enough(CountAfter(w, n), v, z + w.beside)
    PROVE  RowCounts(w, Merge(v, x, seen), n, z)
  <1> DEFINE r == Merge(v, x, seen)
  <1>1. /\ IsUser(x) /\ IsUser(r) /\ r.failed \in {x.failed, v.failed}
        /\ r.lockedUntil \in {x.lockedUntil, v.lockedUntil}
        /\ seen = v => r.failed = x.failed /\ r.lockedUntil = x.lockedUntil
    BY MergeUser DEF RowCounts
  <1>2. Enough(CountAfter(w, n), x, z + w.beside)
    BY DEF RowCounts
  <1> HIDE DEF r
  <1>3. Enough(CountAfter(w, n), r, z + w.beside)
    BY <1>1, <1>2 DEF Enough
  <1> QED  BY <1>1, <1>3 DEF RowCounts, r

\* One commit more: n failures become m, at most one more, and z overlaps y.
LEMMA RowKeeps ==
    ASSUME NEW w, IsRequest(w), NEW n \in Nat, NEW z \in Nat, NEW u, RowCounts(w, u, n, z),
           NEW m \in Nat, NEW y \in Nat, m <= n + 1, y >= z, m = n + 1 \/ m = n \/ m = 0
    PROVE  RowCounts(Overtaken(w), u, m, y)
  <1> DEFINE w1 == Overtaken(w)
  <1>1. w1.said = w.said /\ w1.kind = w.kind /\ w1.beside = w.beside + 1 /\ w.beside \in Nat
    BY RequestFields
  <1> HIDE DEF w1
  <1>2. CountAfter(w1, m) \in Nat /\ CountAfter(w, n) \in Nat /\ CountAfter(w1, m) <= CountAfter(w, n) + 1
    BY <1>1 DEF CountAfter
  <1>3. IsUser(u) /\ Enough(CountAfter(w, n), u, z + w.beside)
    BY DEF RowCounts
  <1>4. /\ z + w.beside \in Nat /\ y + w1.beside \in Nat /\ y + w1.beside >= z + w.beside + 1
    BY <1>1
  <1>5. Enough(CountAfter(w1, m), u, y + w1.beside)
    BY <1>2, <1>3, <1>4, EnoughKeeps
  <1> QED  BY <1>3, <1>5 DEF RowCounts, w1

-----------------------------------------------------------------------------
(* Failures, step by step                                                   *)

\* A step of one request that commits nothing.
LEMMA CountsStep ==
    ASSUME FailuresInv, IInv, NEW c \in Clients, NEW w, NEW o,
           work' = [work EXCEPT ![c] = w], own' = [own EXCEPT ![c] = o],
           UNCHANGED <<user, failures, races>>, CountsFor(w, o, user, failures, races)
    PROVE  FailuresInv'
  <1>1. /\ work'[c] = w /\ own'[c] = o
        /\ \A d \in Clients : d # c => work'[d] = work[d] /\ own'[d] = own[d]
    BY DEF IInv
  <1>2. \A d \in Clients : CountsFor(work'[d], own'[d], user, failures, races)
    BY <1>1 DEF FailuresInv
  <1> QED  BY <1>2 DEF FailuresInv

\* A request that starts.
LEMMA BeginCounts ==
    ASSUME FailuresInv, IInv, NEW c \in Clients, NEW kind, NEW steps, NEW said, NEW note,
           Begin(c, kind, steps, said, note), kind # "idle",
           steps \in Seq(Elements(steps)), LastOK(steps),
           \A s \in Elements(steps) : s.op = "user" =>
               RowCounts(NewRequest(kind, steps, said, note), s.obj, failures, races),
           said = "failure" => ~Empty(steps) /\ \A s \in Elements(steps) : s.op = "user"
    PROVE  FailuresInv'
  <1> DEFINE w == NewRequest(kind, steps, said, note)
  <1>1. /\ own[c] = Nothing /\ IsRequest(w) /\ w.steps = steps /\ w.said = said
        /\ Empty(w.seen) /\ work' = [work EXCEPT ![c] = w] /\ own' = [own EXCEPT ![c] = Nothing]
        /\ UNCHANGED <<races>>
    BY BeginIs
  <1>2. UNCHANGED <<user, failures>>
    BY DEF Begin, account, history
  <1>3. \A s \in Elements(steps) : s.op = "user" => RowCounts(w, s.obj, failures, races)
    OBVIOUS
  <1> HIDE DEF w
  <1>4. Empty(Nothing.user)
    BY DEF Nothing, Empty
  <1>5. CountsFor(w, Nothing, user, failures, races)
    BY <1>1, <1>3, <1>4 DEF CountsFor
  <1> QED  BY <1>1, <1>2, <1>5, CountsStep

\* The powers of two, of which the provers know nothing.
Doubling == \A k \in Nat : 2^k \in Nat \ {0}

\* What the use cases write to the user's row.
LEMMA UserRows ==
    ASSUME Doubling, NEW u, IsUser(u), NEW n \in Nat, NEW z \in Nat, Enough(n, u, z),
           NEW now \in Nat \ {0}, NEW p, NEW b
    PROVE  /\ IsUser(RecordFailedLogin(u, now)) /\ Enough(n + 1, RecordFailedLogin(u, now), z)
           /\ IsUser(RecordSuccessfulLogin(u)) /\ Enough(0, RecordSuccessfulLogin(u), z)
           /\ IsUser(SetPassword(u, p)) /\ Enough(0, SetPassword(u, p), z)
           /\ IsUser([u EXCEPT !.mfa = b]) /\ Enough(n, [u EXCEPT !.mfa = b], z)
  <1>1. DOMAIN u = {"password", "mfa", "failed", "lockedUntil"} /\ u.failed \in Nat
    BY DEF IsUser
  <1>2. Threshold \in Nat \ {0} /\ LockBase \in Nat \ {0} /\ LockMax \in Nat \ {0}
    BY PolicyAssumption
  <1>3. IsUser(RecordFailedLogin(u, now)) /\ Enough(n + 1, RecordFailedLogin(u, now), z)
    <2> DEFINE r == RecordFailedLogin(u, now)
               count == u.failed + 1
    <2>1. /\ DOMAIN r = DOMAIN u /\ r.failed = count
          /\ r.lockedUntil = IF LockDuration(count) > 0 THEN now + LockDuration(count)
                             ELSE u.lockedUntil
      BY <1>1 DEF RecordFailedLogin
    <2>2. ASSUME count >= Threshold PROVE LockDuration(count) \in Nat /\ LockDuration(count) > 0
      <3>1. count - Threshold \in Nat
        BY <1>1, <1>2, <2>2
      <3>2. 2^(count - Threshold) \in Nat \ {0}
        BY <3>1 DEF Doubling
      <3>3. \A x, y \in Nat \ {0} : x * y \in Nat \ {0}
        OBVIOUS
      <3>4. LockBase * 2^(count - Threshold) \in Nat \ {0}
        BY <1>2, <3>2, <3>3
      <3>5. ~(count < Threshold)
        BY <1>1, <1>2, <2>2
      <3> QED  BY <1>2, <3>4, <3>5 DEF LockDuration, AtMost
    <2>3. count >= Threshold => r.lockedUntil # Never
      BY <2>1, <2>2 DEF Never
    <2>4. n <= u.failed + z
      BY DEF Enough
    <2> HIDE DEF r
    <2>5. IsUser(r)
      BY <1>1, <2>1 DEF IsUser
    <2>6. Enough(n + 1, r, z)
      BY <1>1, <1>2, <2>1, <2>3, <2>4 DEF Enough
    <2> QED  BY <2>5, <2>6 DEF r
  <1>4. \A v : IsUser(v) => Enough(0, v, z)
    BY <1>2 DEF Enough, IsUser
  <1>5. IsUser(RecordSuccessfulLogin(u))
    BY <1>1 DEF IsUser, RecordSuccessfulLogin
  <1>6. IsUser(SetPassword(u, p))
    BY <1>5 DEF IsUser, SetPassword
  <1>7. IsUser([u EXCEPT !.mfa = b]) /\ Enough(n, [u EXCEPT !.mfa = b], z)
    BY <1>1 DEF IsUser, Enough
  <1> QED  BY <1>3, <1>4, <1>5, <1>6, <1>7

\* The user's row as it is now.
LEMMA UserNow ==
    ASSUME FailuresInv, IInv
    PROVE  /\ IsUser(user) /\ Enough(failures, user, races)
           /\ failures \in Nat /\ races \in Nat /\ clock \in Nat \ {0}
  BY DEF FailuresInv, IInv, Numbers

\* A new request's rows, by what it will answer.
LEMMA NewCounts ==
    ASSUME NEW kind, NEW steps, NEW said, NEW note, NEW u, IsUser(u),
           NEW n \in Nat, NEW z \in Nat,
           Enough(IF said = "failure" THEN n + 1
                  ELSE IF said \in {"tokens", "recovered", "challenge"} \/ kind = "password" THEN 0
                  ELSE n, u, z)
    PROVE  RowCounts(NewRequest(kind, steps, said, note), u, n, z)
  <1> DEFINE w == NewRequest(kind, steps, said, note)
  <1>1. w.said = said /\ w.kind = kind /\ w.beside = 0
    BY DEF NewRequest
  <1> HIDE DEF w
  <1>2. CountAfter(w, n) = IF said = "failure" THEN n + 1
                  ELSE IF said \in {"tokens", "recovered", "challenge"} \/ kind = "password" THEN 0
                  ELSE n
    BY <1>1 DEF CountAfter
  <1>3. z + w.beside = z
    BY <1>1
  <1> QED  BY <1>2, <1>3 DEF RowCounts, w

\* The lists of statements requests start with.
LEMMA ListsOf ==
    /\ \A x : LastOK(<<x>>) /\ <<x>> \in Seq(Elements(<<x>>)) /\ Elements(<<x>>) = {x} /\ ~Empty(<<x>>)
    /\ \A x, y : x.op \notin {"insert", "revoke", "cap"} =>
          /\ LastOK(<<x, y>>) /\ <<x, y>> \in Seq(Elements(<<x, y>>))
          /\ Elements(<<x, y>>) = {x, y} /\ ~Empty(<<x, y>>)
    /\ \A x, y, v : x.op \notin {"insert", "revoke", "cap"} /\ y.op \notin {"insert", "revoke", "cap"} =>
          /\ LastOK(<<x, y, v>>) /\ <<x, y, v>> \in Seq(Elements(<<x, y, v>>))
          /\ Elements(<<x, y, v>>) = {x, y, v} /\ ~Empty(<<x, y, v>>)
  <1>1. ASSUME NEW x
        PROVE LastOK(<<x>>) /\ <<x>> \in Seq(Elements(<<x>>)) /\ Elements(<<x>>) = {x} /\ ~Empty(<<x>>)
    <2> DEFINE s == <<x>>
    <2>1. s \in Seq(Elements(s)) /\ Elements(s) = {x} /\ Len(s) = 1 /\ s[1] = x /\ ~Empty(s)
      BY Tuples DEF Empty
    <2> HIDE DEF s
    <2>2. DOMAIN s = 1..1
      BY <2>1, LenProperties
    <2>3. LastOK(s)
      BY <2>1, <2>2 DEF LastOK
    <2> QED  BY <2>1, <2>3 DEF s
  <1>2. ASSUME NEW x, NEW y, x.op \notin {"insert", "revoke", "cap"}
        PROVE  /\ LastOK(<<x, y>>) /\ <<x, y>> \in Seq(Elements(<<x, y>>))
               /\ Elements(<<x, y>>) = {x, y} /\ ~Empty(<<x, y>>)
    <2> DEFINE s == <<x, y>>
    <2>1. s \in Seq(Elements(s)) /\ Elements(s) = {x, y} /\ Len(s) = 2 /\ s[1] = x /\ s[2] = y
          /\ ~Empty(s)
      BY Tuples DEF Empty
    <2> HIDE DEF s
    <2>2. DOMAIN s = 1..2
      BY <2>1, LenProperties
    <2>3. LastOK(s)
      BY <1>2, <2>1, <2>2 DEF LastOK
    <2> QED  BY <2>1, <2>3 DEF s
  <1>3. ASSUME NEW x, NEW y, NEW v, x.op \notin {"insert", "revoke", "cap"},
               y.op \notin {"insert", "revoke", "cap"}
        PROVE  /\ LastOK(<<x, y, v>>) /\ <<x, y, v>> \in Seq(Elements(<<x, y, v>>))
               /\ Elements(<<x, y, v>>) = {x, y, v} /\ ~Empty(<<x, y, v>>)
    <2> DEFINE s == <<x, y, v>>
    <2>1. s \in Seq(Elements(s)) /\ Elements(s) = {x, y, v} /\ Len(s) = 3
          /\ s[1] = x /\ s[2] = y /\ s[3] = v /\ ~Empty(s)
      BY Tuples DEF Empty
    <2> HIDE DEF s
    <2>2. DOMAIN s = 1..3
      BY <2>1, LenProperties
    <2>3. LastOK(s)
      BY <1>3, <2>1, <2>2 DEF LastOK
    <2> QED  BY <2>1, <2>3 DEF s
  <1> QED  BY <1>1, <1>2, <1>3

\* The kinds of the statements.
LEMMA StepKinds ==
    /\ \A u : UserStep(u).op = "user" /\ UserStep(u).obj = u
    /\ \A f, x : FactorStep(f, x).op = "factor" /\ FactorStep(f, x).row = f
                 /\ FactorStep(f, x).obj = [f EXCEPT !.state = x]
    /\ \A x : DiscardStep(x).op = "discard" /\ DiscardStep(x).added = x
    /\ \A f : FamilyStep(f).op = "revoke" /\ \A id : EveryoneStep(id).op = "revoke"
    /\ \A i, s : SessionStep(i, s).op = "session" /\ InsertStep(i, s).op = "insert"
    /\ CapStep.op = "cap" /\ LeaveStep.op = "leave"
  BY DEF UserStep, FactorStep, DiscardStep, FamilyStep, EveryoneStep, SessionStep, InsertStep,
         CapStep, LeaveStep

\* How a request may start.
Opening(c, kind, steps, said, note) ==
    /\ kind # "idle" /\ Begin(c, kind, steps, said, note)
    /\ \/ said = "failure" /\ steps = <<UserStep(RecordFailedLogin(user, clock))>>
       \/ said = "challenge" /\ steps = <<UserStep(SignedIn(user))>>
       \/ said = "tokens" /\ steps = <<UserStep(SignedIn(user)), CapStep>>
       \/ \E f \in factors :
             /\ f.kind = "TOTP" /\ said = "tokens"
             /\ steps = <<FactorStep(f, "confirmed"), UserStep(RecordSuccessfulLogin(user)), CapStep>>
       \/ \E f \in factors :
             /\ f.kind = "RECOVERY" /\ f.state = "unused"
             /\ said = "recovered" /\ note = <<f.code, f.set>>
             /\ steps = <<FactorStep(f, "used"), UserStep(RecordSuccessfulLogin(user)), CapStep>>
       \/ \E f : said = "ended" /\ steps = <<FamilyStep(f)>>
       \/ \E id \in DOMAIN sessions :
             /\ Verdict(sessions[id], clock) = "rotate"
             /\ nextId <= MaxId /\ nextId' = nextId + 1
             /\ said = "rotated"
             /\ steps = <<SessionStep(id, Rotated(sessions[id], nextId, clock)),
                          InsertStep(nextId, Successor(sessions[id], clock))>>
       \/ said = "ended" /\ steps = <<EveryoneStep(0)>>
       \/ \E id, p : /\ kind = "password" /\ said = "ended"
                     /\ steps = <<UserStep(SetPassword(user, p)), EveryoneStep(id)>>
       \/ said = "done" /\ steps = <<DiscardStep(Enrolment(requests + 1, "pending"))>>
       \/ \E f \in factors :
             /\ f.kind = "TOTP" /\ said = "done"
             /\ steps = <<FactorStep(f, "confirmed"), UserStep([user EXCEPT !.mfa = TRUE])>>
       \/ said = "done" /\ steps = <<DiscardStep({}), UserStep([user EXCEPT !.mfa = FALSE])>>
       \/ said = "ended" /\ steps = <<LeaveStep, EveryoneStep(0)>>

\* The actions that start a request.
Begins(c) ==
    \/ SignIn(c) \/ CompleteMfa(c) \/ Refresh(c) \/ SignOut(c) \/ SignOutEverywhere(c)
    \/ ChangePassword(c) \/ EnrolMfa(c) \/ ConfirmMfa(c) \/ DisableMfa(c) \/ RemoveMember(c)

\* Every use case starts one of the requests that Opening lists.
LEMMA Openings ==
    ASSUME NEW c \in Clients, Begins(c)
    PROVE  \E kind, steps, said, note : Opening(c, kind, steps, said, note)
  <1>1. CASE SignIn(c)
    <2>1. \/ Begin(c, "signin", <<UserStep(RecordFailedLogin(user, clock))>>, "failure", 0)
          \/ Begin(c, "signin", <<UserStep(SignedIn(user))>>, "challenge", 0)
          \/ Begin(c, "signin", <<UserStep(SignedIn(user)), CapStep>>, "tokens", 0)
      BY <1>1 DEF SignIn
    <2> QED  BY <2>1, Zenon DEF Opening
  <1>2. CASE CompleteMfa(c)
    <2>1. \/ Begin(c, "mfa", <<UserStep(RecordFailedLogin(user, clock))>>, "failure", 0)
          \/ \E f \in factors :
               /\ f.kind = "TOTP"
               /\ Begin(c, "mfa",
                     <<FactorStep(f, "confirmed"), UserStep(RecordSuccessfulLogin(user)), CapStep>>,
                     "tokens", 0)
          \/ \E f \in factors :
               /\ f.kind = "RECOVERY" /\ f.state = "unused"
               /\ Begin(c, "mfa",
                     <<FactorStep(f, "used"), UserStep(RecordSuccessfulLogin(user)), CapStep>>,
                     "recovered", <<f.code, f.set>>)
      BY <1>2 DEF CompleteMfa
    <2> QED  BY <2>1, Zenon DEF Opening
  <1>3. CASE Refresh(c)
    <2>1. PICK id \in DOMAIN sessions :
            \/ Begin(c, "refresh", <<FamilyStep(sessions[id].family)>>, "ended", 0)
            \/ /\ Verdict(sessions[id], clock) = "rotate"
               /\ nextId <= MaxId /\ nextId' = nextId + 1
               /\ Begin(c, "refresh",
                       <<SessionStep(id, Rotated(sessions[id], nextId, clock)),
                         InsertStep(nextId, Successor(sessions[id], clock))>>, "rotated", 0)
      BY <1>3 DEF Refresh
    <2> QED  BY <2>1, Zenon DEF Opening
  <1>4. CASE SignOut(c) \/ SignOutEverywhere(c)
    <2>1. \/ \E id \in DOMAIN sessions :
                Begin(c, "signout", <<FamilyStep(sessions[id].family)>>, "ended", 0)
          \/ Begin(c, "signout all", <<EveryoneStep(0)>>, "ended", 0)
      BY <1>4 DEF SignOut, SignOutEverywhere
    <2> QED  BY <2>1, Zenon DEF Opening
  <1>5. CASE ChangePassword(c)
    <2>1. \E id \in DOMAIN sessions, p \in Passwords \ {user.password.of} :
            Begin(c, "password", <<UserStep(SetPassword(user, Hashed(p))), EveryoneStep(id)>>, "ended", id)
      BY <1>5 DEF ChangePassword
    <2> QED  BY <2>1, Zenon DEF Opening
  <1>6. CASE EnrolMfa(c)
    <2>1. Begin(c, "enrol", <<DiscardStep(Enrolment(requests + 1, "pending"))>>, "done", 0)
      BY <1>6 DEF EnrolMfa
    <2> QED  BY <2>1, Zenon DEF Opening
  <1>7. CASE ConfirmMfa(c)
    <2>1. \E f \in factors :
            /\ f.kind = "TOTP"
            /\ Begin(c, "confirm", <<FactorStep(f, "confirmed"),
                                     UserStep([user EXCEPT !.mfa = TRUE])>>, "done", 0)
      BY <1>7 DEF ConfirmMfa
    <2> QED  BY <2>1, Zenon DEF Opening
  <1>8. CASE DisableMfa(c) \/ RemoveMember(c)
    <2>1. \/ Begin(c, "disable", <<DiscardStep({}), UserStep([user EXCEPT !.mfa = FALSE])>>, "done", 0)
          \/ Begin(c, "remove", <<LeaveStep, EveryoneStep(0)>>, "ended", 0)
      BY <1>8 DEF DisableMfa, RemoveMember
    <2> QED  BY <2>1, Zenon DEF Opening
  <1> QED  BY <1>1, <1>2, <1>3, <1>4, <1>5, <1>6, <1>7, <1>8 DEF Begins

\* A list of statements that starts a request is a list, and its cap or bulk
\* statement comes last.
LEMMA OpeningIs ==
    ASSUME NEW c, NEW kind, NEW steps, NEW said, NEW note, Opening(c, kind, steps, said, note)
    PROVE  /\ kind # "idle" /\ Begin(c, kind, steps, said, note)
           /\ steps \in Seq(Elements(steps)) /\ LastOK(steps) /\ ~Empty(steps)
  <1>1. kind # "idle" /\ Begin(c, kind, steps, said, note)
    BY DEF Opening
  <1>2. CASE \E x : steps = <<x>>
    BY <1>1, <1>2, ListsOf
  <1>3. CASE \E x, y : steps = <<x, y>> /\ x.op \in {"user", "session", "factor", "discard", "leave"}
    <2>1. PICK x, y : steps = <<x, y>> /\ x.op \in {"user", "session", "factor", "discard", "leave"}
      BY <1>3
    <2>2. x.op \notin {"insert", "revoke", "cap"}
      BY <2>1
    <2>3. LastOK(<<x, y>>) /\ <<x, y>> \in Seq(Elements(<<x, y>>)) /\ ~Empty(<<x, y>>)
      BY <2>2, ListsOf
    <2> QED  BY <1>1, <2>1, <2>3
  <1>4. CASE \E x, y, v : steps = <<x, y, v>> /\ x.op = "factor" /\ y.op = "user"
    <2>1. PICK x, y, v : steps = <<x, y, v>> /\ x.op = "factor" /\ y.op = "user"
      BY <1>4
    <2>2. x.op \notin {"insert", "revoke", "cap"} /\ y.op \notin {"insert", "revoke", "cap"}
      BY <2>1
    <2>3. LastOK(<<x, y, v>>) /\ <<x, y, v>> \in Seq(Elements(<<x, y, v>>)) /\ ~Empty(<<x, y, v>>)
      BY <2>2, ListsOf
    <2> QED  BY <1>1, <2>1, <2>3
  <1>5. \/ \E x : steps = <<x>>
        \/ \E x, y : steps = <<x, y>> /\ x.op \in {"user", "session", "factor", "discard", "leave"}
        \/ \E x, y, v : steps = <<x, y, v>> /\ x.op = "factor" /\ y.op = "user"
    BY StepKinds DEF Opening
  <1> QED  BY <1>2, <1>3, <1>4, <1>5

\* The start of a request.
LEMMA BeginKeepsCounts ==
    ASSUME Doubling, FailuresInv, IInv, NEW c \in Clients, Begins(c)
    PROVE  FailuresInv'
  <1>1. PICK kind, steps, said, note : Opening(c, kind, steps, said, note)
    BY Openings
  <1>2. /\ kind # "idle" /\ Begin(c, kind, steps, said, note)
        /\ steps \in Seq(Elements(steps)) /\ LastOK(steps) /\ ~Empty(steps)
    BY <1>1, OpeningIs
  <1>3. /\ IsUser(user) /\ Enough(failures, user, races)
        /\ failures \in Nat /\ races \in Nat /\ clock \in Nat \ {0}
    BY UserNow
  <1> DEFINE after == IF said = "failure" THEN failures + 1
                      ELSE IF said \in {"tokens", "recovered", "challenge"} \/ kind = "password" THEN 0
                      ELSE failures
  <1>4. ASSUME NEW s \in Elements(steps), s.op = "user"
        PROVE  IsUser(s.obj) /\ Enough(after, s.obj, races)
    <2>0. /\ IsUser(RecordFailedLogin(user, clock))
          /\ Enough(failures + 1, RecordFailedLogin(user, clock), races)
          /\ IsUser(RecordSuccessfulLogin(user)) /\ Enough(0, RecordSuccessfulLogin(user), races)
          /\ \A p : IsUser(SetPassword(user, p)) /\ Enough(0, SetPassword(user, p), races)
          /\ IsUser(SignedIn(user)) /\ Enough(0, SignedIn(user), races)
          /\ \A b : /\ IsUser([user EXCEPT !.mfa = b])
                    /\ Enough(failures, [user EXCEPT !.mfa = b], races)
                    /\ Enough(0, [user EXCEPT !.mfa = b], races)
      <3>1. \A v : IsUser(v) => Enough(0, v, races)
        BY <1>3, PolicyAssumption DEF Enough, IsUser
      <3>2. IsUser(SignedIn(user)) /\ Enough(0, SignedIn(user), races)
        BY <1>3, UserRows DEF SignedIn
      <3> QED  BY <1>3, <3>1, <3>2, UserRows
    <2>1. \/ said = "failure" /\ s.obj = RecordFailedLogin(user, clock)
          \/ /\ said \in {"tokens", "recovered", "challenge"}
             /\ s.obj \in {RecordSuccessfulLogin(user), SignedIn(user)}
          \/ said = "ended" /\ kind = "password" /\ \E p : s.obj = SetPassword(user, p)
          \/ said = "done" /\ \E b : s.obj = [user EXCEPT !.mfa = b]
      <3>1. CASE said = "failure" /\ steps = <<UserStep(RecordFailedLogin(user, clock))>>
        BY <1>4, <3>1, ListsOf, StepKinds
      <3>2. CASE said = "challenge" /\ steps = <<UserStep(SignedIn(user))>>
        BY <1>4, <3>2, ListsOf, StepKinds
      <3>3. CASE said = "tokens" /\ steps = <<UserStep(SignedIn(user)), CapStep>>
        BY <1>4, <3>3, ListsOf, StepKinds
      <3>4. CASE \E x : \E f \in factors :
             /\ said \in {"tokens", "recovered"}
             /\ steps = <<FactorStep(f, x), UserStep(RecordSuccessfulLogin(user)), CapStep>>
        BY <1>4, <3>4, ListsOf, StepKinds
      <3>5. CASE \E f : steps = <<FamilyStep(f)>>
        BY <1>4, <3>5, ListsOf, StepKinds
      <3>6. CASE \E i, x, j, y : steps = <<SessionStep(i, x), InsertStep(j, y)>>
        <4>1. PICK i, x, j, y : steps = <<SessionStep(i, x), InsertStep(j, y)>>
          BY <3>6
        <4>2. SessionStep(i, x).op = "session" /\ InsertStep(j, y).op = "insert"
          BY StepKinds
        <4>3. Elements(steps) = {SessionStep(i, x), InsertStep(j, y)}
          BY <4>1, <4>2, ListsOf
        <4> QED  BY <1>4, <4>2, <4>3
      <3>7. CASE steps = <<EveryoneStep(0)>>
        BY <1>4, <3>7, ListsOf, StepKinds
      <3>8. CASE \E id, p : /\ kind = "password" /\ said = "ended"
                     /\ steps = <<UserStep(SetPassword(user, p)), EveryoneStep(id)>>
        BY <1>4, <3>8, ListsOf, StepKinds
      <3>9. CASE \E x : steps = <<DiscardStep(x)>>
        BY <1>4, <3>9, ListsOf, StepKinds
      <3>10. CASE \E f : /\ said = "done"
               /\ steps = <<FactorStep(f, "confirmed"), UserStep([user EXCEPT !.mfa = TRUE])>>
        <4> DEFINE u == [user EXCEPT !.mfa = TRUE]
        <4>1. PICK f : said = "done" /\ steps = <<FactorStep(f, "confirmed"), UserStep(u)>>
          BY <3>10
        <4>2. \E b : u = [user EXCEPT !.mfa = b]
          OBVIOUS
        <4> HIDE DEF u
        <4>3. s.obj = u
          BY <1>4, <4>1, ListsOf, StepKinds
        <4> QED  BY <4>1, <4>2, <4>3
      <3>11. CASE said = "done" /\ steps = <<DiscardStep({}), UserStep([user EXCEPT !.mfa = FALSE])>>
        <4> DEFINE u == [user EXCEPT !.mfa = FALSE]
        <4>1. said = "done" /\ steps = <<DiscardStep({}), UserStep(u)>>
          BY <3>11
        <4>2. \E b : u = [user EXCEPT !.mfa = b]
          OBVIOUS
        <4> HIDE DEF u
        <4>3. s.obj = u
          BY <1>4, <4>1, ListsOf, StepKinds
        <4> QED  BY <4>1, <4>2, <4>3
      <3>12. CASE steps = <<LeaveStep, EveryoneStep(0)>>
        BY <1>4, <3>12, ListsOf, StepKinds
      <3>13. \/ said = "failure" /\ steps = <<UserStep(RecordFailedLogin(user, clock))>>
             \/ said = "challenge" /\ steps = <<UserStep(SignedIn(user))>>
             \/ said = "tokens" /\ steps = <<UserStep(SignedIn(user)), CapStep>>
             \/ \E f \in factors :
                 /\ said = "tokens"
                 /\ steps = <<FactorStep(f, "confirmed"), UserStep(RecordSuccessfulLogin(user)), CapStep>>
             \/ \E f \in factors :
                 /\ said = "recovered"
                 /\ steps = <<FactorStep(f, "used"), UserStep(RecordSuccessfulLogin(user)), CapStep>>
             \/ \E f : steps = <<FamilyStep(f)>>
             \/ \E i, x, j, y : steps = <<SessionStep(i, x), InsertStep(j, y)>>
             \/ steps = <<EveryoneStep(0)>>
             \/ \E id, p : /\ kind = "password" /\ said = "ended"
                          /\ steps = <<UserStep(SetPassword(user, p)), EveryoneStep(id)>>
             \/ \E x : steps = <<DiscardStep(x)>>
             \/ \E f : /\ said = "done"
                      /\ steps = <<FactorStep(f, "confirmed"), UserStep([user EXCEPT !.mfa = TRUE])>>
             \/ said = "done" /\ steps = <<DiscardStep({}), UserStep([user EXCEPT !.mfa = FALSE])>>
             \/ steps = <<LeaveStep, EveryoneStep(0)>>
        BY <1>1, Zenon DEF Opening
      <3> QED  BY <3>1, <3>2, <3>3, <3>4, <3>5, <3>6, <3>7, <3>8, <3>9, <3>10, <3>11, <3>12, <3>13
    <2> QED  BY <2>0, <2>1
  <1>5. said = "failure" => \A s \in Elements(steps) : s.op = "user"
    <2>1. said = "failure" => steps = <<UserStep(RecordFailedLogin(user, clock))>>
      BY <1>1 DEF Opening
    <2> QED  BY <2>1, ListsOf, StepKinds
  <1>6. \A s \in Elements(steps) : s.op = "user" =>
            RowCounts(NewRequest(kind, steps, said, note), s.obj, failures, races)
    BY <1>3, <1>4, NewCounts
  <1> QED  BY <1>2, <1>5, <1>6, BeginCounts

\* What counts is what a request answers and how often it was overtaken.
LEMMA RowSame ==
    ASSUME NEW w, NEW w1, w1.said = w.said, w1.kind = w.kind, w1.beside = w.beside,
           NEW u, NEW n, NEW z, RowCounts(w, u, n, z)
    PROVE  RowCounts(w1, u, n, z)
  BY DEF RowCounts, CountAfter

\* A statement that does not write the user's row.
LEMMA SentCounts ==
    ASSUME NEW w, IsRequest(w), w # Idle, NEW o, NEW u, NEW n, NEW z, CountsFor(w, o, u, n, z),
           NEW S, NEW o1, o1.user = o.user, w.said # "failure",
           \A s \in Elements(S) : s.op = "user" => s \in Elements(w.steps)
    PROVE  CountsFor(Sent(w, S), o1, u, n, z)
  <1> DEFINE w1 == Sent(w, S)
  <1>1. /\ w1.said = w.said /\ w1.kind = w.kind /\ w1.beside = w.beside /\ w1.steps = S
        /\ w1.seen = <<>>
    BY RequestFields
  <1> HIDE DEF w1
  <1>2. \A x : RowCounts(w, x, n, z) => RowCounts(w1, x, n, z)
    BY <1>1, RowSame
  <1>3. /\ \A s \in Elements(w.steps) : s.op = "user" => RowCounts(w, s.obj, n, z)
        /\ ~Empty(o.user) => RowCounts(w, Head(o.user), n, z)
    BY DEF CountsFor
  <1>4. Empty(w1.seen)
    BY <1>1 DEF Empty
  <1>5. CountsFor(w1, o1, u, n, z)
    BY <1>1, <1>2, <1>3, <1>4 DEF CountsFor
  <1> QED  BY <1>5 DEF w1

\* The request that sends a statement.
LEMMA Sender ==
    ASSUME FailuresInv, IInv, NEW c \in Clients, ~Empty(work[c].steps)
    PROVE  /\ IsRequest(work[c]) /\ work[c] # Idle /\ CountsFor(work[c], own[c], user, failures, races)
           /\ work[c].steps \in Seq(Elements(work[c].steps))
           /\ Head(work[c].steps) \in Elements(work[c].steps)
           /\ Elements(work[c].steps) = {Head(work[c].steps)} \cup Elements(Tail(work[c].steps))
           /\ Head(work[c].steps).op # "user" => work[c].said # "failure"
  <1>1. IsRequest(work[c]) /\ work[c] # Idle /\ work[c].steps \in Seq(Elements(work[c].steps))
    BY Running, RequestOf
  <1>2. CountsFor(work[c], own[c], user, failures, races)
    BY DEF FailuresInv
  <1>3. /\ Head(work[c].steps) \in Elements(work[c].steps)
        /\ Elements(work[c].steps) = {Head(work[c].steps)} \cup Elements(Tail(work[c].steps))
    BY <1>1, Pops
  <1>4. Head(work[c].steps).op # "user" => work[c].said # "failure"
    BY <1>1, <1>2, <1>3 DEF CountsFor
  <1> QED  BY <1>1, <1>2, <1>3, <1>4

\* A statement that is sent, and leaves the user's row alone.
LEMMA PopKeepsCounts ==
    ASSUME FailuresInv, IInv, NEW c \in Clients, ~Empty(work[c].steps),
           Head(work[c].steps).op # "user", Advance(c, <<>>), UNCHANGED unwritten,
           NEW o, own' = [own EXCEPT ![c] = o], o.user = own[c].user
    PROVE  FailuresInv'
  <1> DEFINE w == Sent(work[c], Tail(work[c].steps))
  <1>1. work' = [work EXCEPT ![c] = w]
    BY AdvanceByOne
  <1>2. CountsFor(w, o, user, failures, races)
    BY Sender, SentCounts
  <1>3. UNCHANGED <<user, failures, races>>
    BY DEF unwritten, account, history
  <1> HIDE DEF w
  <1> QED  BY <1>1, <1>2, <1>3, CountsStep

\* A request's written credentials.
LEMMA FactorFields ==
    ASSUME NEW o, IsWrite(o), NEW x, NEW y
    PROVE  /\ WithFactors(o, x, y).user = o.user /\ WithFactors(o, x, y).left = o.left
           /\ WithFactors(o, x, y).dropped = x /\ WithFactors(o, x, y).added = y
  <1> DEFINE p == [o EXCEPT !.dropped = x]
  <1>1. o = [user |-> o.user, sessions |-> o.sessions, dropped |-> o.dropped, added |-> o.added,
             left |-> o.left]
    BY DEF IsWrite
  <1>2. p = [user |-> o.user, sessions |-> o.sessions, dropped |-> x, added |-> o.added,
             left |-> o.left]
    BY <1>1
  <1>3. WithFactors(o, x, y) = [p EXCEPT !.added = y]
    BY <1>1 DEF WithFactors
  <1> HIDE DEF p
  <1>4. WithFactors(o, x, y) = [user |-> o.user, sessions |-> o.sessions, dropped |-> x,
                                added |-> y, left |-> o.left]
    BY <1>2, <1>3
  <1> QED  BY <1>4

\* Statements on sessions count no failure.
LEMMA SessionWritesCount ==
    ASSUME FailuresInv, IInv, NEW c \in Clients,
           \/ WriteSession(c) \/ InsertSession(c) \/ Revoke(c)
           \/ WriteFactor(c) \/ Discard(c) \/ Leave(c)
    PROVE  FailuresInv'
  <1>1. IsWrite(own[c]) /\ own = [d \in Clients |-> own[d]]
    BY WriteOf, Running
  <1>2. /\ ~Empty(work[c].steps) /\ Head(work[c].steps).op # "user"
        /\ Advance(c, <<>>) /\ UNCHANGED unwritten
    BY OwesIs DEF WriteSession, InsertSession, Revoke, WriteFactor, Discard, Leave
  <1>3. \E o : own' = [own EXCEPT ![c] = o] /\ o.user = own[c].user
    <2>1. \A x : [own[c] EXCEPT !.sessions = x].user = own[c].user
      BY <1>1 DEF IsWrite
    <2>2. \A x : [own[c] EXCEPT !.left = x].user = own[c].user
      BY <1>1 DEF IsWrite
    <2>3. \A x, y : WithFactors(own[c], x, y).user = own[c].user
      BY <1>1, FactorFields
    <2>4. CASE WriteSession(c) \/ InsertSession(c) \/ Revoke(c)
      <3>1. \E x : own' = [own EXCEPT ![c] = [own[c] EXCEPT !.sessions = x]]
        BY <1>1, <2>4 DEF WriteSession, InsertSession, Revoke
      <3> QED  BY <2>1, <3>1
    <2>5. CASE Leave(c)
      <3>1. own' = [own EXCEPT ![c] = [own[c] EXCEPT !.left = TRUE]]
        BY <1>1, <2>5 DEF Leave
      <3> QED  BY <2>2, <3>1
    <2>6. CASE WriteFactor(c)
      <3>1. own' = [own EXCEPT ![c] = Consuming(own[c], Next1(c))]
        BY <1>1, <2>6 DEF WriteFactor, Consuming, WithFactors
      <3> QED  BY <2>3, <3>1 DEF Consuming
    <2>7. CASE Discard(c)
      <3>1. own' = [own EXCEPT ![c] = WithFactors(own[c], factors, Next1(c).added)]
        BY <1>1, <2>7 DEF Discard, WithFactors
      <3> QED  BY <2>3, <3>1
    <2> QED  BY <2>4, <2>5, <2>6, <2>7
  <1> QED  BY <1>2, <1>3, PopKeepsCounts

\* A read.
LEMMA ReadCounts ==
    ASSUME FailuresInv, IInv, NEW c \in Clients, Reread(c) \/ PickRows(c)
    PROVE  FailuresInv'
  <1>1. ~Empty(work[c].steps)
    BY OwesIs DEF Reread, PickRows
  <1>2. UNCHANGED <<user, failures, races>> /\ own' = [own EXCEPT ![c] = own[c]]
    BY Running DEF Reread, PickRows, unwritten, account, history
  <1>3. IsRequest(work[c]) /\ work[c] # Idle /\ CountsFor(work[c], own[c], user, failures, races)
    BY <1>1, Sender
  <1>4. \E x : /\ work' = [work EXCEPT ![c] = Reading(work[c], x)]
               /\ Head(work[c].steps).op = "user" => Head(x) = UserFor(own[c], user)
    <2>1. CASE Reread(c)
      <3> DEFINE x == IF Next1(c).op = "user" THEN <<UserSeen(c)>> ELSE <<SessionsSeen(c)[Next1(c).id]>>
      <3>1. work' = [work EXCEPT ![c] = Reading(work[c], x)]
        BY <2>1, Running DEF Reread, Reading
      <3>2. Head(work[c].steps).op = "user" => Head(x) = UserFor(own[c], user)
        BY DEF Next1, UserSeen, UserFor, Empty
      <3> QED  BY <3>1, <3>2
    <2>2. CASE PickRows(c)
      <3>1. \E x : work' = [work EXCEPT ![c] = Reading(work[c], x)]
        BY <2>2, Running DEF PickRows, Reading
      <3>2. Head(work[c].steps).op # "user"
        BY <2>2, OwesIs DEF PickRows
      <3> QED  BY <3>1, <3>2
    <2> QED  BY <2>1, <2>2
  <1>5. PICK x : /\ work' = [work EXCEPT ![c] = Reading(work[c], x)]
                 /\ Head(work[c].steps).op = "user" => Head(x) = UserFor(own[c], user)
    BY <1>4
  <1> DEFINE w == Reading(work[c], x)
  <1>6. /\ w.said = work[c].said /\ w.kind = work[c].kind /\ w.beside = work[c].beside
        /\ w.steps = work[c].steps /\ w.seen = x /\ work' = [work EXCEPT ![c] = w]
    BY <1>3, <1>5, RequestFields
  <1> HIDE DEF w
  <1>7. \A y : RowCounts(work[c], y, failures, races) => RowCounts(w, y, failures, races)
    BY <1>6, RowSame
  <1>8. CountsFor(w, own[c], user, failures, races)
    BY <1>3, <1>5, <1>6, <1>7 DEF CountsFor, Sends
  <1> QED  BY <1>2, <1>6, <1>8, CountsStep

\* A write of the user's row.
LEMMA WriteUserCounts ==
    ASSUME FailuresInv, IInv, NEW c \in Clients, WriteUser(c)
    PROVE  FailuresInv'
  <1> DEFINE w == work[c]
             v == UserFor(own[c], user)
             r == Merge(v, Head(w.steps).obj, Head(w.seen))
             o == [own[c] EXCEPT !.user = <<r>>]
             w1 == Sent(w, Tail(w.steps))
  <1>1. ~Empty(w.steps) /\ Head(w.steps).op = "user" /\ Next1(c) = Head(w.steps)
    BY OwesIs DEF WriteUser
  <1>2. /\ IsRequest(w) /\ w # Idle /\ CountsFor(w, own[c], user, failures, races)
        /\ Head(w.steps) \in Elements(w.steps)
        /\ Elements(w.steps) = {Head(w.steps)} \cup Elements(Tail(w.steps))
    BY <1>1, Sender
  <1>3. ~Empty(w.seen) /\ Advance(c, <<>>) /\ UNCHANGED unwritten
    BY DEF WriteUser, Empty
  <1>4. own' = [own EXCEPT ![c] = o] /\ o.user = <<r>>
    <2>1. IsWrite(own[c]) /\ own = [d \in Clients |-> own[d]]
      BY WriteOf, Running
    <2>2. UserSeen(c) = v
      BY DEF UserSeen, UserFor, Empty
    <2>3. own' = [own EXCEPT ![c] = o]
      BY <1>1, <2>1, <2>2 DEF WriteUser
    <2>4. o.user = <<r>>
      BY <2>1 DEF IsWrite
    <2> QED  BY <2>3, <2>4
  <1>5. work' = [work EXCEPT ![c] = w1]
    BY <1>1, <1>3, AdvanceByOne
  <1>6. /\ w1.said = w.said /\ w1.kind = w.kind /\ w1.beside = w.beside
        /\ w1.steps = Tail(w.steps) /\ w1.seen = <<>>
    BY <1>2, RequestFields
  <1>7. RowCounts(w, Head(w.steps).obj, failures, races)
    BY <1>1, <1>2 DEF CountsFor
  <1>8. Sends(w, "user")
    BY <1>1 DEF Sends
  <1>9. w.beside = 0 => Head(w.seen) = v
    BY <1>2, <1>3, <1>8 DEF CountsFor
  <1>10. IsUser(v) /\ (w.beside # 0 => Enough(CountAfter(w, failures), v, races + w.beside))
    <2>1. /\ IsUser(user) /\ Enough(failures, user, races) /\ failures \in Nat /\ races \in Nat
      BY UserNow
    <2>2. CASE Empty(own[c].user)
      <3>1. v = user
        BY <2>2 DEF UserFor
      <3>2. w.beside \in Nat /\ CountAfter(w, failures) \in Nat /\ CountAfter(w, failures) <= failures + 1
        BY <1>2, <2>1, CountIs DEF IsRequest
      <3>3. w.beside # 0 => /\ races + w.beside \in Nat /\ races + w.beside >= races
                            /\ races + w.beside >= races + 1
        BY <2>1, <3>2
      <3> QED  BY <2>1, <3>1, <3>2, <3>3, EnoughKeeps
    <2>3. CASE ~Empty(own[c].user)
      BY <1>2, <2>3 DEF UserFor, CountsFor, RowCounts
    <2> QED  BY <2>2, <2>3
  <1> HIDE DEF w, v, w1, o
  <1>11. RowCounts(w, r, failures, races)
    BY <1>2, <1>7, <1>9, <1>10, UserNow, MergeCounts
  <1> HIDE DEF r
  <1>12. Head(o.user) = r /\ ~Empty(o.user)
    BY <1>4 DEF Empty
  <1>13. \A y : RowCounts(w, y, failures, races) => RowCounts(w1, y, failures, races)
    BY <1>6, RowSame
  <1>14. Empty(w1.seen)
    BY <1>6 DEF Empty
  <1>15. CountsFor(w1, o, user, failures, races)
    BY <1>2, <1>6, <1>11, <1>12, <1>13, <1>14 DEF CountsFor
  <1>16. UNCHANGED <<user, failures, races>>
    BY <1>3 DEF unwritten, account, history
  <1> QED  BY <1>4, <1>5, <1>15, <1>16, CountsStep

\* What _enforce_session_cap leaves a request to send.
LEMMA CapIsSent ==
    ASSUME IInv, NEW c \in Clients, EnforceCap(c)
    PROVE  \E S : /\ work' = [work EXCEPT ![c] = Sent(work[c], S)]
                  /\ S = CapSteps(SessionsSeen(c), work[c].now, nextId)
                  /\ CapLeaves(S, SessionsSeen(c), work[c].now, nextId)
  <1> DEFINE C == CapSteps(SessionsSeen(c), work[c].now, nextId)
             S == C \o Tail(work[c].steps)
  <1>1. ~Empty(work[c].steps) /\ Head(work[c].steps).op = "cap"
    BY OwesIs DEF EnforceCap
  <1>2. Advance(c, C)
    BY CapIs
  <1>3. work' = [work EXCEPT ![c] = Sent(work[c], S)]
    BY <1>2, AdvanceIs, Running
  <1>4. CapLeaves(S, SessionsSeen(c), work[c].now, nextId)
    <2>1. /\ Fine(sessions, work[c], own[c], nextId, ended, races)
          /\ Stored(sessions, nextId, ended, races) /\ nextId \in Nat \ {0}
      BY Running
    <2> QED  BY <1>1, <2>1, CapSends DEF SessionsSeen
  <1>5. S = C
    <2>1. work[c].steps \in Seq(Elements(work[c].steps)) /\ LastOK(work[c].steps)
      BY <1>1, Running, RequestOf
    <2>2. Tail(work[c].steps) = <<>>
      BY <1>1, <2>1, LastLeavesNothing DEF Empty
    <2>3. C \in Seq(Elements(C))
      <3>1. \A i \in DOMAIN SessionsSeen(c) : i \in 1..(nextId - 1) /\ SessionsSeen(c)[i] \in Row
        <4> DEFINE V == SessionsSeen(c)
        <4>1. /\ IsTable(own[c].sessions, nextId) /\ IsTable(sessions, nextId)
          BY Running DEF Fine, Stored
        <4>2. /\ DOMAIN V = DOMAIN own[c].sessions \cup DOMAIN sessions
              /\ \A j \in DOMAIN V :
                    V[j] = IF j \in DOMAIN own[c].sessions THEN own[c].sessions[j] ELSE sessions[j]
          BY DEF SessionsSeen, Overlay
        <4> HIDE DEF V
        <4>3. \A i \in DOMAIN V : i \in 1..(nextId - 1) /\ V[i] \in Row
          BY <4>1, <4>2 DEF IsTable
        <4> QED  BY <4>3 DEF V
      <3> QED  BY <3>1, Running, CapStepsAre
    <2> HIDE DEF C
    <2> QED  BY <2>2, <2>3, ConcatEmptySeq
  <1> QED  BY <1>3, <1>4, <1>5

\* EnforceCap counts no failure.
LEMMA CapCounts ==
    ASSUME FailuresInv, IInv, NEW c \in Clients, EnforceCap(c)
    PROVE  FailuresInv'
  <1>1. PICK S : /\ work' = [work EXCEPT ![c] = Sent(work[c], S)]
                 /\ CapLeaves(S, SessionsSeen(c), work[c].now, nextId)
    BY CapIsSent
  <1>2. ~Empty(work[c].steps) /\ Head(work[c].steps).op # "user"
    BY OwesIs DEF EnforceCap
  <1>3. \A s \in Elements(S) : s.op # "user"
    BY <1>1 DEF CapLeaves, InsertStep, SessionStep
  <1>4. CountsFor(Sent(work[c], S), own[c], user, failures, races)
    BY <1>2, <1>3, Sender, SentCounts
  <1>5. own' = [own EXCEPT ![c] = own[c]] /\ UNCHANGED <<user, failures, races>>
    BY Running DEF EnforceCap, unwritten, account, history
  <1> QED  BY <1>1, <1>4, <1>5, CountsStep

\* No request counts nothing.
LEMMA FailCounts ==
    ASSUME FailuresInv, IInv, NEW c \in Clients, Fail(c)
    PROVE  FailuresInv'
  <1>1. work' = [work EXCEPT ![c] = Idle] /\ own' = [own EXCEPT ![c] = Nothing]
        /\ UNCHANGED <<user, failures, races>>
    BY DEF Fail, Release, account, history
  <1>2. CountsFor(Idle, Nothing, user, failures, races)
    BY DEF CountsFor
  <1> QED  BY <1>1, <1>2, CountsStep

\* The other requests after a commit of c.
LEMMA Overtaking ==
    ASSUME IInv, NEW c \in Clients, Commit(c)
    PROVE  /\ work[c] # Idle /\ Empty(work[c].steps) /\ IsRequest(work[c]) /\ races' = races + work[c].beside
           /\ work'[c] = Idle /\ own'[c] = Nothing
           /\ \A d \in Clients : d # c => own'[d] = own[d]
           /\ \A d \in Clients : d # c /\ work[d] = Idle => work'[d] = Idle
           /\ \A d \in Clients : d # c /\ work[d] # Idle =>
                 work'[d] = Overtaken(work[d]) /\ IsRequest(work[d])
  <1>1. /\ work' = [d \in Clients |-> IF d = c \/ work[d] = Idle THEN Idle ELSE Overtaken(work[d])]
        /\ own' = [own EXCEPT ![c] = Nothing]
    BY DEF Commit, Release, Overtaken
  <1>2. \A d \in Clients : work[d] # Idle => IsRequest(work[d])
    BY DEF IInv, Fine
  <1>3. work[c] # Idle /\ Empty(work[c].steps) /\ races' = races + work[c].beside
    BY DEF Commit, Empty
  <1> QED  BY <1>1, <1>2, <1>3, Running

\* Commit: an overlap hides one failure at most.
LEMMA CommitCounts ==
    ASSUME FailuresInv, IInv, NEW c \in Clients, Commit(c)
    PROVE  FailuresInv'
  <1> DEFINE w == work[c]
  <1>1. /\ w # Idle /\ Empty(w.steps) /\ IsRequest(w) /\ races' = races + w.beside
        /\ work'[c] = Idle
        /\ \A d \in Clients : d # c => own'[d] = own[d]
        /\ \A d \in Clients : d # c /\ work[d] = Idle => work'[d] = Idle
        /\ \A d \in Clients : d # c /\ work[d] # Idle =>
              work'[d] = Overtaken(work[d]) /\ IsRequest(work[d])
    BY Overtaking
  <1>2. CountsFor(w, own[c], user, failures, races)
    BY DEF FailuresInv
  <1>3. /\ IsUser(user) /\ Enough(failures, user, races) /\ failures \in Nat /\ races \in Nat
        /\ w.beside \in Nat /\ Threshold \in Nat \ {0}
    BY <1>1, UserNow, PolicyAssumption DEF IsRequest
  <1>4. user' = UserFor(own[c], user)
    BY DEF Commit, UserSeen, UserFor, Empty
  <1>5. failures' = CountAfter(w, failures)
    BY DEF Commit, CountAfter
  <1> HIDE DEF w
  <1>6. failures' \in Nat /\ failures' <= failures + 1
        /\ (w.said # "failure" => failures' <= failures)
        /\ (failures' = failures + 1 \/ failures' = failures \/ failures' = 0)
        /\ races' \in Nat /\ races' >= races
    BY <1>1, <1>3, <1>5 DEF CountAfter
  <1>7. IsUser(user') /\ Enough(failures', user', races')
    <2>1. CASE Empty(own[c].user)
      <3>1. user' = user
        BY <1>4, <2>1 DEF UserFor
      <3>2. w.said # "failure"
        BY <1>1, <1>2, <2>1 DEF CountsFor
      <3>3. failures' # failures + 1
        BY <1>3, <1>6, <3>2
      <3> QED  BY <1>3, <1>6, <3>1, <3>3, EnoughKeeps
    <2>2. CASE ~Empty(own[c].user)
      <3>1. user' = Head(own[c].user)
        BY <1>4, <2>2 DEF UserFor
      <3>2. RowCounts(w, user', failures, races)
        BY <1>1, <1>2, <2>2, <3>1 DEF CountsFor
      <3> QED  BY <1>1, <1>5, <3>2 DEF RowCounts
    <2> QED  BY <2>1, <2>2
  <1>8. ASSUME NEW d \in Clients
        PROVE  CountsFor(work'[d], own'[d], user', failures', races')
    <2>1. CASE d = c \/ work[d] = Idle
      <3>1. work'[d] = Idle
        BY <1>1, <2>1
      <3> QED  BY <3>1 DEF CountsFor
    <2>2. CASE d # c /\ work[d] # Idle
      <3> DEFINE v == work[d]
                 v1 == Overtaken(v)
      <3>1. work'[d] = v1 /\ own'[d] = own[d] /\ IsRequest(v)
        BY <1>1, <2>2
      <3>2. CountsFor(v, own[d], user, failures, races) /\ v # Idle
        BY <2>2 DEF FailuresInv
      <3> HIDE DEF v
      <3>3. /\ v1.said = v.said /\ v1.kind = v.kind /\ v1.beside = v.beside + 1
            /\ v1.steps = v.steps /\ v1.seen = v.seen /\ v.beside \in Nat
        BY <3>1, RequestFields
      <3>4. \A x : RowCounts(v, x, failures, races) => RowCounts(v1, x, failures', races')
        BY <1>3, <1>6, <3>1, RowKeeps
      <3> HIDE DEF v1
      <3>5. v1.beside # 0
        BY <3>3
      <3> QED  BY <3>1, <3>2, <3>3, <3>4, <3>5 DEF CountsFor
    <2> QED  BY <2>1, <2>2
  <1> QED  BY <1>6, <1>7, <1>8 DEF FailuresInv

\* Nothing has failed at first.
LEMMA FailuresStart == Init => FailuresInv
  <1> SUFFICES ASSUME Init PROVE FailuresInv
    OBVIOUS
  <1>1. /\ \A c \in Clients : work[c] = Idle
        /\ failures = 0 /\ races = 0
        /\ \E mfa \in MfaAtStart, current \in HashAtStart :
              user = [password |-> [of |-> FirstPassword, current |-> current], mfa |-> mfa,
                      failed |-> 0, lockedUntil |-> Never]
    BY DEF Init
  <1>2. IsUser(user) /\ user.failed = 0
    BY <1>1 DEF IsUser
  <1>3. Threshold \in Nat \ {0}
    BY PolicyAssumption
  <1>4. Enough(failures, user, races)
    BY <1>1, <1>2, <1>3 DEF Enough
  <1> QED  BY <1>1, <1>2, <1>4 DEF FailuresInv, CountsFor

\* Every step keeps the count within what the overlaps hide.
LEMMA FailuresSteps == ASSUME Doubling PROVE FailuresInv /\ IInv /\ [Next]_vars => FailuresInv'
  <1> SUFFICES ASSUME FailuresInv, IInv, [Next]_vars PROVE FailuresInv'
    OBVIOUS
  <1>1. ASSUME NEW c \in Clients, Begins(c) PROVE FailuresInv'
    BY <1>1, BeginKeepsCounts
  <1>2. ASSUME NEW c \in Clients, Reread(c) \/ PickRows(c) PROVE FailuresInv'
    BY <1>2, ReadCounts
  <1>3. ASSUME NEW c \in Clients, WriteUser(c) PROVE FailuresInv'
    BY <1>3, WriteUserCounts
  <1>4. ASSUME NEW c \in Clients,
               \/ WriteSession(c) \/ InsertSession(c) \/ Revoke(c)
               \/ WriteFactor(c) \/ Discard(c) \/ Leave(c)
        PROVE  FailuresInv'
    BY <1>4, SessionWritesCount
  <1>5. ASSUME NEW c \in Clients, EnforceCap(c) PROVE FailuresInv'
    BY <1>5, CapCounts
  <1>6. ASSUME NEW c \in Clients, Commit(c) PROVE FailuresInv'
    BY <1>6, CommitCounts
  <1>7. ASSUME NEW c \in Clients, Fail(c) PROVE FailuresInv'
    BY <1>7, FailCounts
  <1>8. CASE Tick \/ UNCHANGED vars
    <2>1. UNCHANGED <<work, own, user, failures, races>>
      BY <1>8 DEF Tick, vars, account, history
    <2> QED  BY <2>1 DEF FailuresInv
  <1> QED  BY <1>1, <1>2, <1>3, <1>4, <1>5, <1>6, <1>7, <1>8 DEF Next, Begins

\* Lockout: of the failures since the last success, however old, each overlap
\* of two requests hides at most one,
\* and the account is locked at most that late.
THEOREM FailuresAlwaysCount == ASSUME Doubling PROVE Spec => []FailuresAreCounted
  <1>1. FailuresInv => FailuresAreCounted
    BY DEF FailuresInv, Enough, FailuresAreCounted
  <1>2. FailuresInv /\ IInv /\ [Next]_vars => FailuresInv'
    BY FailuresSteps
  <1> QED  BY <1>1, <1>2, FailuresStart, AlwaysIInv, PTL DEF Spec

-----------------------------------------------------------------------------
(* Codes, step by step                                                      *)

\* A code of an enrolment has a row while it is unused and another once it is used.
LEMMA KeysAre ==
    ASSUME MaxRequests \in Nat
    PROVE  \A k, l \in Keys(MaxRequests) :
              /\ k[1] \in RecoveryCodes /\ k[2] \in 0..MaxRequests
              /\ Unused(k) # Used(l)
              /\ Unused(k) = Unused(l) => k = l
              /\ Used(k) = Used(l) => k = l
  BY DEF Keys, Unused, Used

\* Enrolments are counted on.
LEMMA MoreEnrolments ==
    ASSUME NEW m \in Nat, NEW x \in Nat, m <= x
    PROVE  /\ \A f : IsFactor(f, m) => IsFactor(f, x)
           /\ \A k : k \in Keys(m) => k \in Keys(x)
  <1>1. \A i \in 0..m : i \in 0..x
    OBVIOUS
  <1> QED  BY <1>1 DEF IsFactor, Keys

\* A stored row of a recovery code, by the code's key.
LEMMA KeyOf ==
    ASSUME NEW m \in Nat, NEW f, IsFactor(f, m), f.kind = "RECOVERY"
    PROVE  /\ <<f.code, f.set>> \in Keys(m)
           /\ f.state = "unused" => f = Unused(<<f.code, f.set>>)
  <1>1. <<f.code, f.set>> \in Keys(m)
    BY DEF IsFactor, Keys
  <1>2. f = [kind |-> f.kind, code |-> f.code, set |-> f.set, state |-> f.state]
    BY DEF IsFactor
  <1>3. Unused(<<f.code, f.set>>) =
            [kind |-> "RECOVERY", code |-> f.code, set |-> f.set, state |-> "unused"]
    BY DEF Unused
  <1> QED  BY <1>1, <1>2, <1>3

\* What an enrolment stores.
LEMMA EnrolmentIs ==
    ASSUME NEW m \in Nat, NEW x, x # "used"
    PROVE  /\ \A f \in Enrolment(m, x) : IsFactor(f, m) /\ f.state # "used"
           /\ \A k \in Keys(MaxRequests) : /\ Unused(k) \in Enrolment(m, x) => k[2] = m
                                           /\ Used(k) \notin Enrolment(m, x)
  <1> DEFINE a == [kind |-> "TOTP", code |-> "app", set |-> m, state |-> x]
             b(r) == [kind |-> "RECOVERY", code |-> r, set |-> m, state |-> "unused"]
  <1>1. \A f : f \in Enrolment(m, x) <=> f = a \/ \E r \in RecoveryCodes : f = b(r)
    BY DEF Enrolment
  <1>2. m \in 0..m
    OBVIOUS
  <1>3. IsFactor(a, m) /\ a.state # "used" /\ a.kind = "TOTP"
    BY <1>2 DEF IsFactor
  <1>4. \A r \in RecoveryCodes : IsFactor(b(r), m) /\ b(r).state # "used" /\ b(r).set = m
    BY <1>2 DEF IsFactor
  <1>5. \A k : /\ Unused(k).kind = "RECOVERY" /\ Unused(k).set = k[2]
               /\ Used(k).kind = "RECOVERY" /\ Used(k).state = "used"
    BY DEF Unused, Used
  <1> HIDE DEF a, b
  <1> QED  BY <1>1, <1>3, <1>4, <1>5

\* A step of one request that commits nothing, and offers only what it offered or
\* nobody knows.
LEMMA CodesStep ==
    ASSUME CodesInv, IInv, NEW c \in Clients, NEW w, NEW o,
           work' = [work EXCEPT ![c] = w], own' = [own EXCEPT ![c] = o],
           UNCHANGED <<factors, uses, races>>,
           requests' \in 0..MaxRequests, requests' >= requests,
           CodesFor(w, o, factors, uses, requests'),
           \A d \in Clients : d # c /\ work[d] # Idle /\ w # Idle =>
               /\ Offers(w, o) \cap Offers(work[d], own[d]) = {}
               /\ work[d].said = "recovered" => work[d].note \notin Offers(w, o)
               /\ w.said = "recovered" => w.note \notin Offers(work[d], own[d])
    PROVE  CodesInv'
  <1>1. /\ work'[c] = w /\ own'[c] = o
        /\ \A d \in Clients : d # c => work'[d] = work[d] /\ own'[d] = own[d]
    BY DEF IInv
  <1>2. requests \in Nat /\ requests' \in Nat
    BY BoundAssumption DEF CodesInv, CodesStored
  <1>3. \A f : IsFactor(f, requests) => IsFactor(f, requests')
    BY <1>2, MoreEnrolments
  <1>4. \A k : k \in Keys(requests) => k \in Keys(requests')
    BY <1>2, MoreEnrolments
  <1>5. CodesStored(factors, uses, requests', races)
    <2>1. CodesStored(factors, uses, requests, races)
      BY DEF CodesInv
    <2>2. \A k \in Keys(MaxRequests) : k[2] > requests' => k[2] > requests
      BY <1>2, BoundAssumption DEF Keys
    <2> QED  BY <1>3, <2>1, <2>2 DEF CodesStored
  <1>6. ASSUME NEW d \in Clients PROVE CodesFor(work'[d], own'[d], factors, uses, requests')
    <2>1. CASE d = c
      BY <1>1, <2>1
    <2>2. CASE d # c
      <3>1. CodesFor(work[d], own[d], factors, uses, requests)
        BY DEF CodesInv
      <3>2. CodesFor(work[d], own[d], factors, uses, requests')
        BY <1>3, <1>4, <3>1 DEF CodesFor, Takes
      <3> QED  BY <1>1, <2>2, <3>2
    <2> QED  BY <2>1, <2>2
  <1>7. ASSUME NEW d \in Clients, NEW e \in Clients, d # e, work'[d] # Idle, work'[e] # Idle
        PROVE  /\ Offers(work'[d], own'[d]) \cap Offers(work'[e], own'[e]) = {}
               /\ work'[e].said = "recovered" => work'[e].note \notin Offers(work'[d], own'[d])
    <2>1. CASE d = c
      BY <1>1, <1>7, <2>1
    <2>2. CASE e = c
      BY <1>1, <1>7, <2>2
    <2>3. CASE d # c /\ e # c
      BY <1>1, <1>7, <2>3 DEF CodesInv
    <2> QED  BY <2>1, <2>2, <2>3
  <1> QED  BY <1>5, <1>6, <1>7 DEF CodesInv

\* A step within a request.
LEMMA CodesWithin ==
    ASSUME CodesInv, IInv, NEW c \in Clients, NEW w, NEW o, work[c] # Idle,
           work' = [work EXCEPT ![c] = w], own' = [own EXCEPT ![c] = o],
           UNCHANGED <<factors, uses, races, requests>>,
           w.said = work[c].said, w.note = work[c].note,
           Offers(w, o) \subseteq Offers(work[c], own[c]),
           CodesFor(w, o, factors, uses, requests)
    PROVE  CodesInv'
  <1>1. requests \in 0..MaxRequests /\ requests >= requests
    BY BoundAssumption DEF CodesInv, CodesStored
  <1>2. ASSUME NEW d \in Clients, d # c, work[d] # Idle
        PROVE  /\ Offers(w, o) \cap Offers(work[d], own[d]) = {}
               /\ work[d].said = "recovered" => work[d].note \notin Offers(w, o)
               /\ w.said = "recovered" => w.note \notin Offers(work[d], own[d])
    BY <1>2 DEF CodesInv
  <1>3. /\ requests' \in 0..MaxRequests /\ requests' >= requests
        /\ CodesFor(w, o, factors, uses, requests')
    BY <1>1
  <1>4. UNCHANGED <<factors, uses, races>>
    OBVIOUS
  <1>5. \A d \in Clients : d # c /\ work[d] # Idle /\ w # Idle =>
            /\ Offers(w, o) \cap Offers(work[d], own[d]) = {}
            /\ work[d].said = "recovered" => work[d].note \notin Offers(w, o)
            /\ w.said = "recovered" => w.note \notin Offers(work[d], own[d])
    BY <1>2
  <1> QED  BY <1>3, <1>4, <1>5, CodesStep

\* A statement that leaves the credentials alone.
LEMMA PopKeepsCodes ==
    ASSUME CodesInv, IInv, NEW c \in Clients, work[c] # Idle, IsRequest(work[c]),
           NEW S, NEW o,
           work' = [work EXCEPT ![c] = Sent(work[c], S)],
           own' = [own EXCEPT ![c] = o],
           o.dropped = own[c].dropped, o.added = own[c].added,
           UNCHANGED unwritten,
           \A s \in Elements(S) : s.op \in {"factor", "discard"} => s \in Elements(work[c].steps),
           \A s \in Elements(work[c].steps) : s.op = "factor" => s \in Elements(S)
    PROVE  CodesInv'
  <1> DEFINE v == work[c]
             w == Sent(v, S)
  <1>1. /\ w.said = v.said /\ w.note = v.note /\ w.beside = v.beside /\ w.steps = S
        /\ work' = [work EXCEPT ![c] = w]
    BY RequestFields
  <1>2. CodesFor(v, own[c], factors, uses, requests)
    BY DEF CodesInv
  <1>3. v # Idle /\ \A s \in Elements(S) : s.op \in {"factor", "discard"} => s \in Elements(v.steps)
    OBVIOUS
  <1>30. \A s \in Elements(v.steps) : s.op = "factor" => s \in Elements(S)
    OBVIOUS
  <1> HIDE DEF w
  <1>4. Offers(w, o) \subseteq Offers(v, own[c])
    BY <1>1, <1>3 DEF Offers
  <1>5. CodesFor(w, o, factors, uses, requests)
    <2>1. v.said = "recovered" => Takes(v, own[c], factors, uses, requests)
      BY <1>2, <1>3 DEF CodesFor
    <2>2. w.said = "recovered" => Takes(w, o, factors, uses, requests)
      BY <1>1, <1>3, <1>30, <1>4, <2>1 DEF Takes
    <2>3. \A k \in Offers(w, o) : Fresh(factors, uses, k)
      BY <1>2, <1>3, <1>4 DEF CodesFor
    <2> QED  BY <1>1, <1>2, <1>3, <2>2, <2>3 DEF CodesFor
  <1>6. UNCHANGED <<factors, uses, races, requests>>
    BY DEF unwritten, account, history
  <1> QED  BY <1>1, <1>3, <1>4, <1>5, <1>6, CodesWithin

\* What a request offers is among the enrolments counted so far.
LEMMA OffersAreKnown ==
    ASSUME NEW w, NEW o, NEW F, NEW U, NEW m \in Nat, CodesFor(w, o, F, U, m), w # Idle,
           NEW k \in Offers(w, o)
    PROVE  k[2] <= m /\ Fresh(F, U, k)
  <1>1. \A l : Unused(l).set = l[2]
    BY DEF Unused
  <1>2. \/ Unused(k) \in o.added
        \/ \E s \in Elements(w.steps) : s.op = "discard" /\ Unused(k) \in s.added
    BY DEF Offers
  <1>3. IsFactor(Unused(k), m)
    BY <1>2 DEF CodesFor
  <1>4. k[2] \in 0..m
    BY <1>1, <1>3 DEF IsFactor
  <1> QED  BY <1>4 DEF CodesFor

\* The start of a request that stores no used code.
LEMMA BeginCodes ==
    ASSUME CodesInv, IInv, NEW c \in Clients, NEW kind, NEW steps, NEW said, NEW note,
           Begin(c, kind, steps, said, note), kind # "idle",
           steps \in Seq(Elements(steps)), LastOK(steps),
           \A s \in Elements(steps) : s.op = "discard" =>
              /\ \A f \in s.added : IsFactor(f, requests + 1) /\ f.state # "used"
              /\ \A k \in Keys(MaxRequests) : Unused(k) \in s.added => k[2] = requests + 1,
           \A s \in Elements(steps) : s.op = "factor" =>
              /\ IsFactor(s.obj, requests + 1)
              /\ \/ said # "recovered" /\ s.obj.kind = "TOTP"
                 \/ said = "recovered" /\ s.row = Unused(note) /\ s.obj = Used(note),
           said = "recovered" =>
              /\ note \in Keys(requests) /\ Unused(note) \in factors
              /\ \A s \in Elements(steps) : s.op # "discard"
              /\ \E s \in Elements(steps) : s.op = "factor"
    PROVE  CodesInv'
  <1> DEFINE w == NewRequest(kind, steps, said, note)
             m == requests + 1
  <1>1. /\ own[c] = Nothing /\ IsRequest(w) /\ w.steps = steps /\ w.said = said /\ w.note = note
        /\ Empty(w.seen) /\ work' = [work EXCEPT ![c] = w] /\ own' = [own EXCEPT ![c] = Nothing]
        /\ UNCHANGED <<races>>
    BY BeginIs
  <1>2. UNCHANGED <<factors, uses>> /\ requests' = m /\ requests < MaxRequests
    BY DEF Begin, account, history
  <1>3. /\ MaxRequests \in Nat /\ requests \in 0..MaxRequests /\ requests \in Nat /\ m \in Nat
        /\ m \in 0..MaxRequests /\ m >= requests /\ m > requests
    BY <1>2, BoundAssumption DEF CodesInv, CodesStored
  <1>4. Nothing.added = {} /\ Nothing.dropped = {}
    BY DEF Nothing
  <1>5. \A s \in Elements(steps) : s.op = "discard" =>
              /\ \A f \in s.added : IsFactor(f, m) /\ f.state # "used"
              /\ \A k \in Keys(MaxRequests) : Unused(k) \in s.added => k[2] = m
    OBVIOUS
  <1>6. \A s \in Elements(steps) : s.op = "factor" =>
              /\ IsFactor(s.obj, m)
              /\ \/ said # "recovered" /\ s.obj.kind = "TOTP"
                 \/ said = "recovered" /\ s.row = Unused(note) /\ s.obj = Used(note)
    OBVIOUS
  <1>7. CodesStored(factors, uses, requests, races)
    BY DEF CodesInv
  <1> HIDE DEF w, m
  <1>8. ASSUME NEW k \in Offers(w, Nothing) PROVE k \in Keys(MaxRequests) /\ k[2] = m
    BY <1>1, <1>4, <1>5 DEF Offers
  <1>9. ASSUME NEW k \in Offers(w, Nothing) PROVE Fresh(factors, uses, k)
    <2>1. k \in Keys(MaxRequests) /\ k[2] > requests
      BY <1>3, <1>8
    <2>2. \A f \in factors : f.set \in 0..requests
      BY <1>7 DEF CodesStored, IsFactor
    <2>3. Unused(k).set = k[2] /\ Used(k).set = k[2]
      BY DEF Unused, Used
    <2>4. k[2] \notin 0..requests
      BY <1>3, <2>1
    <2> QED  BY <1>7, <2>1, <2>2, <2>3, <2>4 DEF CodesStored, Fresh
  <1>10. CodesFor(w, Nothing, factors, uses, m)
    <2>1. ASSUME said = "recovered" PROVE Takes(w, Nothing, factors, uses, m)
      <3>1. /\ note \in Keys(requests) /\ Unused(note) \in factors
            /\ \A s \in Elements(steps) : s.op # "discard"
            /\ \E s \in Elements(steps) : s.op = "factor"
        BY <2>1
      <3>2. note \in Keys(m) /\ note \in Keys(MaxRequests)
        BY <1>3, <3>1, MoreEnrolments DEF Keys
      <3>3. note \notin Offers(w, Nothing)
        BY <1>9, <3>1 DEF Fresh
      <3>4. ~(uses[note] >= 1)
        BY <1>7, <3>1, <3>2 DEF CodesStored
      <3> QED  BY <1>1, <3>1, <3>2, <3>3, <3>4 DEF Takes
    <2> QED  BY <1>1, <1>4, <1>5, <1>6, <1>9, <2>1 DEF CodesFor
  <1>11. ASSUME NEW d \in Clients, d # c, work[d] # Idle
         PROVE  /\ Offers(w, Nothing) \cap Offers(work[d], own[d]) = {}
                /\ work[d].said = "recovered" => work[d].note \notin Offers(w, Nothing)
                /\ w.said = "recovered" => w.note \notin Offers(work[d], own[d])
    <2>1. CodesFor(work[d], own[d], factors, uses, requests)
      BY DEF CodesInv
    <2>2. \A k \in Offers(work[d], own[d]) : k[2] <= requests /\ Fresh(factors, uses, k)
      BY <1>3, <1>11, <2>1, OffersAreKnown
    <2>3. ASSUME NEW k \in Offers(w, Nothing) PROVE ~(k[2] <= requests)
      BY <1>3, <1>8
    <2>4. work[d].said = "recovered" => work[d].note[2] <= requests
      <3>1. work[d].said = "recovered" => work[d].note \in Keys(requests)
        BY <1>11, <2>1 DEF CodesFor, Takes
      <3> QED  BY <1>3, <3>1 DEF Keys
    <2>5. w.said = "recovered" => w.note \notin Offers(work[d], own[d])
      BY <1>1, <2>2 DEF Fresh
    <2> QED  BY <2>2, <2>3, <2>4, <2>5
  <1>12. CodesFor(w, Nothing, factors, uses, requests') /\ requests' \in 0..MaxRequests
         /\ requests' >= requests /\ UNCHANGED <<factors, uses, races>>
    BY <1>1, <1>2, <1>3, <1>10
  <1>13. \A d \in Clients : d # c /\ work[d] # Idle /\ w # Idle =>
            /\ Offers(w, Nothing) \cap Offers(work[d], own[d]) = {}
            /\ work[d].said = "recovered" => work[d].note \notin Offers(w, Nothing)
            /\ w.said = "recovered" => w.note \notin Offers(work[d], own[d])
    BY <1>11
  <1>14. work' = [work EXCEPT ![c] = w] /\ own' = [own EXCEPT ![c] = Nothing]
    BY <1>1
  <1> QED  BY <1>12, <1>13, <1>14, CodesStep

\* The start of a request.
LEMMA BeginKeepsCodes ==
    ASSUME CodesInv, IInv, NEW c \in Clients, Begins(c)
    PROVE  CodesInv'
  <1>1. PICK kind, steps, said, note : Opening(c, kind, steps, said, note)
    BY Openings
  <1>2. /\ kind # "idle" /\ Begin(c, kind, steps, said, note)
        /\ steps \in Seq(Elements(steps)) /\ LastOK(steps) /\ ~Empty(steps)
    BY <1>1, OpeningIs
  <1>3. /\ requests \in Nat /\ requests + 1 \in Nat /\ requests <= requests + 1
        /\ \A f \in factors : IsFactor(f, requests)
    BY BoundAssumption DEF CodesInv, CodesStored
  <1> DEFINE m == requests + 1
             Neither == \A s \in Elements(steps) : s.op \notin {"discard", "factor"}
  <1>4. \A f \in factors : \A x : IsFactor(f, m) /\ IsFactor([f EXCEPT !.state = x], m)
                              /\ [f EXCEPT !.state = x].kind = f.kind
    <2>1. \A f \in factors : IsFactor(f, m)
      BY <1>3, MoreEnrolments
    <2>2. \A f, x : IsFactor(f, m) => IsFactor([f EXCEPT !.state = x], m)
                                      /\ [f EXCEPT !.state = x].kind = f.kind
      BY DEF IsFactor
    <2> QED  BY <2>1, <2>2
  <1>5. CASE Neither /\ said # "recovered"
    BY <1>2, <1>5, BeginCodes
  <1>6. CASE steps = <<DiscardStep(Enrolment(m, "pending"))>> /\ said = "done"
    <2> DEFINE e == Enrolment(m, "pending")
    <2>1. /\ \A f \in e : IsFactor(f, m) /\ f.state # "used"
          /\ \A k \in Keys(MaxRequests) : Unused(k) \in e => k[2] = m
      BY <1>3, EnrolmentIs
    <2>2. steps = <<DiscardStep(e)>>
      BY <1>6
    <2> HIDE DEF e
    <2>3. Elements(steps) = {DiscardStep(e)} /\ DiscardStep(e).op = "discard" /\ DiscardStep(e).added = e
      BY <2>2, ListsOf, StepKinds
    <2>4. \A s \in Elements(steps) : s.op = "discard" =>
              /\ \A f \in s.added : IsFactor(f, requests + 1) /\ f.state # "used"
              /\ \A k \in Keys(MaxRequests) : Unused(k) \in s.added => k[2] = requests + 1
      BY <2>1, <2>3
    <2> QED  BY <1>2, <1>6, <2>3, <2>4, BeginCodes
  <1>7. CASE \E u : steps = <<DiscardStep({}), UserStep(u)>> /\ said = "done"
    <2>1. PICK u : steps = <<DiscardStep({}), UserStep(u)>>
      BY <1>7
    <2>2. \A s \in Elements(steps) : s.op = "discard" => s.added = {}
      BY <2>1, ListsOf, StepKinds
    <2>3. \A s \in Elements(steps) : s.op # "factor"
      BY <2>1, ListsOf, StepKinds
    <2> QED  BY <1>2, <1>7, <2>2, <2>3, BeginCodes
  <1>8. CASE \E f \in factors : \E u : f.kind = "TOTP" /\ said \in {"done", "tokens"}
               /\ steps \in {<<FactorStep(f, "confirmed"), UserStep(u)>>,
                            <<FactorStep(f, "confirmed"), UserStep(u), CapStep>>}
    <2>1. PICK f, u : /\ f \in factors /\ f.kind = "TOTP"
                      /\ steps \in {<<FactorStep(f, "confirmed"), UserStep(u)>>,
                                   <<FactorStep(f, "confirmed"), UserStep(u), CapStep>>}
      BY <1>8
    <2>2. \A s \in Elements(steps) : s.op # "discard"
      BY <2>1, ListsOf, StepKinds
    <2>3. \A s \in Elements(steps) : s.op = "factor" => s.obj = [f EXCEPT !.state = "confirmed"]
      BY <2>1, ListsOf, StepKinds
    <2>4. LET g == [f EXCEPT !.state = "confirmed"] IN IsFactor(g, m) /\ g.kind = "TOTP"
      BY <1>4, <2>1
    <2>5. \A s \in Elements(steps) : s.op = "factor" => IsFactor(s.obj, m) /\ s.obj.kind = "TOTP"
      BY <2>3, <2>4
    <2> QED  BY <1>2, <1>8, <2>2, <2>5, BeginCodes
  <1>9. CASE \E f \in factors : \E u :
               /\ f.kind = "RECOVERY" /\ f.state = "unused"
               /\ said = "recovered" /\ note = <<f.code, f.set>>
               /\ steps = <<FactorStep(f, "used"), UserStep(u), CapStep>>
    <2>1. PICK f, u :
               /\ f \in factors /\ f.kind = "RECOVERY" /\ f.state = "unused"
               /\ said = "recovered" /\ note = <<f.code, f.set>>
               /\ steps = <<FactorStep(f, "used"), UserStep(u), CapStep>>
      BY <1>9
    <2>2. note \in Keys(requests) /\ f = Unused(note)
      BY <1>3, <2>1, KeyOf
    <2>3. [f EXCEPT !.state = "used"] = Used(note)
      BY <2>2 DEF Unused, Used
    <2>4. FactorStep(f, "used").op = "factor" /\ UserStep(u).op = "user" /\ CapStep.op = "cap"
          /\ FactorStep(f, "used").row = f /\ FactorStep(f, "used").obj = [f EXCEPT !.state = "used"]
      BY StepKinds
    <2>5. Elements(steps) = {FactorStep(f, "used"), UserStep(u), CapStep}
      BY <2>1, <2>4, ListsOf
    <2>6. \A s \in Elements(steps) : s.op # "discard"
      BY <2>4, <2>5
    <2>7. \A s \in Elements(steps) : s.op = "factor" =>
              IsFactor(s.obj, m) /\ s.row = Unused(note) /\ s.obj = Used(note)
      <3>1. IsFactor([f EXCEPT !.state = "used"], m)
        BY <1>4, <2>1
      <3>2. \A s \in Elements(steps) : s.op = "factor" => s = FactorStep(f, "used")
        BY <2>4, <2>5
      <3> QED  BY <2>2, <2>3, <2>4, <3>1, <3>2
    <2>8. \E s \in Elements(steps) : s.op = "factor"
      BY <2>4, <2>5
    <2> QED  BY <1>2, <2>1, <2>2, <2>6, <2>7, <2>8, BeginCodes
  <1>10. \/ Neither /\ said # "recovered"
         \/ steps = <<DiscardStep(Enrolment(m, "pending"))>> /\ said = "done"
         \/ \E u : steps = <<DiscardStep({}), UserStep(u)>> /\ said = "done"
         \/ \E f \in factors : \E u : f.kind = "TOTP" /\ said \in {"done", "tokens"}
               /\ steps \in {<<FactorStep(f, "confirmed"), UserStep(u)>>,
                            <<FactorStep(f, "confirmed"), UserStep(u), CapStep>>}
         \/ \E f \in factors : \E u :
               /\ f.kind = "RECOVERY" /\ f.state = "unused"
               /\ said = "recovered" /\ note = <<f.code, f.set>>
               /\ steps = <<FactorStep(f, "used"), UserStep(u), CapStep>>
    <2>1. CASE said # "recovered" /\ \E x : steps = <<x>> /\ x.op \in {"user", "revoke"}
      BY <2>1, ListsOf
    <2>2. CASE said # "recovered" /\ \E x, y : /\ steps = <<x, y>> /\ x.op \in {"user", "session", "leave"}
                                             /\ y.op \in {"cap", "revoke", "insert"}
      <3>1. PICK x, y : /\ steps = <<x, y>> /\ x.op \in {"user", "session", "leave"}
                        /\ y.op \in {"cap", "revoke", "insert"}
        BY <2>2
      <3>2. Elements(steps) = {x, y}
        <4>1. x.op \notin {"insert", "revoke", "cap"}
          BY <3>1
        <4> QED  BY <3>1, <4>1, ListsOf
      <3> QED  BY <2>2, <3>1, <3>2
    <2>3. \/ said # "recovered" /\ \E x : steps = <<x>> /\ x.op \in {"user", "revoke"}
          \/ said # "recovered" /\ \E x, y : /\ steps = <<x, y>> /\ x.op \in {"user", "session", "leave"}
                                           /\ y.op \in {"cap", "revoke", "insert"}
          \/ steps = <<DiscardStep(Enrolment(m, "pending"))>> /\ said = "done"
          \/ \E u : steps = <<DiscardStep({}), UserStep(u)>> /\ said = "done"
          \/ \E f \in factors : \E u : f.kind = "TOTP" /\ said \in {"done", "tokens"}
                /\ steps \in {<<FactorStep(f, "confirmed"), UserStep(u)>>,
                             <<FactorStep(f, "confirmed"), UserStep(u), CapStep>>}
          \/ \E f \in factors : \E u :
                /\ f.kind = "RECOVERY" /\ f.state = "unused"
                /\ said = "recovered" /\ note = <<f.code, f.set>>
                /\ steps = <<FactorStep(f, "used"), UserStep(u), CapStep>>
      BY <1>1, StepKinds DEF Opening
    <2> QED  BY <2>1, <2>2, <2>3
  <1> QED  BY <1>5, <1>6, <1>7, <1>8, <1>9, <1>10

\* Reads leave the credentials alone.
LEMMA ReadCodes ==
    ASSUME CodesInv, IInv, NEW c \in Clients, Reread(c) \/ PickRows(c)
    PROVE  CodesInv'
  <1>1. ~Empty(work[c].steps)
    BY OwesIs DEF Reread, PickRows
  <1>2. UNCHANGED <<factors, uses, races, requests>> /\ own' = [own EXCEPT ![c] = own[c]]
    BY Running DEF Reread, PickRows, unwritten, account, history
  <1>3. IsRequest(work[c]) /\ work[c] # Idle
    BY <1>1, Running, RequestOf
  <1>4. \E x : work' = [work EXCEPT ![c] = Reading(work[c], x)]
    <2>1. CASE Reread(c)
      BY <2>1, Running DEF Reread, Reading
    <2>2. CASE PickRows(c)
      BY <2>2, Running DEF PickRows, Reading
    <2> QED  BY <2>1, <2>2
  <1>5. PICK x : work' = [work EXCEPT ![c] = Reading(work[c], x)]
    BY <1>4
  <1> DEFINE w == Reading(work[c], x)
  <1>6. /\ w.said = work[c].said /\ w.note = work[c].note /\ w.beside = work[c].beside
        /\ w.steps = work[c].steps /\ work' = [work EXCEPT ![c] = w]
    BY <1>3, <1>5, RequestFields
  <1>7. CodesFor(work[c], own[c], factors, uses, requests)
    BY DEF CodesInv
  <1> HIDE DEF w
  <1>8. Offers(w, own[c]) = Offers(work[c], own[c])
    BY <1>6 DEF Offers
  <1>9. CodesFor(w, own[c], factors, uses, requests)
    BY <1>3, <1>6, <1>7, <1>8 DEF CodesFor, Takes
  <1> QED  BY <1>2, <1>3, <1>6, <1>8, <1>9, CodesWithin

\* A statement that is no write of the credentials is sent.
LEMMA OtherWritesKeepCodes ==
    ASSUME CodesInv, IInv, NEW c \in Clients,
           WriteUser(c) \/ WriteSession(c) \/ InsertSession(c) \/ Revoke(c) \/ Leave(c)
    PROVE  CodesInv'
  <1>1. IsWrite(own[c]) /\ own = [d \in Clients |-> own[d]]
    BY WriteOf, Running
  <1>2. /\ ~Empty(work[c].steps) /\ Head(work[c].steps).op \notin {"factor", "discard"}
        /\ Advance(c, <<>>) /\ UNCHANGED unwritten
    BY OwesIs DEF WriteUser, WriteSession, InsertSession, Revoke, Leave
  <1>3. \E o : /\ own' = [own EXCEPT ![c] = o]
               /\ o.dropped = own[c].dropped /\ o.added = own[c].added
    <2>1. \A x : [own[c] EXCEPT !.sessions = x].dropped = own[c].dropped
                 /\ [own[c] EXCEPT !.sessions = x].added = own[c].added
      BY <1>1 DEF IsWrite
    <2>2. \A x : [own[c] EXCEPT !.left = x].dropped = own[c].dropped
                 /\ [own[c] EXCEPT !.left = x].added = own[c].added
      BY <1>1 DEF IsWrite
    <2>3. \A x : [own[c] EXCEPT !.user = x].dropped = own[c].dropped
                 /\ [own[c] EXCEPT !.user = x].added = own[c].added
      BY <1>1 DEF IsWrite
    <2>4. CASE WriteSession(c) \/ InsertSession(c) \/ Revoke(c)
      <3>1. PICK x : own' = [own EXCEPT ![c] = [own[c] EXCEPT !.sessions = x]]
        BY <1>1, <2>4 DEF WriteSession, InsertSession, Revoke
      <3> DEFINE o == [own[c] EXCEPT !.sessions = x]
      <3>2. own' = [own EXCEPT ![c] = o] /\ o.dropped = own[c].dropped /\ o.added = own[c].added
        BY <2>1, <3>1
      <3> HIDE DEF o
      <3> QED  BY <3>2
    <2>5. CASE Leave(c)
      <3>1. own' = [own EXCEPT ![c] = [own[c] EXCEPT !.left = TRUE]]
        BY <1>1, <2>5 DEF Leave
      <3> QED  BY <2>2, <3>1
    <2>6. CASE WriteUser(c)
      <3>1. PICK x : own' = [own EXCEPT ![c] = [own[c] EXCEPT !.user = x]]
        BY <1>1, <2>6 DEF WriteUser
      <3> DEFINE o == [own[c] EXCEPT !.user = x]
      <3>2. own' = [own EXCEPT ![c] = o] /\ o.dropped = own[c].dropped /\ o.added = own[c].added
        BY <2>3, <3>1
      <3> HIDE DEF o
      <3> QED  BY <3>2
    <2> QED  BY <2>4, <2>5, <2>6
  <1>4. PICK o : /\ own' = [own EXCEPT ![c] = o]
                 /\ o.dropped = own[c].dropped /\ o.added = own[c].added
    BY <1>3
  <1>5. /\ IsRequest(work[c]) /\ work[c] # Idle
        /\ Elements(work[c].steps) = {Head(work[c].steps)} \cup Elements(Tail(work[c].steps))
    BY <1>2, Running, RequestOf, Pops
  <1>6. work' = [work EXCEPT ![c] = Sent(work[c], Tail(work[c].steps))]
    BY <1>2, AdvanceByOne
  <1>7. \A s \in Elements(Tail(work[c].steps)) :
             s.op \in {"factor", "discard"} => s \in Elements(work[c].steps)
    BY <1>5
  <1>8. \A s \in Elements(work[c].steps) : s.op = "factor" => s \in Elements(Tail(work[c].steps))
    BY <1>2, <1>5
  <1> QED  BY <1>2, <1>4, <1>5, <1>6, <1>7, <1>8, PopKeepsCodes

\* _enforce_session_cap touches no credential.
LEMMA CapKeepsCodes ==
    ASSUME CodesInv, IInv, NEW c \in Clients, EnforceCap(c)
    PROVE  CodesInv'
  <1>1. PICK S : /\ work' = [work EXCEPT ![c] = Sent(work[c], S)]
                 /\ CapLeaves(S, SessionsSeen(c), work[c].now, nextId)
    BY CapIsSent
  <1>2. ~Empty(work[c].steps) /\ Head(work[c].steps).op = "cap"
    BY OwesIs DEF EnforceCap
  <1>3. \A s \in Elements(S) : s.op \notin {"factor", "discard"}
    BY <1>1 DEF CapLeaves, InsertStep, SessionStep
  <1>4. /\ IsRequest(work[c]) /\ work[c] # Idle
        /\ work[c].steps \in Seq(Elements(work[c].steps)) /\ LastOK(work[c].steps)
        /\ Elements(work[c].steps) = {Head(work[c].steps)} \cup Elements(Tail(work[c].steps))
    BY <1>2, Running, RequestOf, Pops
  <1>5. Empty(Tail(work[c].steps))
    BY <1>2, <1>4, LastLeavesNothing
  <1>6. Elements(Tail(work[c].steps)) = {}
    BY <1>5, Tuples DEF Empty
  <1>7. \A s \in Elements(work[c].steps) : s.op # "factor"
    BY <1>2, <1>4, <1>6
  <1>8. own' = [own EXCEPT ![c] = own[c]] /\ UNCHANGED unwritten
    BY Running DEF EnforceCap
  <1>9. /\ \A s \in Elements(S) : s.op \in {"factor", "discard"} => s \in Elements(work[c].steps)
        /\ \A s \in Elements(work[c].steps) : s.op = "factor" => s \in Elements(S)
    BY <1>3, <1>7
  <1> QED  BY <1>1, <1>4, <1>8, <1>9, PopKeepsCodes

\* Fail: what it wrote is rolled back.
LEMMA FailKeepsCodes ==
    ASSUME CodesInv, IInv, NEW c \in Clients, Fail(c)
    PROVE  CodesInv'
  <1>1. /\ work' = [work EXCEPT ![c] = Idle] /\ own' = [own EXCEPT ![c] = Nothing]
        /\ UNCHANGED <<factors, uses, races, requests>>
    BY DEF Fail, Release, account, history
  <1>2. CodesFor(Idle, Nothing, factors, uses, requests)
    BY DEF CodesFor
  <1>3. requests' \in 0..MaxRequests /\ requests' >= requests
        /\ CodesFor(Idle, Nothing, factors, uses, requests') /\ UNCHANGED <<factors, uses, races>>
    BY <1>1, <1>2, BoundAssumption DEF CodesInv, CodesStored
  <1>4. \A d \in Clients : d # c /\ work[d] # Idle /\ Idle # Idle =>
            /\ Offers(Idle, Nothing) \cap Offers(work[d], own[d]) = {}
            /\ work[d].said = "recovered" => work[d].note \notin Offers(Idle, Nothing)
            /\ Idle.said = "recovered" => Idle.note \notin Offers(work[d], own[d])
    OBVIOUS
  <1> QED  BY <1>1, <1>3, <1>4, CodesStep

\* A request consumes a code, or confirms a credential.
LEMMA WriteFactorCodes ==
    ASSUME CodesInv, IInv, NEW c \in Clients, WriteFactor(c)
    PROVE  CodesInv'
  <1> DEFINE w == work[c]
             p == own[c]
             h == Head(w.steps)
             S == Tail(w.steps)
             o == Consuming(p, h)
             w1 == Sent(w, S)
  <1>1. ~Empty(w.steps) /\ h.op = "factor" /\ Next1(c) = h
    BY OwesIs DEF WriteFactor
  <1>2. /\ IsRequest(w) /\ w # Idle /\ h \in Elements(w.steps)
        /\ Elements(w.steps) = {h} \cup Elements(S)
    BY <1>1, Running, RequestOf, Pops
  <1>3. work' = [work EXCEPT ![c] = w1]
    BY <1>1, AdvanceByOne DEF WriteFactor
  <1>4. own' = [own EXCEPT ![c] = o]
    <2>1. own = [d \in Clients |-> own[d]]
      BY Running
    <2> QED  BY <1>1, <2>1 DEF WriteFactor, Consuming, WithFactors
  <1>5. /\ w1.said = w.said /\ w1.note = w.note /\ w1.beside = w.beside /\ w1.steps = S
    BY <1>2, RequestFields
  <1>6. /\ p.dropped \subseteq o.dropped /\ p.added \subseteq o.added /\ o.added \subseteq p.added \cup {h.obj}
        /\ h.row \in factors => h.row \in o.dropped
    BY WriteOf, FactorFields DEF Consuming
  <1>7. UNCHANGED <<factors, uses, races, requests>>
    BY DEF WriteFactor, unwritten, account, history
  <1>8. CodesFor(w, p, factors, uses, requests) /\ CodesStored(factors, uses, requests, races)
    BY DEF CodesInv
  <1> HIDE DEF w, p, h, S, o, w1
  <1>9. /\ requests \in Nat /\ MaxRequests \in Nat /\ \A k \in Keys(requests) : k \in Keys(MaxRequests)
    BY <1>8, BoundAssumption, MoreEnrolments DEF CodesStored
  <1>10. /\ IsFactor(h.obj, requests)
         /\ \/ w.said # "recovered" /\ h.obj.kind = "TOTP"
            \/ w.said = "recovered" /\ h.row = Unused(w.note) /\ h.obj = Used(w.note)
    BY <1>1, <1>2, <1>8 DEF CodesFor
  <1>11. w.said = "recovered" =>
            Takes(w, p, factors, uses, requests) /\ w.note \in Keys(requests) /\ w.note \in Keys(MaxRequests)
    BY <1>2, <1>8, <1>9 DEF CodesFor, Takes
  <1>12. \A k : Unused(k).kind = "RECOVERY" /\ Used(k).kind = "RECOVERY"
    BY DEF Unused, Used
  <1>13. Offers(w1, o) \subseteq Offers(w, p)
    <2>1. ASSUME NEW k \in Keys(MaxRequests) PROVE Unused(k) # h.obj
      BY <1>9, <1>10, <1>11, <1>12, KeysAre
    <2> QED  BY <1>2, <1>5, <1>6, <2>1 DEF Offers
  <1>14. ASSUME NEW k \in Keys(MaxRequests), Used(k) \in o.added
         PROVE  w.said = "recovered" /\ w.note = k
    <2>1. CASE Used(k) \in p.added
      BY <1>2, <1>6, <1>8, <2>1 DEF CodesFor
    <2>2. CASE Used(k) \notin p.added
      <3>1. Used(k) = h.obj
        BY <1>6, <1>14, <2>2
      <3>2. w.said = "recovered" /\ h.row = Unused(w.note) /\ h.obj = Used(w.note)
        BY <1>10, <1>12, <3>1
      <3>3. w.note = k
        BY <1>9, <1>11, <3>1, <3>2, KeysAre
      <3> QED  BY <3>1, <3>2, <3>3
    <2> QED  BY <2>1, <2>2
  <1>15. w.said = "recovered" => Takes(w1, o, factors, uses, requests)
    <2>1. ASSUME w.said = "recovered" PROVE Unused(w.note) \in o.dropped \/ Unused(w.note) \notin factors
      BY <1>6, <1>10, <2>1
    <2> QED  BY <1>2, <1>5, <1>11, <1>13, <2>1 DEF Takes
  <1>16. CodesFor(w1, o, factors, uses, requests)
    <2>1. \A f \in o.added : IsFactor(f, requests)
      BY <1>2, <1>6, <1>8, <1>10 DEF CodesFor
    <2>2. \A s \in Elements(S) : s \in Elements(w.steps)
      BY <1>2
    <2>3. \A k \in Offers(w1, o) : Fresh(factors, uses, k)
      BY <1>2, <1>8, <1>13 DEF CodesFor
    <2>4. /\ \A s \in Elements(w1.steps) : s.op = "discard" =>
              \A f \in s.added : IsFactor(f, requests) /\ f.state # "used"
          /\ \A s \in Elements(w1.steps) : s.op = "factor" =>
              /\ IsFactor(s.obj, requests)
              /\ \/ w1.said # "recovered" /\ s.obj.kind = "TOTP"
                 \/ w1.said = "recovered" /\ s.row = Unused(w1.note) /\ s.obj = Used(w1.note)
      BY <1>2, <1>5, <1>8, <2>2 DEF CodesFor
    <2> QED  BY <1>5, <1>14, <1>15, <2>1, <2>3, <2>4 DEF CodesFor
  <1>17. w1.said = work[c].said /\ w1.note = work[c].note /\ Offers(w1, o) \subseteq Offers(work[c], own[c])
         /\ work[c] # Idle
    BY <1>2, <1>5, <1>13 DEF w, p
  <1> QED  BY <1>3, <1>4, <1>7, <1>16, <1>17, CodesWithin

\* The stored credentials give way to an enrolment, or to none.
LEMMA DiscardCodes ==
    ASSUME CodesInv, IInv, NEW c \in Clients, Discard(c)
    PROVE  CodesInv'
  <1> DEFINE w == work[c]
             p == own[c]
             h == Head(w.steps)
             S == Tail(w.steps)
             o == WithFactors(p, factors, h.added)
             w1 == Sent(w, S)
  <1>1. ~Empty(w.steps) /\ h.op = "discard" /\ Next1(c) = h
    BY OwesIs DEF Discard
  <1>2. /\ IsRequest(w) /\ w # Idle /\ h \in Elements(w.steps)
        /\ Elements(w.steps) = {h} \cup Elements(S)
    BY <1>1, Running, RequestOf, Pops
  <1>3. work' = [work EXCEPT ![c] = w1]
    BY <1>1, AdvanceByOne DEF Discard
  <1>4. own' = [own EXCEPT ![c] = o]
    <2>1. own = [d \in Clients |-> own[d]]
      BY Running
    <2> QED  BY <1>1, <2>1 DEF Discard, WithFactors
  <1>5. /\ w1.said = w.said /\ w1.note = w.note /\ w1.beside = w.beside /\ w1.steps = S
    BY <1>2, RequestFields
  <1>6. o.dropped = factors /\ o.added = h.added
    BY WriteOf, FactorFields
  <1>7. UNCHANGED <<factors, uses, races, requests>>
    BY DEF Discard, unwritten, account, history
  <1>8. CodesFor(w, p, factors, uses, requests)
    BY DEF CodesInv
  <1> HIDE DEF w, p, h, S, o, w1
  <1>9. w.said # "recovered" /\ \A f \in h.added : IsFactor(f, requests) /\ f.state # "used"
    BY <1>1, <1>2, <1>8 DEF CodesFor, Takes
  <1>10. \A k : Used(k).state = "used"
    BY DEF Used
  <1>11. Offers(w1, o) \subseteq Offers(w, p)
    BY <1>1, <1>2, <1>5, <1>6 DEF Offers
  <1>12. CodesFor(w1, o, factors, uses, requests)
    <2>1. \A s \in Elements(S) : s \in Elements(w.steps)
      BY <1>2
    <2>2. \A k \in Offers(w1, o) : Fresh(factors, uses, k)
      BY <1>2, <1>8, <1>11 DEF CodesFor
    <2>3. /\ \A s \in Elements(w1.steps) : s.op = "discard" =>
              \A f \in s.added : IsFactor(f, requests) /\ f.state # "used"
          /\ \A s \in Elements(w1.steps) : s.op = "factor" =>
              /\ IsFactor(s.obj, requests)
              /\ \/ w1.said # "recovered" /\ s.obj.kind = "TOTP"
                 \/ w1.said = "recovered" /\ s.row = Unused(w1.note) /\ s.obj = Used(w1.note)
      BY <1>2, <1>5, <1>8, <2>1 DEF CodesFor
    <2>4. \A f \in o.added : IsFactor(f, requests)
      BY <1>6, <1>9
    <2>5. \A k : Used(k) \notin o.added
      BY <1>6, <1>9, <1>10
    <2> QED  BY <1>5, <1>9, <2>2, <2>3, <2>4, <2>5 DEF CodesFor
  <1>13. w1.said = work[c].said /\ w1.note = work[c].note /\ Offers(w1, o) \subseteq Offers(work[c], own[c])
         /\ work[c] # Idle
    BY <1>2, <1>5, <1>11 DEF w, p
  <1> QED  BY <1>3, <1>4, <1>7, <1>12, <1>13, CodesWithin

\* The codes after a commit.
LEMMA CommitCodesStored ==
    ASSUME CodesInv, IInv, NEW c \in Clients, Commit(c)
    PROVE  /\ CodesStored(factors', uses', requests, races')
           /\ \A k \in Keys(MaxRequests) :
                 /\ Unused(k) \in factors' => Unused(k) \in factors \/ k \in Offers(work[c], own[c])
                 /\ Used(k) \in factors' /\ Used(k) \notin factors =>
                        work[c].said = "recovered" /\ work[c].note = k
                 /\ uses'[k] = uses[k] \/ (work[c].said = "recovered" /\ work[c].note = k)
  <1> DEFINE w == work[c]
             p == own[c]
  <1>1. w # Idle /\ Empty(w.steps) /\ IsRequest(w) /\ races' = races + w.beside
    BY Overtaking
  <1>2. /\ factors' = (factors \ p.dropped) \cup p.added
        /\ uses' = IF w.said = "recovered" THEN [uses EXCEPT ![w.note] = @ + 1] ELSE uses
    BY DEF Commit, FactorsSeen
  <1>3. CodesFor(w, p, factors, uses, requests) /\ CodesStored(factors, uses, requests, races)
    BY DEF CodesInv
  <1>4. races \in Nat /\ w.beside \in Nat /\ races' \in Nat /\ races' >= races
        /\ (w.beside >= 1 => races' >= races + 1)
    BY <1>1, Running DEF IsRequest, IInv, Numbers
  <1> HIDE DEF w, p
  <1>5. /\ requests \in Nat /\ MaxRequests \in Nat /\ \A k \in Keys(requests) : k \in Keys(MaxRequests)
    BY <1>3, BoundAssumption, MoreEnrolments DEF CodesStored
  <1>6. Elements(w.steps) = {}
    BY <1>1, Tuples DEF Empty
  <1>7. w.said = "recovered" =>
            /\ w.note \in Keys(requests) /\ w.note \in Keys(MaxRequests) /\ w.note \notin Offers(w, p)
            /\ uses[w.note] >= 1 => w.beside >= 1
            /\ Unused(w.note) \in p.dropped \/ Unused(w.note) \notin factors
    BY <1>1, <1>3, <1>5, <1>6 DEF CodesFor, Takes
  <1>8. \A k \in Keys(MaxRequests) : Unused(k) \in p.added => k \in Offers(w, p)
    BY DEF Offers
  <1>9. \A k \in Keys(MaxRequests) : Used(k) \in p.added =>
            w.said = "recovered" /\ w.note = k
    BY <1>1, <1>3 DEF CodesFor
  <1>10. /\ uses' = [k \in Keys(MaxRequests) |-> uses'[k]]
         /\ \A k \in Keys(MaxRequests) :
               uses'[k] = IF w.said = "recovered" /\ w.note = k THEN uses[k] + 1 ELSE uses[k]
    <2>1. uses = [k \in Keys(MaxRequests) |-> uses[k]]
      BY <1>3 DEF CodesStored
    <2> QED  BY <1>2, <2>1
  <1>11. ASSUME NEW k \in Keys(MaxRequests)
         PROVE  /\ uses'[k] \in 0..(1 + races')
                /\ Unused(k) \in factors' => uses'[k] = 0 /\ Used(k) \notin factors'
                /\ k[2] > requests => uses'[k] = 0
    <2>1. /\ uses[k] \in 0..(1 + races)
          /\ Unused(k) \in factors => uses[k] = 0 /\ Used(k) \notin factors
          /\ k[2] > requests => uses[k] = 0
      BY <1>3 DEF CodesStored
    <2>2. CASE w.said = "recovered" /\ w.note = k
      <3>1. uses'[k] = uses[k] + 1 /\ uses[k] \in Nat
        BY <1>4, <1>10, <2>1, <2>2
      <3>2. uses'[k] \in 0..(1 + races')
        <4>1. CASE uses[k] = 0
          <5>1. \A y \in Nat : 1 \in 0..(1 + y)
            OBVIOUS
          <5>2. uses'[k] = 1
            BY <3>1, <4>1
          <5> QED  BY <1>4, <5>1, <5>2
        <4>2. CASE uses[k] >= 1
          <5>1. races' >= races + 1
            BY <1>4, <1>7, <2>2, <4>2
          <5> QED  BY <1>4, <2>1, <3>1, <5>1
        <4> QED  BY <3>1, <4>1, <4>2
      <3>3. Unused(k) \notin factors'
        BY <1>2, <1>7, <1>8, <2>2
      <3>4. ~(k[2] > requests)
        <4>1. k \in Keys(requests)
          BY <1>7, <2>2
        <4> QED  BY <1>5, <4>1 DEF Keys
      <3> QED  BY <3>2, <3>3, <3>4
    <2>3. CASE ~(w.said = "recovered" /\ w.note = k)
      <3>1. uses'[k] = uses[k]
        BY <1>10, <2>3
      <3>2. uses'[k] \in 0..(1 + races')
        BY <1>4, <2>1, <3>1
      <3>3. Used(k) \notin p.added
        BY <1>9, <2>3
      <3>4. k \in Offers(w, p) => Fresh(factors, uses, k)
        BY <1>1, <1>3 DEF CodesFor
      <3>5. Unused(k) \in factors' => uses'[k] = 0 /\ Used(k) \notin factors'
        BY <1>2, <1>8, <2>1, <3>1, <3>3, <3>4 DEF Fresh
      <3> QED  BY <2>1, <3>1, <3>2, <3>5
    <2> QED  BY <2>2, <2>3
  <1>12. \A f \in factors' : IsFactor(f, requests)
    BY <1>1, <1>2, <1>3 DEF CodesFor, CodesStored
  <1>13. CodesStored(factors', uses', requests, races')
    <2>1. requests \in 0..MaxRequests
      BY <1>3 DEF CodesStored
    <2> QED  BY <1>10, <1>11, <1>12, <2>1 DEF CodesStored
  <1>14. \A k \in Keys(MaxRequests) :
                 /\ Unused(k) \in factors' => Unused(k) \in factors \/ k \in Offers(w, p)
                 /\ Used(k) \in factors' /\ Used(k) \notin factors => w.said = "recovered" /\ w.note = k
                 /\ uses'[k] = uses[k] \/ (w.said = "recovered" /\ w.note = k)
    <2>1. \A k \in Keys(MaxRequests) :
              Unused(k) \in factors' => Unused(k) \in factors \/ k \in Offers(w, p)
      BY <1>2, <1>8
    <2>2. \A k \in Keys(MaxRequests) :
              Used(k) \in factors' /\ Used(k) \notin factors => w.said = "recovered" /\ w.note = k
      BY <1>2, <1>9
    <2>3. \A k \in Keys(MaxRequests) :
              uses'[k] = uses[k] \/ (w.said = "recovered" /\ w.note = k)
      BY <1>10
    <2> QED  BY <2>1, <2>2, <2>3
  <1> QED  BY <1>13, <1>14 DEF w, p

\* Commit: an overlap lets a code be used once more at most.
LEMMA CommitKeepsCodes ==
    ASSUME CodesInv, IInv, NEW c \in Clients, Commit(c)
    PROVE  CodesInv'
  <1>1. /\ work'[c] = Idle
        /\ \A d \in Clients : d # c => own'[d] = own[d]
        /\ \A d \in Clients : d # c /\ work[d] = Idle => work'[d] = Idle
        /\ \A d \in Clients : d # c /\ work[d] # Idle =>
              work'[d] = Overtaken(work[d]) /\ IsRequest(work[d])
    BY Overtaking
  <1>2. /\ CodesStored(factors', uses', requests, races')
        /\ \A k \in Keys(MaxRequests) :
                 /\ Unused(k) \in factors' => Unused(k) \in factors \/ k \in Offers(work[c], own[c])
                 /\ Used(k) \in factors' /\ Used(k) \notin factors =>
                        work[c].said = "recovered" /\ work[c].note = k
                 /\ uses'[k] = uses[k] \/ (work[c].said = "recovered" /\ work[c].note = k)
    BY CommitCodesStored
  <1>3. work[c] # Idle /\ requests' = requests
    BY DEF Commit
  <1>4. /\ requests \in Nat /\ MaxRequests \in Nat /\ \A k \in Keys(requests) : k \in Keys(MaxRequests)
    BY BoundAssumption, MoreEnrolments DEF CodesInv, CodesStored
  <1>5. ASSUME NEW d \in Clients, d # c, work[d] # Idle
        PROVE  /\ work'[d].said = work[d].said /\ work'[d].note = work[d].note
               /\ Offers(work'[d], own'[d]) = Offers(work[d], own[d])
               /\ CodesFor(work'[d], own'[d], factors', uses', requests)
    <2> DEFINE v == work[d]
               v1 == Overtaken(v)
               q == own[d]
    <2>1. work'[d] = v1 /\ own'[d] = q /\ IsRequest(v)
      BY <1>1, <1>5
    <2>2. CodesFor(v, q, factors, uses, requests) /\ v # Idle
      BY <1>5 DEF CodesInv
    <2>3. /\ Offers(v, q) \cap Offers(work[c], own[c]) = {}
          /\ v.said = "recovered" => v.note \notin Offers(work[c], own[c])
          /\ work[c].said = "recovered" => work[c].note \notin Offers(v, q)
      BY <1>3, <1>5 DEF CodesInv
    <2> HIDE DEF v, q
    <2>4. /\ v1.said = v.said /\ v1.note = v.note /\ v1.beside = v.beside + 1
          /\ v1.steps = v.steps /\ v.beside \in Nat
      BY <2>1, RequestFields
    <2> HIDE DEF v1
    <2>5. Offers(v1, q) = Offers(v, q)
      BY <2>4 DEF Offers
    <2>6. v.said = "recovered" => Takes(v1, q, factors', uses', requests)
      <3>1. v.said = "recovered" => Takes(v, q, factors, uses, requests) /\ v.note \in Keys(MaxRequests)
        BY <1>4, <2>2 DEF CodesFor, Takes
      <3>2. v.said = "recovered" /\ Unused(v.note) \in factors' => Unused(v.note) \in factors
        BY <1>2, <2>3, <3>1
      <3>3. v1.beside >= 1
        BY <2>4
      <3> QED  BY <2>4, <2>5, <3>1, <3>2, <3>3 DEF Takes
    <2>7. ASSUME NEW k \in Offers(v, q) PROVE Fresh(factors', uses', k)
      <3>1. k \in Keys(MaxRequests)
        BY DEF Offers
      <3>2. Fresh(factors, uses, k)
        BY <2>2 DEF CodesFor
      <3>3. k \notin Offers(work[c], own[c]) /\ ~(work[c].said = "recovered" /\ work[c].note = k)
        BY <2>3
      <3> QED  BY <1>2, <3>1, <3>2, <3>3 DEF Fresh
    <2>8. CodesFor(v1, q, factors', uses', requests)
      BY <2>2, <2>4, <2>5, <2>6, <2>7 DEF CodesFor
    <2> QED  BY <2>1, <2>4, <2>5, <2>8 DEF v, q
  <1>6. ASSUME NEW d \in Clients
        PROVE  CodesFor(work'[d], own'[d], factors', uses', requests)
    <2>1. CASE d = c \/ work[d] = Idle
      <3>1. work'[d] = Idle
        BY <1>1, <2>1
      <3> QED  BY <3>1 DEF CodesFor
    <2>2. CASE d # c /\ work[d] # Idle
      BY <1>5, <2>2
    <2> QED  BY <2>1, <2>2
  <1>7. ASSUME NEW d \in Clients, NEW e \in Clients, d # e, work'[d] # Idle, work'[e] # Idle
        PROVE  /\ Offers(work'[d], own'[d]) \cap Offers(work'[e], own'[e]) = {}
               /\ work'[e].said = "recovered" => work'[e].note \notin Offers(work'[d], own'[d])
    <2>1. d # c /\ e # c /\ work[d] # Idle /\ work[e] # Idle
      BY <1>1, <1>7
    <2>2. /\ work'[e].said = work[e].said /\ work'[e].note = work[e].note
          /\ Offers(work'[e], own'[e]) = Offers(work[e], own[e])
          /\ Offers(work'[d], own'[d]) = Offers(work[d], own[d])
      BY <1>5, <2>1
    <2>3. /\ Offers(work[d], own[d]) \cap Offers(work[e], own[e]) = {}
          /\ work[e].said = "recovered" => work[e].note \notin Offers(work[d], own[d])
      BY <1>7, <2>1 DEF CodesInv
    <2> QED  BY <2>2, <2>3
  <1> QED  BY <1>2, <1>3, <1>6, <1>7 DEF CodesInv

\* No code is used at first.
LEMMA CodesStart == Init => CodesInv
  <1> SUFFICES ASSUME Init PROVE CodesInv
    OBVIOUS
  <1>1. /\ \A c \in Clients : work[c] = Idle
        /\ requests = 0 /\ races = 0
        /\ factors = Enrolment(0, "confirmed") \/ factors = {}
        /\ uses = [r \in Keys(MaxRequests) |-> 0]
    BY DEF Init, Keys
  <1>2. /\ \A f \in factors : IsFactor(f, 0)
        /\ \A k \in Keys(MaxRequests) : Used(k) \notin factors
    <2>1. /\ \A f \in Enrolment(0, "confirmed") : IsFactor(f, 0)
          /\ \A k \in Keys(MaxRequests) : Used(k) \notin Enrolment(0, "confirmed")
      BY EnrolmentIs
    <2> QED  BY <1>1, <2>1
  <1>3. requests \in 0..MaxRequests
    BY <1>1, BoundAssumption
  <1>4. CodesStored(factors, uses, requests, races)
    BY <1>1, <1>2, <1>3 DEF CodesStored
  <1> QED  BY <1>1, <1>4 DEF CodesInv, CodesFor

\* Every step keeps each code within what the overlaps allow.
LEMMA CodesSteps == CodesInv /\ IInv /\ [Next]_vars => CodesInv'
  <1> SUFFICES ASSUME CodesInv, IInv, [Next]_vars PROVE CodesInv'
    OBVIOUS
  <1>1. ASSUME NEW c \in Clients, Begins(c) PROVE CodesInv'
    BY <1>1, BeginKeepsCodes
  <1>2. ASSUME NEW c \in Clients, Reread(c) \/ PickRows(c) PROVE CodesInv'
    BY <1>2, ReadCodes
  <1>3. ASSUME NEW c \in Clients,
               WriteUser(c) \/ WriteSession(c) \/ InsertSession(c) \/ Revoke(c) \/ Leave(c)
        PROVE  CodesInv'
    BY <1>3, OtherWritesKeepCodes
  <1>4. ASSUME NEW c \in Clients, WriteFactor(c) PROVE CodesInv'
    BY <1>4, WriteFactorCodes
  <1>5. ASSUME NEW c \in Clients, Discard(c) PROVE CodesInv'
    BY <1>5, DiscardCodes
  <1>6. ASSUME NEW c \in Clients, EnforceCap(c) PROVE CodesInv'
    BY <1>6, CapKeepsCodes
  <1>7. ASSUME NEW c \in Clients, Commit(c) PROVE CodesInv'
    BY <1>7, CommitKeepsCodes
  <1>8. ASSUME NEW c \in Clients, Fail(c) PROVE CodesInv'
    BY <1>8, FailKeepsCodes
  <1>9. CASE Tick \/ UNCHANGED vars
    <2>1. UNCHANGED <<work, own, factors, uses, requests, races>>
      BY <1>9 DEF Tick, vars, account, history
    <2> QED  BY <2>1 DEF CodesInv
  <1> QED  BY <1>1, <1>2, <1>3, <1>4, <1>5, <1>6, <1>7, <1>8, <1>9 DEF Next, Begins

\* A recovery code signs in once, and once more for each overlap at most.
THEOREM CodesAlwaysWorkOnce == Spec => []CodesWorkOnce
  <1>1. CodesInv /\ IInv => CodesWorkOnce
    <2> SUFFICES ASSUME CodesInv, IInv PROVE CodesWorkOnce
      OBVIOUS
    <2>1. CodesStored(factors, uses, requests, races) /\ races \in Nat
      BY DEF CodesInv, IInv, Numbers
    <2>2. DOMAIN uses = Keys(MaxRequests)
      BY <2>1 DEF CodesStored
    <2>3. \A k \in Keys(MaxRequests) : uses[k] \in 0..(1 + races)
      BY <2>1 DEF CodesStored
    <2> QED  BY <2>1, <2>2, <2>3 DEF CodesWorkOnce
  <1> QED  BY <1>1, CodesStart, CodesSteps, AlwaysIInv, PTL DEF Spec

-----------------------------------------------------------------------------
(* Branches of a family                                                     *)

\* A token that can be used, until it expires.
IsHead(s) == s.rotated = Never /\ s.revoked = Never

HeadsOf(T, f) == {i \in DOMAIN T : T[i].family = f /\ IsHead(T[i])}

\* The stored sessions that a request leaves usable, of those it writes.
Kept(T, o) == {i \in DOMAIN o.sessions : i \in DOMAIN T /\ IsHead(o.sessions[i])}

\* The row a request leaves that has read it for the second time.
Rereads(w) == Sends(w, "session") /\ ~Empty(w.seen)
Leaves(T, w, o) ==
    Merge(Overlay(o.sessions, T)[Head(w.steps).id], Head(w.steps).obj, Head(w.seen))
Doubt(T, w, o) == IF Rereads(w) /\ IsHead(Leaves(T, w, o)) THEN 1 ELSE 0

\* r continues the session of this id.
Continues(T, m, r) == IsHead(r) /\ r.family = T[m].family /\ r.expires = T[m].expires

\* A refresh of session m into session n has still to write both, ...
Starting(T, w, o, m, n) ==
    /\ Len(w.steps) = 2
    /\ w.steps = <<SessionStep(m, w.steps[1].obj), InsertStep(n, w.steps[2].obj)>>
    /\ w.steps[1].obj.rotated # Never /\ w.steps[1].obj.revoked = Never
    /\ Continues(T, m, w.steps[2].obj) /\ Empty(o.sessions)
    /\ ~Empty(w.seen) /\ Head(w.seen).rotated # Never =>
          w.beside >= 1 /\ (T[m].rotated = Never => w.beside >= 2)

\* ... to insert n, or ...
Halfway(T, w, o, m, n) ==
    /\ Len(w.steps) = 1 /\ w.steps = <<InsertStep(n, w.steps[1].obj)>>
    /\ Continues(T, m, w.steps[1].obj) /\ DOMAIN o.sessions = {m}
    /\ IsHead(o.sessions[m]) => w.beside >= 2

\* ... has written both.
Written(T, w, o, m, n) ==
    /\ Empty(w.steps) /\ DOMAIN o.sessions = {m, n}
    /\ Continues(T, m, o.sessions[n])
    /\ IsHead(o.sessions[m]) => w.beside >= 2

\* What a refresh read of m is stale only if others have committed beside it.
Rotating(T, w, o, m, n) ==
    /\ n # m
    /\ w.beside = 0 => IsHead(T[m])
    /\ Starting(T, w, o, m, n) \/ Halfway(T, w, o, m, n) \/ Written(T, w, o, m, n)

\* Any other request leaves no more sessions usable than were committed beside it,
\* and what it inserts starts a family.
Sparing(T, w, o) ==
    /\ \A s \in Elements(w.steps) : /\ s.op = "session" => s.obj.revoked # Never
                                    /\ s.op = "insert" => s.obj.family = s.id
    /\ \A i \in DOMAIN o.sessions : i \in DOMAIN T \/ o.sessions[i].family = i
    /\ Cardinality(Kept(T, o)) + Doubt(T, w, o) <= w.beside

BranchesFor(T, w, o) ==
    w # Idle => IF w.said = "rotated"
                THEN \E m \in DOMAIN T : \E n \in 1..MaxId : Rotating(T, w, o, m, n)
                ELSE Sparing(T, w, o)

BranchesInv ==
    /\ \A f \in Nat : Cardinality(HeadsOf(sessions, f)) <= 1 + races
    /\ \A c \in Clients : BranchesFor(sessions, work[c], own[c])

-----------------------------------------------------------------------------
(* Sets that grow by a few elements                                         *)

\* What is in one of two sets.
LEMMA UpTo ==
    ASSUME NEW A, IsFiniteSet(A), NEW B, IsFiniteSet(B), NEW S, S \subseteq A \cup B
    PROVE  /\ IsFiniteSet(S) /\ Cardinality(S) \in Nat
           /\ Cardinality(A) \in Nat /\ Cardinality(B) \in Nat
           /\ Cardinality(S) <= Cardinality(A) + Cardinality(B)
  <1>1. /\ IsFiniteSet(A \cup B) /\ Cardinality(A \cup B) = Cardinality(A) + Cardinality(B) - Cardinality(A \cap B)
    BY FS_Union
  <1>2. IsFiniteSet(A \cap B)
    BY FS_Subset
  <1>3. IsFiniteSet(S) /\ Cardinality(S) <= Cardinality(A \cup B)
    BY <1>1, FS_Subset
  <1> QED  BY <1>1, <1>2, <1>3, FS_CardinalityType

\* A set that grows by one element, ...
LEMMA OneMore ==
    ASSUME NEW A, IsFiniteSet(A), NEW x, NEW S, S \subseteq A \cup {x}
    PROVE  /\ IsFiniteSet(S) /\ Cardinality(S) \in Nat /\ Cardinality(A) \in Nat
           /\ Cardinality(S) <= Cardinality(A) + 1
  <1>1. IsFiniteSet({x}) /\ Cardinality({x}) = 1
    BY FS_Singleton
  <1> QED  BY <1>1, UpTo

\* ... by two, ...
LEMMA TwoMore ==
    ASSUME NEW A, IsFiniteSet(A), NEW x, NEW y, NEW S, S \subseteq A \cup {x, y}
    PROVE  /\ IsFiniteSet(S) /\ Cardinality(S) \in Nat /\ Cardinality(A) \in Nat
           /\ Cardinality(S) <= Cardinality(A) + 2
  <1>1. IsFiniteSet(A \cup {x}) /\ Cardinality(A \cup {x}) \in Nat /\ Cardinality(A) \in Nat
        /\ Cardinality(A \cup {x}) <= Cardinality(A) + 1
    BY OneMore, FS_AddElement
  <1>2. S \subseteq (A \cup {x}) \cup {y}
    OBVIOUS
  <1>3. IsFiniteSet(S) /\ Cardinality(S) \in Nat /\ Cardinality(S) <= Cardinality(A \cup {x}) + 1
    BY <1>1, <1>2, OneMore
  <1> QED  BY <1>1, <1>3

\* ... by one that takes the place of another.
LEMMA Replaced ==
    ASSUME NEW A, IsFiniteSet(A), NEW m \in A, NEW x, NEW S, S \subseteq (A \ {m}) \cup {x}
    PROVE  /\ IsFiniteSet(S) /\ Cardinality(S) \in Nat /\ Cardinality(A) \in Nat
           /\ Cardinality(S) <= Cardinality(A)
  <1>1. /\ IsFiniteSet(A \ {m}) /\ Cardinality(A \ {m}) = Cardinality(A) - 1 /\ Cardinality(A) \in Nat
    BY FS_RemoveElement, FS_CardinalityType
  <1>2. IsFiniteSet(S) /\ Cardinality(S) \in Nat /\ Cardinality(S) <= Cardinality(A \ {m}) + 1
    BY <1>1, OneMore
  <1> QED  BY <1>1, <1>2

\* A part of a set.
LEMMA Fewer ==
    ASSUME NEW A, IsFiniteSet(A), NEW S, S \subseteq A
    PROVE  /\ IsFiniteSet(S) /\ Cardinality(S) \in Nat /\ Cardinality(A) \in Nat
           /\ Cardinality(S) <= Cardinality(A)
  BY FS_Subset, FS_CardinalityType

\* The rows of a table are finitely many.
LEMMA FiniteTable ==
    ASSUME NEW T, NEW n \in Nat, IsTable(T, n)
    PROVE  IsFiniteSet(DOMAIN T)
  <1>1. DOMAIN T \subseteq 1..(n - 1)
    BY DEF IsTable
  <1>2. IsFiniteSet(1..(n - 1))
    BY FS_Interval
  <1> QED  BY <1>1, <1>2, FS_Subset

\* The columns of a row after an UPDATE.
LEMMA MergeColumns ==
    ASSUME NEW current \in Row, NEW obj \in Row, NEW seen
    PROVE  LET r == Merge(current, obj, seen)
           IN /\ r.rotated = IF obj.rotated # seen.rotated THEN obj.rotated ELSE current.rotated
              /\ r.revoked = IF obj.revoked # seen.revoked THEN obj.revoked ELSE current.revoked
              /\ r.expires = IF obj.expires # seen.expires THEN obj.expires ELSE current.expires
              /\ r.family = IF obj.family # seen.family THEN obj.family ELSE current.family
  <1> DEFINE r == Merge(current, obj, seen)
  <1>1. DOMAIN obj = {"family", "created", "expires", "rotated", "by", "revoked"}
    BY DEF Row
  <1>2. \A k \in DOMAIN obj : r[k] = IF obj[k] # seen[k] THEN obj[k] ELSE current[k]
    BY DEF Merge
  <1>3. /\ r["rotated"] = IF obj["rotated"] # seen["rotated"] THEN obj["rotated"] ELSE current["rotated"]
        /\ r["revoked"] = IF obj["revoked"] # seen["revoked"] THEN obj["revoked"] ELSE current["revoked"]
        /\ r["expires"] = IF obj["expires"] # seen["expires"] THEN obj["expires"] ELSE current["expires"]
        /\ r["family"] = IF obj["family"] # seen["family"] THEN obj["family"] ELSE current["family"]
    BY <1>1, <1>2
  <1> HIDE DEF r
  <1>4. /\ r.rotated = IF obj.rotated # seen.rotated THEN obj.rotated ELSE current.rotated
        /\ r.revoked = IF obj.revoked # seen.revoked THEN obj.revoked ELSE current.revoked
        /\ r.expires = IF obj.expires # seen.expires THEN obj.expires ELSE current.expires
        /\ r.family = IF obj.family # seen.family THEN obj.family ELSE current.family
    BY <1>3
  <1> QED  BY <1>4 DEF r

-----------------------------------------------------------------------------
(* Branches, step by step                                                   *)

\* A step of one request that commits nothing.
LEMMA BranchesStep ==
    ASSUME BranchesInv, IInv, NEW c \in Clients, NEW w, NEW o,
           work' = [work EXCEPT ![c] = w], own' = [own EXCEPT ![c] = o],
           UNCHANGED <<sessions, races>>, BranchesFor(sessions, w, o)
    PROVE  BranchesInv'
  <1>1. /\ work'[c] = w /\ own'[c] = o
        /\ \A d \in Clients : d # c => work'[d] = work[d] /\ own'[d] = own[d]
    BY DEF IInv
  <1>2. \A d \in Clients : BranchesFor(sessions, work'[d], own'[d])
    BY <1>1 DEF BranchesInv
  <1>3. \A f \in Nat : Cardinality(HeadsOf(sessions, f)) <= 1 + races
    BY DEF BranchesInv
  <1> QED  BY <1>2, <1>3 DEF BranchesInv

\* Only a refresh starts with statements on single sessions.
LEMMA OpeningPlain ==
    ASSUME NEW c, NEW kind, NEW steps, NEW said, NEW note, Opening(c, kind, steps, said, note),
           said # "rotated"
    PROVE  \A s \in Elements(steps) : s.op \notin {"session", "insert"}
  <1>1. CASE \E x : steps = <<x>> /\ x.op \in {"user", "revoke", "discard"}
    BY <1>1, ListsOf
  <1>2. CASE \E x, y : /\ steps = <<x, y>> /\ x.op \in {"user", "factor", "discard", "leave"}
                       /\ y.op \in {"user", "cap", "revoke"}
    <2>1. PICK x, y : /\ steps = <<x, y>> /\ x.op \in {"user", "factor", "discard", "leave"}
                      /\ y.op \in {"user", "cap", "revoke"}
      BY <1>2
    <2>2. x.op \notin {"insert", "revoke", "cap"}
      BY <2>1
    <2>3. Elements(<<x, y>>) = {x, y}
      BY <2>2, ListsOf
    <2> QED  BY <2>1, <2>3
  <1>3. CASE \E x, y, v : steps = <<x, y, v>> /\ x.op = "factor" /\ y.op = "user" /\ v.op = "cap"
    <2>1. PICK x, y, v : steps = <<x, y, v>> /\ x.op = "factor" /\ y.op = "user" /\ v.op = "cap"
      BY <1>3
    <2>2. x.op \notin {"insert", "revoke", "cap"} /\ y.op \notin {"insert", "revoke", "cap"}
      BY <2>1
    <2>3. Elements(<<x, y, v>>) = {x, y, v}
      BY <2>2, ListsOf
    <2> QED  BY <2>1, <2>3
  <1>4. \/ \E x : steps = <<x>> /\ x.op \in {"user", "revoke", "discard"}
        \/ \E x, y : /\ steps = <<x, y>> /\ x.op \in {"user", "factor", "discard", "leave"}
                     /\ y.op \in {"user", "cap", "revoke"}
        \/ \E x, y, v : steps = <<x, y, v>> /\ x.op = "factor" /\ y.op = "user" /\ v.op = "cap"
    BY StepKinds DEF Opening
  <1> QED  BY <1>1, <1>2, <1>3, <1>4

\* A refresh that starts.
LEMMA RotatingStarts ==
    ASSUME IInv, NEW c \in Clients, NEW kind, NEW steps, NEW said, NEW note,
           Opening(c, kind, steps, said, note), said = "rotated",
           NEW w, w.steps = steps, w.seen = <<>>
    PROVE  \E m \in DOMAIN sessions : \E n \in 1..MaxId : Rotating(sessions, w, Nothing, m, n)
  <1>1. PICK m \in DOMAIN sessions :
            /\ Verdict(sessions[m], clock) = "rotate" /\ nextId <= MaxId
            /\ steps = <<SessionStep(m, Rotated(sessions[m], nextId, clock)),
                         InsertStep(nextId, Successor(sessions[m], clock))>>
    BY DEF Opening
  <1> DEFINE x == Rotated(sessions[m], nextId, clock)
             y == Successor(sessions[m], clock)
  <1>2. /\ nextId \in Nat \ {0} /\ MaxId \in Nat /\ clock \in Nat \ {0}
        /\ IsTable(sessions, nextId)
    BY BoundAssumption DEF IInv, Numbers, Stored
  <1>3. nextId \in 1..MaxId /\ sessions[m] \in Row /\ m \in 1..(nextId - 1)
    BY <1>1, <1>2 DEF IsTable
  <1>4. nextId # m
    BY <1>2, <1>3
  <1>5. IsHead(sessions[m])
    BY <1>1 DEF Verdict, IsHead
  <1>6. x.rotated # Never /\ x.revoked = Never
    BY <1>2, <1>3, <1>5 DEF Rotated, IsHead, Row, Never
  <1>7. Continues(sessions, m, y)
    BY <1>3 DEF Successor, Continues, IsHead, Row
  <1>8. w.steps = <<SessionStep(m, x), InsertStep(nextId, y)>>
    BY <1>1
  <1>9. Empty(Nothing.sessions) /\ Empty(w.seen)
    BY DEF Nothing, Empty
  <1> HIDE DEF x, y
  <1>10. SessionStep(m, x).obj = x /\ InsertStep(nextId, y).obj = y
    BY DEF SessionStep, InsertStep
  <1>11. Len(w.steps) = 2 /\ w.steps[1] = SessionStep(m, x) /\ w.steps[2] = InsertStep(nextId, y)
    BY <1>8, Tuples
  <1>12. Rotating(sessions, w, Nothing, m, nextId)
    BY <1>4, <1>5, <1>6, <1>7, <1>8, <1>9, <1>10, <1>11 DEF Rotating, Starting
  <1> QED  BY <1>3, <1>12

\* The start of a request.
LEMMA BeginKeepsBranches ==
    ASSUME BranchesInv, IInv, NEW c \in Clients, Begins(c)
    PROVE  BranchesInv'
  <1>1. PICK kind, steps, said, note : Opening(c, kind, steps, said, note)
    BY Openings
  <1>2. /\ kind # "idle" /\ Begin(c, kind, steps, said, note)
        /\ steps \in Seq(Elements(steps)) /\ LastOK(steps) /\ ~Empty(steps)
    BY <1>1, OpeningIs
  <1> DEFINE w == NewRequest(kind, steps, said, note)
  <1>3. /\ IsRequest(w) /\ w.steps = steps /\ w.said = said
        /\ Empty(w.seen) /\ work' = [work EXCEPT ![c] = w] /\ own' = [own EXCEPT ![c] = Nothing]
        /\ UNCHANGED <<sessions, races>>
    BY <1>2, BeginIs
  <1>4. w.beside = 0 /\ w.seen = <<>>
    BY DEF NewRequest
  <1> HIDE DEF w
  <1>5. CASE said = "rotated"
    BY <1>1, <1>3, <1>4, <1>5, RotatingStarts, BranchesStep DEF BranchesFor
  <1>6. CASE said # "rotated"
    <2>1. \A s \in Elements(steps) : s.op \notin {"session", "insert"}
      BY <1>1, <1>6, OpeningPlain
    <2>2. Nothing.sessions = <<>> /\ DOMAIN Nothing.sessions = {}
      BY DEF Nothing
    <2>3. Kept(sessions, Nothing) = {} /\ Cardinality({}) = 0
      BY <2>2, FS_EmptySet DEF Kept
    <2>4. Doubt(sessions, w, Nothing) = 0
      BY <1>3 DEF Doubt, Rereads
    <2>5. Sparing(sessions, w, Nothing)
      BY <1>3, <1>4, <2>1, <2>2, <2>3, <2>4 DEF Sparing
    <2> QED  BY <1>3, <1>6, <2>5, BranchesStep DEF BranchesFor
  <1> QED  BY <1>5, <1>6

\* What a refresh has still to send.
LEMMA RotatingHead ==
    ASSUME NEW T, NEW w, NEW o, NEW m, NEW n, Rotating(T, w, o, m, n), ~Empty(w.steps)
    PROVE  \/ /\ Starting(T, w, o, m, n) /\ Head(w.steps) = SessionStep(m, w.steps[1].obj)
              /\ Head(w.steps).op = "session" /\ Head(w.steps).id = m
              /\ Head(w.steps).obj = w.steps[1].obj
              /\ Tail(w.steps) = <<InsertStep(n, w.steps[2].obj)>>
           \/ /\ Halfway(T, w, o, m, n) /\ Head(w.steps) = InsertStep(n, w.steps[1].obj)
              /\ Head(w.steps).op = "insert" /\ Head(w.steps).id = n
              /\ Head(w.steps).obj = w.steps[1].obj /\ Tail(w.steps) = <<>>
  <1>1. \A x : Head(<<x>>) = x /\ Tail(<<x>>) = <<>>
    OBVIOUS
  <1>2. \A x, y : Head(<<x, y>>) = x /\ Tail(<<x, y>>) = <<y>>
    OBVIOUS
  <1>3. \A i, s : /\ SessionStep(i, s).op = "session" /\ SessionStep(i, s).id = i
                  /\ SessionStep(i, s).obj = s
                  /\ InsertStep(i, s).op = "insert" /\ InsertStep(i, s).id = i
                  /\ InsertStep(i, s).obj = s
    BY DEF SessionStep, InsertStep
  <1>4. CASE Starting(T, w, o, m, n)
    <2>1. w.steps = <<SessionStep(m, w.steps[1].obj), InsertStep(n, w.steps[2].obj)>>
      BY <1>4 DEF Starting
    <2>2. /\ Head(w.steps) = SessionStep(m, w.steps[1].obj)
          /\ Tail(w.steps) = <<InsertStep(n, w.steps[2].obj)>>
      BY <1>2, <2>1
    <2> QED  BY <1>3, <1>4, <2>2
  <1>5. CASE Halfway(T, w, o, m, n)
    <2>1. w.steps = <<InsertStep(n, w.steps[1].obj)>>
      BY <1>5 DEF Halfway
    <2>2. Head(w.steps) = InsertStep(n, w.steps[1].obj) /\ Tail(w.steps) = <<>>
      BY <1>1, <2>1
    <2> QED  BY <1>3, <1>5, <2>2
  <1>6. ~Written(T, w, o, m, n)
    BY DEF Written
  <1> QED  BY <1>4, <1>5, <1>6 DEF Rotating

\* A refresh sends statements on single sessions only.
LEMMA RotatingSends ==
    ASSUME NEW T, NEW w, NEW o, NEW m, NEW n, Rotating(T, w, o, m, n), ~Empty(w.steps)
    PROVE  Head(w.steps).op \in {"session", "insert"}
  BY RotatingHead

\* A read of a stored session.
LEMMA SeenRow ==
    ASSUME IInv, NEW c \in Clients, ~Empty(work[c].steps), Head(work[c].steps).op = "session"
    PROVE  LET h == Head(work[c].steps)
           IN /\ h.id \in DOMAIN sessions /\ h.obj \in Row /\ sessions[h.id] \in Row
              /\ SessionsSeen(c)[h.id] \in Row
              /\ h.obj.family = sessions[h.id].family /\ h.obj.expires = sessions[h.id].expires
              /\ SessionsSeen(c)[h.id].family = sessions[h.id].family
              /\ SessionsSeen(c)[h.id].expires = sessions[h.id].expires
              /\ h \in Elements(work[c].steps)
  <1> DEFINE w == work[c]
             h == Head(w.steps)
             O == own[c].sessions
             V == Overlay(O, sessions)
             D == Elements(w.steps)
  <1>1. /\ Fine(sessions, w, own[c], nextId, ended, races)
        /\ Stored(sessions, nextId, ended, races)
    BY Running
  <1>2. h \in D
    BY <1>1, RequestOf, Pops
  <1>3. ClientOK(sessions, O, D, Picks(w), nextId, ended) /\ IsTable(sessions, nextId)
        /\ Lineage(sessions)
    BY <1>1 DEF Fine, Stored
  <1>4. h.id \in DOMAIN sessions /\ RowOK(sessions, V, D, h.obj, h.id)
    BY <1>2, <1>3 DEF ClientOK, StepsOK
  <1>5. RowsOK(sessions, O, D) /\ h.id \in DOMAIN V
    BY <1>3, <1>4 DEF ClientOK, Overlay
  <1>6. RowOK(sessions, V, D, V[h.id], h.id)
    BY <1>3, <1>5, ViewOK
  <1>7. V = SessionsSeen(c)
    BY DEF SessionsSeen
  <1>8. sessions[h.id] \in Row
    BY <1>3, <1>4 DEF IsTable
  <1> HIDE DEF w, h, O, V, D
  <1>9. /\ h.obj \in Row /\ V[h.id] \in Row
        /\ h.obj.family = sessions[h.id].family /\ h.obj.expires = sessions[h.id].expires
        /\ V[h.id].family = sessions[h.id].family /\ V[h.id].expires = sessions[h.id].expires
    BY <1>4, <1>6 DEF RowOK, Kin
  <1> QED  BY <1>2, <1>4, <1>7, <1>8, <1>9 DEF w, h, D

\* A request that has something to send.
LEMMA Sending ==
    ASSUME BranchesInv, IInv, NEW c \in Clients, ~Empty(work[c].steps)
    PROVE  /\ Fine(sessions, work[c], own[c], nextId, ended, races)
           /\ Stored(sessions, nextId, ended, races) /\ IsTable(sessions, nextId) /\ nextId \in Nat
           /\ IsRequest(work[c]) /\ work[c] # Idle /\ work[c].beside \in Nat
           /\ Head(work[c].steps) \in Elements(work[c].steps)
           /\ Elements(work[c].steps) = {Head(work[c].steps)} \cup Elements(Tail(work[c].steps))
           /\ work[c].said = "rotated" =>
                \E m \in DOMAIN sessions : \E n \in 1..MaxId :
                    Rotating(sessions, work[c], own[c], m, n)
           /\ work[c].said # "rotated" => Sparing(sessions, work[c], own[c])
           /\ Head(work[c].steps).op \notin {"session", "insert"} => work[c].said # "rotated"
  <1>1. /\ Fine(sessions, work[c], own[c], nextId, ended, races)
        /\ Stored(sessions, nextId, ended, races) /\ nextId \in Nat
    BY Running
  <1>2. IsRequest(work[c]) /\ work[c] # Idle /\ work[c].steps \in Seq(Elements(work[c].steps))
    BY <1>1, RequestOf
  <1>3. /\ Head(work[c].steps) \in Elements(work[c].steps)
        /\ Elements(work[c].steps) = {Head(work[c].steps)} \cup Elements(Tail(work[c].steps))
    BY <1>2, Pops
  <1>4. IsTable(sessions, nextId) /\ work[c].beside \in Nat
    BY <1>1, <1>2 DEF Stored, IsRequest
  <1>5. /\ work[c].said = "rotated" =>
                \E m \in DOMAIN sessions : \E n \in 1..MaxId :
                    Rotating(sessions, work[c], own[c], m, n)
        /\ work[c].said # "rotated" => Sparing(sessions, work[c], own[c])
    BY <1>2 DEF BranchesInv, BranchesFor
  <1>6. Head(work[c].steps).op \notin {"session", "insert"} => work[c].said # "rotated"
    BY <1>5, RotatingSends
  <1> QED  BY <1>1, <1>2, <1>3, <1>4, <1>5, <1>6

\* What leaves no more sessions usable still spares the rest.
LEMMA SparingFewer ==
    ASSUME NEW T, NEW n \in Nat, IsTable(T, n), NEW w, NEW o, Sparing(T, w, o), w.beside \in Nat,
           NEW w1, NEW o1, w1.beside = w.beside,
           \A s \in Elements(w1.steps) : /\ s.op = "session" => s.obj.revoked # Never
                                         /\ s.op = "insert" => s.obj.family = s.id,
           \A i \in DOMAIN o1.sessions : i \in DOMAIN T \/ o1.sessions[i].family = i,
           Kept(T, o1) \subseteq Kept(T, o), Doubt(T, w1, o1) = 0
    PROVE  Sparing(T, w1, o1)
  <1>1. Kept(T, o) \subseteq DOMAIN T /\ IsFiniteSet(DOMAIN T)
    BY FiniteTable DEF Kept
  <1>2. IsFiniteSet(Kept(T, o))
    BY <1>1, FS_Subset
  <1>3. /\ Cardinality(Kept(T, o1)) \in Nat /\ Cardinality(Kept(T, o)) \in Nat
        /\ Cardinality(Kept(T, o1)) <= Cardinality(Kept(T, o))
    BY <1>2, Fewer
  <1>4. Doubt(T, w, o) \in {0, 1} /\ Cardinality(Kept(T, o)) + Doubt(T, w, o) <= w.beside
    BY DEF Doubt, Sparing
  <1>5. Cardinality(Kept(T, o1)) + Doubt(T, w1, o1) <= w1.beside
    BY <1>3, <1>4
  <1> QED  BY <1>5 DEF Sparing

\* Reread and PickRows.
LEMMA ReadKeepsBranches ==
    ASSUME BranchesInv, IInv, NEW c \in Clients, Reread(c) \/ PickRows(c)
    PROVE  BranchesInv'
  <1> DEFINE v == work[c]
             h == Head(v.steps)
             O == own[c].sessions
             V == SessionsSeen(c)
  <1>1. ~Empty(v.steps) /\ h.op \in {"user", "session", "revoke"} /\ Empty(v.seen)
    BY OwesIs DEF Reread, PickRows, Empty
  <1>2. UNCHANGED <<sessions, races>> /\ own' = [own EXCEPT ![c] = own[c]]
    BY Running DEF Reread, PickRows, unwritten, account, history
  <1>3. /\ IsTable(sessions, nextId) /\ nextId \in Nat
        /\ IsRequest(v) /\ v # Idle /\ v.beside \in Nat /\ h \in Elements(v.steps)
        /\ v.said = "rotated" =>
             \E m \in DOMAIN sessions : \E n \in 1..MaxId : Rotating(sessions, v, own[c], m, n)
        /\ v.said # "rotated" => Sparing(sessions, v, own[c])
        /\ h.op \notin {"session", "insert"} => v.said # "rotated"
    BY <1>1, Sending
  <1>4. \E x : /\ work' = [work EXCEPT ![c] = Reading(v, x)]
               /\ h.op = "session" => x = <<V[h.id]>>
    <2>1. CASE Reread(c)
      <3>1. Next1(c) = h
        BY <2>1, OwesIs DEF Reread
      <3> DEFINE x == IF h.op = "user" THEN <<UserSeen(c)>> ELSE <<V[h.id]>>
      <3>2. work' = [work EXCEPT ![c] = Reading(v, x)]
        BY <2>1, <3>1, Running DEF Reread, Reading
      <3>3. h.op = "session" => x = <<V[h.id]>>
        OBVIOUS
      <3> HIDE DEF x
      <3> QED  BY <3>2, <3>3
    <2>2. CASE PickRows(c)
      <3>1. h.op = "revoke"
        BY <2>2, OwesIs DEF PickRows
      <3>2. \E x : work' = [work EXCEPT ![c] = Reading(v, x)]
        BY <2>2, Running DEF PickRows, Reading
      <3> QED  BY <3>1, <3>2
    <2> QED  BY <2>1, <2>2
  <1>5. PICK x : /\ work' = [work EXCEPT ![c] = Reading(v, x)]
                 /\ h.op = "session" => x = <<V[h.id]>>
    BY <1>4
  <1> DEFINE w == Reading(v, x)
  <1>6. /\ w.said = v.said /\ w.beside = v.beside
        /\ w.steps = v.steps /\ w.seen = x /\ work' = [work EXCEPT ![c] = w]
    BY <1>3, <1>5, RequestFields
  <1>7. h.op = "session" =>
           /\ Head(x) = V[h.id] /\ h.id \in DOMAIN sessions /\ h.obj \in Row /\ V[h.id] \in Row
    <2>1. SUFFICES ASSUME h.op = "session"
                   PROVE Head(x) = V[h.id] /\ h.id \in DOMAIN sessions /\ h.obj \in Row /\ V[h.id] \in Row
      OBVIOUS
    <2>2. h.id \in DOMAIN sessions /\ h.obj \in Row /\ V[h.id] \in Row
      BY <1>1, <2>1, SeenRow
    <2>3. Head(x) = V[h.id]
      BY <1>5, <2>1
    <2> QED  BY <2>2, <2>3
  <1>8. V = Overlay(O, sessions)
    BY DEF SessionsSeen
  <1> HIDE DEF w, V
  <1>9. CASE v.said # "rotated"
    <2>1. Sparing(sessions, v, own[c])
      BY <1>3, <1>9
    <2>2. Doubt(sessions, w, own[c]) = 0
      <3>1. CASE ~Rereads(w)
        BY <3>1 DEF Doubt
      <3>2. CASE Rereads(w)
        <4>1. h.op = "session"
          BY <1>6, <3>2 DEF Rereads, Sends
        <4>2. Leaves(sessions, w, own[c]) = Merge(V[h.id], h.obj, V[h.id])
          BY <1>6, <1>7, <1>8, <4>1 DEF Leaves
        <4>3. h.obj.revoked # Never
          BY <1>3, <2>1, <4>1 DEF Sparing
        <4>4. Merge(V[h.id], h.obj, V[h.id]).revoked # Never
          BY <1>7, <4>1, <4>3, MergeColumns
        <4>5. ~IsHead(Leaves(sessions, w, own[c]))
          BY <4>2, <4>4 DEF IsHead
        <4> QED  BY <4>5 DEF Doubt
      <3> QED  BY <3>1, <3>2
    <2>3. Sparing(sessions, w, own[c])
      <3>1. /\ \A s \in Elements(w.steps) : /\ s.op = "session" => s.obj.revoked # Never
                                            /\ s.op = "insert" => s.obj.family = s.id
            /\ \A i \in DOMAIN own[c].sessions : i \in DOMAIN sessions \/ own[c].sessions[i].family = i
        BY <1>6, <2>1 DEF Sparing
      <3>2. Kept(sessions, own[c]) \subseteq Kept(sessions, own[c])
        OBVIOUS
      <3> HIDE DEF v
      <3> QED  BY <1>3, <1>6, <2>1, <2>2, <3>1, <3>2, SparingFewer
    <2>4. BranchesFor(sessions, w, own[c])
      BY <1>6, <1>9, <2>3 DEF BranchesFor
    <2> QED  BY <1>2, <1>6, <2>4, BranchesStep
  <1>10. CASE v.said = "rotated"
    <2>1. PICK m \in DOMAIN sessions, n \in 1..MaxId : Rotating(sessions, v, own[c], m, n)
      BY <1>3, <1>10
    <2>2. Starting(sessions, v, own[c], m, n) /\ h.op = "session" /\ h.id = m
      BY <1>1, <2>1, RotatingHead
    <2>3. Head(x) = sessions[m]
      <3>1. Empty(O)
        BY <2>2 DEF Starting
      <3>2. DOMAIN O = {}
        BY <3>1 DEF Empty
      <3>3. Overlay(O, sessions)[m] = sessions[m]
        BY <3>2 DEF Overlay
      <3> QED  BY <1>7, <1>8, <2>2, <3>3
    <2>4. n # m /\ (v.beside = 0 => IsHead(sessions[m]))
      BY <2>1 DEF Rotating
    <2>5. sessions[m].rotated # Never => v.beside >= 1
      BY <1>3, <2>4 DEF IsHead
    <2>6. Starting(sessions, w, own[c], m, n)
      BY <1>6, <2>2, <2>3, <2>5 DEF Starting
    <2>7. Rotating(sessions, w, own[c], m, n)
      BY <1>6, <2>4, <2>6 DEF Rotating
    <2>8. BranchesFor(sessions, w, own[c])
      BY <1>6, <1>10, <2>7 DEF BranchesFor
    <2> QED  BY <1>2, <1>6, <2>8, BranchesStep
  <1> QED  BY <1>9, <1>10

\* WriteSession.
LEMMA WriteKeepsBranches ==
    ASSUME BranchesInv, IInv, NEW c \in Clients, WriteSession(c)
    PROVE  BranchesInv'
  <1> DEFINE v == work[c]
             h == Head(v.steps)
             O == own[c].sessions
             V == SessionsSeen(c)
             r == Merge(V[h.id], h.obj, Head(v.seen))
             X == With(O, h.id, r)
             o == WithSessions(own[c], X)
             w == Sent(v, Tail(v.steps))
  <1>1. ~Empty(v.steps) /\ h.op = "session" /\ Next1(c) = h /\ ~Empty(v.seen)
    BY OwesIs DEF WriteSession, Empty
  <1>2. own' = [own EXCEPT ![c] = o]
    BY <1>1, Running DEF WriteSession, With, SessionsSeen, WithSessions
  <1>3. UNCHANGED unwritten /\ Advance(c, <<>>)
    BY DEF WriteSession
  <1>4. work' = [work EXCEPT ![c] = w] /\ UNCHANGED <<sessions, races>>
    BY <1>1, <1>3, AdvanceByOne, Unwritten
  <1>5. o.sessions = X
    BY WritesSessions
  <1>6. /\ IsTable(sessions, nextId) /\ nextId \in Nat
        /\ IsRequest(v) /\ v # Idle /\ v.beside \in Nat /\ h \in Elements(v.steps)
        /\ Elements(v.steps) = {h} \cup Elements(Tail(v.steps))
        /\ v.said = "rotated" =>
             \E m \in DOMAIN sessions : \E n \in 1..MaxId : Rotating(sessions, v, own[c], m, n)
        /\ v.said # "rotated" => Sparing(sessions, v, own[c])
    BY <1>1, Sending
  <1>7. h.id \in DOMAIN sessions /\ h.obj \in Row /\ V[h.id] \in Row
    BY <1>1, SeenRow
  <1>8. /\ w.said = v.said /\ w.beside = v.beside
        /\ w.steps = Tail(v.steps) /\ w.seen = <<>>
    BY <1>6, RequestFields
  <1>9. /\ DOMAIN X = DOMAIN O \cup {h.id} /\ X[h.id] = r
        /\ \A i \in DOMAIN O : i # h.id => X[i] = O[i]
    BY DEF With, Overlay
  <1>10. V = Overlay(O, sessions)
    BY DEF SessionsSeen
  <1>11. /\ r.rotated = IF h.obj.rotated # Head(v.seen).rotated THEN h.obj.rotated ELSE V[h.id].rotated
    BY <1>7, MergeColumns
  <1>12. Rereads(v) /\ Leaves(sessions, v, own[c]) = r
    BY <1>1, <1>10 DEF Rereads, Sends, Leaves
  <1> HIDE DEF w, V, r, X, o
  <1>13. CASE v.said # "rotated"
    <2>1. Sparing(sessions, v, own[c])
      BY <1>6, <1>13
    <2>2. ~Rereads(w)
      BY <1>8 DEF Rereads, Empty
    <2>3. \A i \in DOMAIN o.sessions : i \in DOMAIN sessions \/ o.sessions[i].family = i
      BY <1>5, <1>7, <1>9, <2>1 DEF Sparing
    <2>4. \A s \in Elements(w.steps) : /\ s.op = "session" => s.obj.revoked # Never
                                       /\ s.op = "insert" => s.obj.family = s.id
      BY <1>6, <1>8, <2>1 DEF Sparing
    <2>5. Kept(sessions, own[c]) \subseteq DOMAIN sessions /\ IsFiniteSet(DOMAIN sessions)
      BY <1>6, FiniteTable DEF Kept
    <2>6. IsFiniteSet(Kept(sessions, own[c]))
      BY <2>5, FS_Subset
    <2>7. Cardinality(Kept(sessions, own[c])) + Doubt(sessions, v, own[c]) <= v.beside
      BY <2>1 DEF Sparing
    <2>8. Cardinality(Kept(sessions, o)) \in Nat /\ Cardinality(Kept(sessions, o)) <= v.beside
      <3>1. CASE IsHead(r)
        <4>1. Kept(sessions, o) \subseteq Kept(sessions, own[c]) \cup {h.id}
          BY <1>5, <1>9 DEF Kept
        <4>2. Doubt(sessions, v, own[c]) = 1
          BY <1>12, <3>1 DEF Doubt
        <4>3. /\ Cardinality(Kept(sessions, o)) \in Nat /\ Cardinality(Kept(sessions, own[c])) \in Nat
              /\ Cardinality(Kept(sessions, o)) <= Cardinality(Kept(sessions, own[c])) + 1
          BY <2>6, <4>1, OneMore
        <4> QED  BY <1>6, <2>7, <4>2, <4>3
      <3>2. CASE ~IsHead(r)
        <4>1. Kept(sessions, o) \subseteq Kept(sessions, own[c])
          BY <1>5, <1>9, <3>2 DEF Kept
        <4>2. Doubt(sessions, v, own[c]) = 0
          BY <1>12, <3>2 DEF Doubt
        <4>3. /\ Cardinality(Kept(sessions, o)) \in Nat /\ Cardinality(Kept(sessions, own[c])) \in Nat
              /\ Cardinality(Kept(sessions, o)) <= Cardinality(Kept(sessions, own[c]))
          BY <2>6, <4>1, Fewer
        <4> QED  BY <1>6, <2>7, <4>2, <4>3
      <3> QED  BY <3>1, <3>2
    <2>9. Doubt(sessions, w, o) = 0
      BY <2>2 DEF Doubt
    <2>10. Cardinality(Kept(sessions, o)) + Doubt(sessions, w, o) <= w.beside
      BY <1>6, <1>8, <2>8, <2>9
    <2>11. Sparing(sessions, w, o)
      BY <2>3, <2>4, <2>10 DEF Sparing
    <2>12. BranchesFor(sessions, w, o)
      BY <1>8, <1>13, <2>11 DEF BranchesFor
    <2> QED  BY <1>2, <1>4, <2>12, BranchesStep
  <1>14. CASE v.said = "rotated"
    <2>1. PICK m \in DOMAIN sessions, n \in 1..MaxId : Rotating(sessions, v, own[c], m, n)
      BY <1>6, <1>14
    <2>2. /\ Starting(sessions, v, own[c], m, n) /\ h.id = m /\ h.obj = v.steps[1].obj
          /\ Tail(v.steps) = <<InsertStep(n, v.steps[2].obj)>>
      BY <1>1, <2>1, RotatingHead
    <2>3. DOMAIN O = {}
      BY <2>2 DEF Starting, Empty
    <2>4. V[m] = sessions[m]
      <3>1. Overlay(O, sessions)[m] = sessions[m]
        BY <2>3 DEF Overlay
      <3> QED  BY <1>10, <3>1
    <2>5. IsHead(r) => v.beside >= 2
      <3>1. /\ h.obj.rotated # Never
            /\ Head(v.seen).rotated # Never =>
                  v.beside >= 1 /\ (sessions[m].rotated = Never => v.beside >= 2)
        BY <1>1, <2>2 DEF Starting
      <3>2. r.rotated = IF h.obj.rotated # Head(v.seen).rotated THEN h.obj.rotated ELSE sessions[m].rotated
        BY <1>11, <2>2, <2>4
      <3> QED  BY <3>1, <3>2 DEF IsHead
    <2> DEFINE y == v.steps[2].obj
    <2>6. Continues(sessions, m, y)
      BY <2>2 DEF Starting
    <2>7. w.steps = <<InsertStep(n, y)>>
      BY <1>8, <2>2
    <2> HIDE DEF y
    <2>8. Len(w.steps) = 1 /\ w.steps[1] = InsertStep(n, y)
      BY <2>7, Tuples
    <2>9. InsertStep(n, y).obj = y
      BY DEF InsertStep
    <2>10. DOMAIN o.sessions = {m} /\ o.sessions[m] = r
      BY <1>5, <1>9, <2>2, <2>3
    <2>11. Halfway(sessions, w, o, m, n)
      BY <1>8, <2>5, <2>6, <2>7, <2>8, <2>9, <2>10 DEF Halfway
    <2>12. Rotating(sessions, w, o, m, n)
      BY <1>8, <2>1, <2>11 DEF Rotating
    <2>13. BranchesFor(sessions, w, o)
      BY <1>8, <1>14, <2>12 DEF BranchesFor
    <2> QED  BY <1>2, <1>4, <2>13, BranchesStep
  <1> QED  BY <1>13, <1>14

\* InsertSession.
LEMMA InsertKeepsBranches ==
    ASSUME BranchesInv, IInv, NEW c \in Clients, InsertSession(c)
    PROVE  BranchesInv'
  <1> DEFINE v == work[c]
             h == Head(v.steps)
             O == own[c].sessions
             X == With(O, h.id, h.obj)
             o == WithSessions(own[c], X)
             w == Sent(v, Tail(v.steps))
  <1>1. ~Empty(v.steps) /\ h.op = "insert" /\ Next1(c) = h
    BY OwesIs DEF InsertSession
  <1>2. own' = [own EXCEPT ![c] = o]
    BY <1>1, Running DEF InsertSession, With, WithSessions
  <1>3. UNCHANGED unwritten /\ Advance(c, <<>>)
    BY DEF InsertSession
  <1>4. work' = [work EXCEPT ![c] = w] /\ UNCHANGED <<sessions, races>>
    BY <1>1, <1>3, AdvanceByOne, Unwritten
  <1>5. o.sessions = X
    BY WritesSessions
  <1>6. /\ Fine(sessions, v, own[c], nextId, ended, races)
        /\ IsTable(sessions, nextId) /\ nextId \in Nat
        /\ IsRequest(v) /\ v # Idle /\ v.beside \in Nat /\ h \in Elements(v.steps)
        /\ Elements(v.steps) = {h} \cup Elements(Tail(v.steps))
        /\ v.said = "rotated" =>
             \E m \in DOMAIN sessions : \E n \in 1..MaxId : Rotating(sessions, v, own[c], m, n)
        /\ v.said # "rotated" => Sparing(sessions, v, own[c])
    BY <1>1, Sending
  <1>7. /\ w.said = v.said /\ w.beside = v.beside
        /\ w.steps = Tail(v.steps) /\ w.seen = <<>>
    BY <1>6, RequestFields
  <1>8. /\ DOMAIN X = DOMAIN O \cup {h.id} /\ X[h.id] = h.obj
        /\ \A i \in DOMAIN O : i # h.id => X[i] = O[i]
    BY DEF With, Overlay
  <1>9. h.id \notin DOMAIN sessions
    BY <1>1, <1>6 DEF Fine, ClientOK, StepsOK
  <1> HIDE DEF w, X, o
  <1>10. CASE v.said # "rotated"
    <2>1. Sparing(sessions, v, own[c])
      BY <1>6, <1>10
    <2>2. Doubt(sessions, w, o) = 0
      BY <1>7 DEF Rereads, Empty, Doubt
    <2>3. h.obj.family = h.id
      BY <1>1, <1>6, <2>1 DEF Sparing
    <2>4. \A i \in DOMAIN o.sessions : i \in DOMAIN sessions \/ o.sessions[i].family = i
      BY <1>5, <1>8, <2>1, <2>3 DEF Sparing
    <2>5. \A s \in Elements(w.steps) : /\ s.op = "session" => s.obj.revoked # Never
                                       /\ s.op = "insert" => s.obj.family = s.id
      BY <1>6, <1>7, <2>1 DEF Sparing
    <2>6. Kept(sessions, o) \subseteq Kept(sessions, own[c])
      BY <1>5, <1>8, <1>9 DEF Kept
    <2> HIDE DEF v
    <2>7. Sparing(sessions, w, o)
      BY <1>6, <1>7, <2>1, <2>2, <2>4, <2>5, <2>6, SparingFewer
    <2>8. BranchesFor(sessions, w, o)
      BY <1>7, <1>10, <2>7 DEF BranchesFor
    <2> QED  BY <1>2, <1>4, <2>8, BranchesStep
  <1>11. CASE v.said = "rotated"
    <2>1. PICK m \in DOMAIN sessions, n \in 1..MaxId : Rotating(sessions, v, own[c], m, n)
      BY <1>6, <1>11
    <2>2. /\ Halfway(sessions, v, own[c], m, n) /\ h.id = n /\ h.obj = v.steps[1].obj
          /\ Tail(v.steps) = <<>>
      BY <1>1, <2>1, RotatingHead
    <2>3. /\ Continues(sessions, m, h.obj) /\ DOMAIN O = {m}
          /\ IsHead(O[m]) => v.beside >= 2
      BY <2>2 DEF Halfway
    <2>4. n # m /\ (v.beside = 0 => IsHead(sessions[m]))
      BY <2>1 DEF Rotating
    <2>5. DOMAIN o.sessions = {m, n} /\ o.sessions[n] = h.obj /\ o.sessions[m] = O[m]
      BY <1>5, <1>8, <2>2, <2>3, <2>4
    <2>6. Written(sessions, w, o, m, n)
      BY <1>7, <2>2, <2>3, <2>5 DEF Written, Empty
    <2>7. Rotating(sessions, w, o, m, n)
      BY <1>7, <2>4, <2>6 DEF Rotating
    <2>8. BranchesFor(sessions, w, o)
      BY <1>7, <1>11, <2>7 DEF BranchesFor
    <2> QED  BY <1>2, <1>4, <2>8, BranchesStep
  <1> QED  BY <1>10, <1>11

\* Revoke leaves nothing usable.
LEMMA RevokeKeepsBranches ==
    ASSUME BranchesInv, IInv, NEW c \in Clients, Revoke(c)
    PROVE  BranchesInv'
  <1> DEFINE v == work[c]
             O == own[c].sessions
             P == Head(v.seen)
             V == Overlay(O, sessions)
             X == Overlay([i \in P |-> Revoked(V[i], v.now)], O)
             o == WithSessions(own[c], X)
             w == Sent(v, Tail(v.steps))
  <1>1. ~Empty(v.steps) /\ Head(v.steps).op = "revoke"
    BY OwesIs DEF Revoke
  <1>2. ~Empty(v.seen)
    BY DEF Revoke, Empty
  <1>3. own' = [own EXCEPT ![c] = o]
    BY Running DEF Revoke, SessionsSeen, WithSessions
  <1>4. UNCHANGED unwritten /\ Advance(c, <<>>)
    BY DEF Revoke
  <1>5. work' = [work EXCEPT ![c] = w] /\ UNCHANGED <<sessions, races>>
    BY <1>1, <1>4, AdvanceByOne, Unwritten
  <1>6. o.sessions = X
    BY WritesSessions
  <1>7. /\ Fine(sessions, v, own[c], nextId, ended, races)
        /\ IsTable(sessions, nextId) /\ nextId \in Nat
        /\ IsRequest(v) /\ v # Idle /\ v.beside \in Nat
        /\ Elements(v.steps) = {Head(v.steps)} \cup Elements(Tail(v.steps))
        /\ v.said # "rotated" => Sparing(sessions, v, own[c])
        /\ v.said # "rotated"
    BY <1>1, Sending
  <1>8. /\ w.said = v.said /\ w.beside = v.beside
        /\ w.steps = Tail(v.steps) /\ w.seen = <<>>
    BY <1>7, RequestFields
  <1>9. P = Picks(v)
    BY <1>1, <1>2 DEF Picks, Sends
  <1>10. P \subseteq DOMAIN V /\ IsTable(O, nextId)
    BY <1>7, <1>9 DEF Fine, ClientOK
  <1>11. DOMAIN V = DOMAIN O \cup DOMAIN sessions
         /\ \A i \in DOMAIN V : V[i] = IF i \in DOMAIN O THEN O[i] ELSE sessions[i]
    BY DEF Overlay
  <1>12. DOMAIN X = P \cup DOMAIN O
         /\ \A i \in DOMAIN X : X[i] = IF i \in P THEN Revoked(V[i], v.now) ELSE O[i]
    BY DEF Overlay
  <1> HIDE DEF V, X, o, w, P
  <1>13. \A i \in DOMAIN V : V[i] \in Row
    BY <1>7, <1>10, <1>11 DEF IsTable
  <1>14. \A i \in P : X[i].revoked # Never /\ X[i].family = V[i].family
    <2>1. v.now \in Nat \ {0}
      BY <1>7 DEF IsRequest
    <2>2. \A i \in P : X[i] = Revoked(V[i], v.now) /\ V[i] \in Row
      BY <1>10, <1>12, <1>13
    <2> HIDE DEF v
    <2> QED  BY <2>1, <2>2, RevokedRow
  <1>15. Sparing(sessions, v, own[c])
    BY <1>7
  <1>16. \A i \in DOMAIN o.sessions : i \in DOMAIN sessions \/ o.sessions[i].family = i
    <2>1. \A i \in DOMAIN O : i \in DOMAIN sessions \/ O[i].family = i
      BY <1>15 DEF Sparing
    <2>2. \A i \in P : i \in DOMAIN sessions \/ V[i].family = i
      BY <1>10, <1>11, <2>1
    <2> QED  BY <1>6, <1>12, <1>14, <2>1, <2>2
  <1>17. \A s \in Elements(w.steps) : /\ s.op = "session" => s.obj.revoked # Never
                                      /\ s.op = "insert" => s.obj.family = s.id
    BY <1>7, <1>8, <1>15 DEF Sparing
  <1>18. Kept(sessions, o) \subseteq Kept(sessions, own[c])
    BY <1>6, <1>12, <1>14 DEF Kept, IsHead
  <1>19. Doubt(sessions, w, o) = 0
    BY <1>8 DEF Rereads, Empty, Doubt
  <1> HIDE DEF v
  <1>20. Sparing(sessions, w, o)
    BY <1>7, <1>8, <1>15, <1>16, <1>17, <1>18, <1>19, SparingFewer
  <1>21. BranchesFor(sessions, w, o)
    BY <1>7, <1>8, <1>20 DEF BranchesFor
  <1> QED  BY <1>3, <1>5, <1>21, BranchesStep

\* WriteUser, WriteFactor, Discard and Leave.
LEMMA OtherWritesKeepBranches ==
    ASSUME BranchesInv, IInv, NEW c \in Clients,
           WriteUser(c) \/ WriteFactor(c) \/ Discard(c) \/ Leave(c)
    PROVE  BranchesInv'
  <1> DEFINE v == work[c]
             w == Sent(v, Tail(v.steps))
  <1>1. IsWrite(own[c]) /\ own = [d \in Clients |-> own[d]]
    BY WriteOf, Running
  <1>2. /\ ~Empty(v.steps) /\ Head(v.steps).op \notin {"session", "insert"}
        /\ Advance(c, <<>>) /\ UNCHANGED unwritten
    BY OwesIs DEF WriteUser, WriteFactor, Discard, Leave
  <1>3. \E o : own' = [own EXCEPT ![c] = o] /\ o.sessions = own[c].sessions
    <2>1. \A x : [own[c] EXCEPT !.left = x].sessions = own[c].sessions
                 /\ [own[c] EXCEPT !.user = x].sessions = own[c].sessions
      BY <1>1 DEF IsWrite
    <2>2. \A x, y : WithFactors(own[c], x, y).sessions = own[c].sessions
      BY <1>1, WriteFields
    <2>3. CASE WriteUser(c)
      <3>1. PICK x : own' = [own EXCEPT ![c] = [own[c] EXCEPT !.user = x]]
        BY <1>1, <2>3 DEF WriteUser
      <3> QED  BY <2>1, <3>1
    <2>4. CASE Leave(c)
      <3>1. own' = [own EXCEPT ![c] = [own[c] EXCEPT !.left = TRUE]]
        BY <1>1, <2>4 DEF Leave
      <3> QED  BY <2>1, <3>1
    <2>5. CASE Discard(c)
      <3>1. own' = [own EXCEPT ![c] = WithFactors(own[c], factors, Next1(c).added)]
        BY <1>1, <2>5 DEF Discard, WithFactors
      <3> QED  BY <2>2, <3>1
    <2>6. CASE WriteFactor(c)
      <3>1. own' = [own EXCEPT ![c] = Consuming(own[c], Next1(c))]
        BY <1>1, <2>6 DEF WriteFactor, Consuming, WithFactors
      <3> QED  BY <2>2, <3>1 DEF Consuming
    <2> QED  BY <2>3, <2>4, <2>5, <2>6
  <1>4. PICK o : own' = [own EXCEPT ![c] = o] /\ o.sessions = own[c].sessions
    BY <1>3
  <1>5. work' = [work EXCEPT ![c] = w] /\ UNCHANGED <<sessions, races>>
    BY <1>2, AdvanceByOne, Unwritten
  <1>6. /\ IsTable(sessions, nextId) /\ nextId \in Nat
        /\ IsRequest(v) /\ v # Idle /\ v.beside \in Nat
        /\ Elements(v.steps) = {Head(v.steps)} \cup Elements(Tail(v.steps))
        /\ v.said # "rotated" => Sparing(sessions, v, own[c])
        /\ v.said # "rotated"
    BY <1>2, Sending
  <1>7. /\ w.said = v.said /\ w.beside = v.beside
        /\ w.steps = Tail(v.steps) /\ w.seen = <<>>
    BY <1>6, RequestFields
  <1> HIDE DEF w
  <1>8. Sparing(sessions, v, own[c])
    BY <1>6
  <1>9. /\ \A s \in Elements(w.steps) : /\ s.op = "session" => s.obj.revoked # Never
                                        /\ s.op = "insert" => s.obj.family = s.id
        /\ \A i \in DOMAIN o.sessions : i \in DOMAIN sessions \/ o.sessions[i].family = i
    BY <1>4, <1>6, <1>7, <1>8 DEF Sparing
  <1>10. Kept(sessions, o) \subseteq Kept(sessions, own[c])
    BY <1>4 DEF Kept
  <1>11. Doubt(sessions, w, o) = 0
    BY <1>7 DEF Rereads, Empty, Doubt
  <1> HIDE DEF v
  <1>12. Sparing(sessions, w, o)
    BY <1>6, <1>7, <1>8, <1>9, <1>10, <1>11, SparingFewer
  <1>13. BranchesFor(sessions, w, o)
    BY <1>6, <1>7, <1>12 DEF BranchesFor
  <1> QED  BY <1>4, <1>5, <1>13, BranchesStep

\* The sessions that make room are revoked, and the new one starts a family.
LEMMA CapKeepsBranches ==
    ASSUME BranchesInv, IInv, NEW c \in Clients, EnforceCap(c)
    PROVE  BranchesInv'
  <1> DEFINE v == work[c]
             V == SessionsSeen(c)
  <1>1. PICK S : /\ work' = [work EXCEPT ![c] = Sent(v, S)]
                 /\ CapLeaves(S, V, v.now, nextId)
    BY CapIsSent
  <1> DEFINE w == Sent(v, S)
  <1>2. ~Empty(v.steps) /\ Head(v.steps).op = "cap"
    BY OwesIs DEF EnforceCap
  <1>3. own' = [own EXCEPT ![c] = own[c]] /\ UNCHANGED <<sessions, races>>
    BY Running DEF EnforceCap, unwritten, account, history
  <1>4. /\ IsTable(sessions, nextId) /\ nextId \in Nat
        /\ IsTable(own[c].sessions, nextId)
        /\ IsRequest(v) /\ v # Idle /\ v.beside \in Nat
        /\ v.said # "rotated" => Sparing(sessions, v, own[c])
        /\ v.said # "rotated"
    BY <1>2, Sending DEF Fine
  <1>5. /\ w.said = v.said /\ w.beside = v.beside /\ w.steps = S /\ w.seen = <<>>
        /\ work' = [work EXCEPT ![c] = w]
    BY <1>1, <1>4, RequestFields
  <1>6. DOMAIN V = DOMAIN own[c].sessions \cup DOMAIN sessions
        /\ \A i \in DOMAIN V :
              V[i] = IF i \in DOMAIN own[c].sessions THEN own[c].sessions[i] ELSE sessions[i]
    BY DEF SessionsSeen, Overlay
  <1> HIDE DEF w, V
  <1>7. \A i \in Actives(V, v.now) : Revoked(V[i], v.now).revoked # Never
    <2>1. \A i \in Actives(V, v.now) : V[i] \in Row
      BY <1>4, <1>6 DEF IsTable, Actives
    <2>2. v.now \in Nat \ {0}
      BY <1>4 DEF IsRequest
    <2> HIDE DEF v
    <2> QED  BY <2>1, <2>2, RevokedRow
  <1>8. Sparing(sessions, v, own[c])
    BY <1>4
  <1>9. \A s \in Elements(w.steps) : /\ s.op = "session" => s.obj.revoked # Never
                                     /\ s.op = "insert" => s.obj.family = s.id
    <2>1. \A s \in Elements(S) : \/ s = InsertStep(nextId, Start(nextId, v.now))
                                 \/ \E i \in Actives(V, v.now) : s = SessionStep(i, Revoked(V[i], v.now))
      BY <1>1 DEF CapLeaves
    <2>2. \A i, s : /\ SessionStep(i, s).op = "session" /\ SessionStep(i, s).obj = s
                    /\ InsertStep(i, s).op = "insert" /\ InsertStep(i, s).obj = s
                    /\ InsertStep(i, s).id = i
      BY DEF SessionStep, InsertStep
    <2>3. Start(nextId, v.now).family = nextId
      BY DEF Start
    <2> QED  BY <1>5, <1>7, <2>1, <2>2, <2>3
  <1>10. /\ \A i \in DOMAIN own[c].sessions : i \in DOMAIN sessions \/ own[c].sessions[i].family = i
         /\ Kept(sessions, own[c]) \subseteq Kept(sessions, own[c])
    BY <1>8 DEF Sparing
  <1>11. Doubt(sessions, w, own[c]) = 0
    BY <1>5 DEF Rereads, Empty, Doubt
  <1> HIDE DEF v
  <1>12. Sparing(sessions, w, own[c])
    BY <1>4, <1>5, <1>8, <1>9, <1>10, <1>11, SparingFewer
  <1>13. BranchesFor(sessions, w, own[c])
    BY <1>4, <1>5, <1>12 DEF BranchesFor
  <1> QED  BY <1>3, <1>5, <1>13, BranchesStep

\* Fail.
LEMMA FailKeepsBranches ==
    ASSUME BranchesInv, IInv, NEW c \in Clients, Fail(c)
    PROVE  BranchesInv'
  <1>1. /\ work' = [work EXCEPT ![c] = Idle] /\ own' = [own EXCEPT ![c] = Nothing]
        /\ UNCHANGED <<sessions, races>>
    BY DEF Fail, Release, account, history
  <1>2. BranchesFor(sessions, Idle, Nothing)
    BY DEF BranchesFor
  <1> QED  BY <1>1, <1>2, BranchesStep

\* What a commit makes of the rows.
LEMMA CommitTable ==
    ASSUME IInv, NEW c \in Clients, Commit(c)
    PROVE  LET O == own[c].sessions
           IN /\ work[c] # Idle /\ IsRequest(work[c]) /\ Empty(work[c].steps)
              /\ work[c].beside \in Nat /\ races \in Nat /\ races' = races + work[c].beside
              /\ Lineage(sessions) /\ IsTable(sessions, nextId) /\ nextId \in Nat
              /\ DOMAIN sessions' = DOMAIN O \cup DOMAIN sessions
              /\ \A i \in DOMAIN O : sessions'[i] = O[i]
              /\ \A i \in DOMAIN sessions : i \notin DOMAIN O => sessions'[i] = sessions[i]
              /\ \A i \in DOMAIN sessions : /\ sessions'[i].family = sessions[i].family
                                            /\ sessions'[i].expires = sessions[i].expires
              /\ \A d \in Clients : d # c =>
                    \A i \in DOMAIN own[d].sessions : i \in DOMAIN O => i \in DOMAIN sessions
  <1> DEFINE O == own[c].sessions
  <1>1. /\ Fine(sessions, work[c], own[c], nextId, ended, races)
        /\ Stored(sessions, nextId, ended, races) /\ nextId \in Nat /\ races \in Nat
    BY Running DEF IInv, Numbers
  <1>2. work[c] # Idle /\ Empty(work[c].steps) /\ IsRequest(work[c]) /\ races' = races + work[c].beside
    BY Overtaking
  <1>3. sessions' = Overlay(O, sessions)
    BY DEF Commit, SessionsSeen
  <1>4. /\ DOMAIN sessions' = DOMAIN O \cup DOMAIN sessions
        /\ \A i \in DOMAIN O : sessions'[i] = O[i]
        /\ \A i \in DOMAIN sessions : i \notin DOMAIN O => sessions'[i] = sessions[i]
    BY <1>3 DEF Overlay
  <1>5. \A i \in DOMAIN O : Kin(sessions, O[i], i)
    BY <1>1 DEF Fine, ClientOK, RowsOK, RowOK
  <1>6. \A i \in DOMAIN sessions : /\ sessions'[i].family = sessions[i].family
                                   /\ sessions'[i].expires = sessions[i].expires
    BY <1>4, <1>5 DEF Kin
  <1>7. ASSUME NEW d \in Clients, d # c, NEW i \in DOMAIN own[d].sessions, i \in DOMAIN O
        PROVE  i \in DOMAIN sessions
    <2>1. GivenTo(sessions, work[c], own[c]) \cap GivenTo(sessions, work[d], own[d]) = {}
      BY <1>7 DEF IInv, Apart
    <2> QED  BY <1>7, <2>1 DEF GivenTo, Given
  <1>8. Lineage(sessions) /\ IsTable(sessions, nextId) /\ work[c].beside \in Nat
    BY <1>1, <1>2 DEF Stored, IsRequest
  <1> QED  BY <1>1, <1>2, <1>4, <1>6, <1>7, <1>8

\* A commit adds no more branches to a family than were committed beside it.
LEMMA CommitHeads ==
    ASSUME BranchesInv, IInv, NEW c \in Clients, Commit(c), NEW f \in Nat
    PROVE  Cardinality(HeadsOf(sessions', f)) <= 1 + races'
  <1> DEFINE T == sessions
             T1 == sessions'
             w == work[c]
             o == own[c]
             O == o.sessions
             A == HeadsOf(T, f)
             B == HeadsOf(T1, f)
  <1>0. SUFFICES Cardinality(B) <= 1 + races'
    OBVIOUS
  <1>1. /\ w # Idle /\ Empty(w.steps) /\ w.beside \in Nat /\ races \in Nat
        /\ races' = races + w.beside
        /\ Lineage(T) /\ IsTable(T, nextId) /\ nextId \in Nat
        /\ DOMAIN T1 = DOMAIN O \cup DOMAIN T
        /\ \A i \in DOMAIN O : T1[i] = O[i]
        /\ \A i \in DOMAIN T : i \notin DOMAIN O => T1[i] = T[i]
        /\ \A i \in DOMAIN T : T1[i].family = T[i].family
    BY CommitTable
  <1>2. Cardinality(A) <= 1 + races /\ BranchesFor(T, w, o)
    BY DEF BranchesInv
  <1> HIDE DEF T1, w, o
  <1>3. IsFiniteSet(A) /\ IsFiniteSet(Kept(T, o)) /\ IsFiniteSet(DOMAIN T)
    <2>1. A \subseteq DOMAIN T /\ Kept(T, o) \subseteq DOMAIN T
      BY DEF HeadsOf, Kept
    <2>2. IsFiniteSet(DOMAIN T)
      BY <1>1, FiniteTable
    <2> QED  BY <2>1, <2>2, FS_Subset
  <1>4. \A i \in B : \/ i \in A
                     \/ i \in DOMAIN O /\ IsHead(O[i]) /\ O[i].family = f
    BY <1>1 DEF HeadsOf
  <1>5. CASE w.said # "rotated"
    <2>1. Sparing(T, w, o)
      BY <1>1, <1>2, <1>5 DEF BranchesFor
    <2>2. CASE f \in DOMAIN O /\ f \notin DOMAIN T
      <3>1. \A i \in DOMAIN T : T[i].family # f
        BY <1>1, <2>2 DEF Lineage
      <3>2. B \subseteq {f}
        BY <1>1, <2>1, <3>1 DEF HeadsOf, Sparing
      <3>3. IsFiniteSet({f}) /\ Cardinality({f}) = 1
        BY FS_Singleton
      <3>4. Cardinality(B) \in Nat /\ Cardinality(B) <= 1
        BY <3>2, <3>3, Fewer
      <3> QED  BY <1>1, <3>4
    <2>3. CASE ~(f \in DOMAIN O /\ f \notin DOMAIN T)
      <3>1. B \subseteq A \cup Kept(T, o)
        <4>1. ASSUME NEW i \in B, i \notin A PROVE i \in Kept(T, o)
          <5>1. i \in DOMAIN O /\ IsHead(O[i]) /\ O[i].family = f
            BY <1>4, <4>1
          <5>2. i \in DOMAIN T \/ O[i].family = i
            BY <2>1, <5>1 DEF Sparing
          <5> QED  BY <2>3, <5>1, <5>2 DEF Kept
        <4> QED  BY <4>1
      <3> DEFINE K == Kept(T, o)
      <3>2. Cardinality(K) + Doubt(T, w, o) <= w.beside /\ Doubt(T, w, o) \in {0, 1}
        BY <2>1 DEF Sparing, Doubt
      <3> HIDE DEF K, A, B
      <3>3. /\ Cardinality(B) \in Nat /\ Cardinality(A) \in Nat /\ Cardinality(K) \in Nat
            /\ Cardinality(B) <= Cardinality(A) + Cardinality(K)
        BY <1>3, <3>1, UpTo DEF K
      <3> QED  BY <1>1, <1>2, <3>2, <3>3
    <2> QED  BY <2>2, <2>3
  <1>6. CASE w.said = "rotated"
    <2>1. PICK m \in DOMAIN T, n \in 1..MaxId : Rotating(T, w, o, m, n)
      BY <1>1, <1>2, <1>6 DEF BranchesFor
    <2>2. Written(T, w, o, m, n)
      BY <1>1, <2>1 DEF Rotating, Starting, Halfway, Empty
    <2>3. /\ DOMAIN O = {m, n} /\ O[n].family = T[m].family /\ (IsHead(O[m]) => w.beside >= 2)
          /\ n # m /\ (w.beside = 0 => IsHead(T[m]))
          /\ O[m].family = T[m].family
      BY <1>1, <2>1, <2>2 DEF Written, Rotating, Continues
    <2>4. CASE T[m].family # f
      <3>1. B \subseteq A
        BY <1>4, <2>3, <2>4
      <3>2. /\ Cardinality(B) \in Nat /\ Cardinality(A) \in Nat
            /\ Cardinality(B) <= Cardinality(A)
        BY <1>3, <3>1, Fewer
      <3> QED  BY <1>1, <1>2, <3>2
    <2>5. CASE T[m].family = f /\ w.beside = 0
      <3>1. m \in A
        BY <2>3, <2>5 DEF HeadsOf
      <3>2. m \notin B
        BY <1>1, <2>3, <2>5 DEF HeadsOf
      <3>3. B \subseteq (A \ {m}) \cup {n}
        BY <1>4, <2>3, <3>2
      <3> HIDE DEF A, B
      <3>4. /\ Cardinality(B) \in Nat /\ Cardinality(A) \in Nat
            /\ Cardinality(B) <= Cardinality(A)
        BY <1>3, <3>1, <3>3, Replaced
      <3> QED  BY <1>1, <1>2, <3>4
    <2>6. CASE w.beside = 1
      <3>1. ~IsHead(O[m])
        BY <2>3, <2>6
      <3>2. B \subseteq A \cup {n}
        BY <1>4, <2>3, <3>1
      <3> HIDE DEF A, B
      <3>3. /\ Cardinality(B) \in Nat /\ Cardinality(A) \in Nat
            /\ Cardinality(B) <= Cardinality(A) + 1
        BY <1>3, <3>2, OneMore
      <3> QED  BY <1>1, <1>2, <2>6, <3>3
    <2>7. CASE w.beside >= 2
      <3>1. B \subseteq A \cup {m, n}
        BY <1>4, <2>3
      <3> HIDE DEF A, B
      <3>2. /\ Cardinality(B) \in Nat /\ Cardinality(A) \in Nat
            /\ Cardinality(B) <= Cardinality(A) + 2
        BY <1>3, <3>1, TwoMore
      <3> QED  BY <1>1, <1>2, <2>7, <3>2
    <2> QED  BY <1>1, <2>4, <2>5, <2>6, <2>7
  <1> QED  BY <1>5, <1>6

\* What is still running may leave one session more.
LEMMA OvertakenBranches ==
    ASSUME IInv, NEW c \in Clients, Commit(c), NEW d \in Clients, d # c, work[d] # Idle,
           BranchesFor(sessions, work[d], own[d])
    PROVE  BranchesFor(sessions', Overtaken(work[d]), own[d])
  <1> DEFINE T == sessions
             T1 == sessions'
             v == work[d]
             w == Overtaken(v)
             o == own[d]
             O == own[c].sessions
  <1>1. /\ IsTable(T, nextId) /\ nextId \in Nat
        /\ DOMAIN T1 = DOMAIN O \cup DOMAIN T
        /\ \A i \in DOMAIN T : T1[i].family = T[i].family /\ T1[i].expires = T[i].expires
        /\ \A i \in DOMAIN o.sessions : i \in DOMAIN O => i \in DOMAIN T
    BY CommitTable
  <1>2. IsRequest(v)
    BY Overtaking
  <1>3. /\ w.said = v.said /\ w.beside = v.beside + 1 /\ v.beside \in Nat
        /\ w.steps = v.steps /\ w.seen = v.seen
    BY <1>2, RequestFields
  <1>4. BranchesFor(T, v, o)
    OBVIOUS
  <1>5. v # Idle
    OBVIOUS
  <1> HIDE DEF T1, w, v, o
  <1>6. CASE v.said # "rotated"
    <2>1. Sparing(T, v, o)
      BY <1>4, <1>5, <1>6 DEF BranchesFor
    <2>2. Kept(T1, o) \subseteq Kept(T, o)
      BY <1>1 DEF Kept
    <2>3. Kept(T, o) \subseteq DOMAIN T /\ IsFiniteSet(DOMAIN T)
      BY <1>1, FiniteTable DEF Kept
    <2>4. IsFiniteSet(Kept(T, o))
      BY <2>3, FS_Subset
    <2>5. /\ Cardinality(Kept(T1, o)) \in Nat /\ Cardinality(Kept(T, o)) \in Nat
          /\ Cardinality(Kept(T1, o)) <= Cardinality(Kept(T, o))
      BY <2>2, <2>4, Fewer
    <2>6. Doubt(T, v, o) \in {0, 1} /\ Cardinality(Kept(T, o)) + Doubt(T, v, o) <= v.beside
          /\ Doubt(T1, w, o) \in {0, 1}
      BY <2>1 DEF Doubt, Sparing
    <2>7. Cardinality(Kept(T1, o)) + Doubt(T1, w, o) <= w.beside
      BY <1>3, <2>5, <2>6
    <2>8. Sparing(T1, w, o)
      BY <1>1, <1>3, <2>1, <2>7 DEF Sparing
    <2> QED  BY <1>3, <1>6, <2>8 DEF BranchesFor, T1, w, v, o
  <1>7. CASE v.said = "rotated"
    <2>1. PICK m \in DOMAIN T, n \in 1..MaxId : Rotating(T, v, o, m, n)
      BY <1>4, <1>5, <1>7 DEF BranchesFor
    <2>2. m \in DOMAIN T1 /\ \A r : Continues(T, m, r) => Continues(T1, m, r)
      BY <1>1 DEF Continues
    <2>3. n # m /\ w.beside # 0
      BY <1>3, <2>1 DEF Rotating
    <2>4. ASSUME Starting(T, v, o, m, n) PROVE Rotating(T1, w, o, m, n)
      <3>1. ~Empty(w.seen) /\ Head(w.seen).rotated # Never => w.beside >= 2
        BY <1>3, <2>4 DEF Starting
      <3>2. Starting(T1, w, o, m, n)
        BY <1>3, <2>2, <2>4, <3>1 DEF Starting
      <3> QED  BY <2>3, <3>2 DEF Rotating
    <2>5. ASSUME Halfway(T, v, o, m, n) PROVE Rotating(T1, w, o, m, n)
      <3>1. Halfway(T1, w, o, m, n)
        BY <1>3, <2>2, <2>5 DEF Halfway
      <3> QED  BY <2>3, <3>1 DEF Rotating
    <2>6. ASSUME Written(T, v, o, m, n) PROVE Rotating(T1, w, o, m, n)
      <3>1. Written(T1, w, o, m, n)
        BY <1>3, <2>2, <2>6 DEF Written
      <3> QED  BY <2>3, <3>1 DEF Rotating
    <2>7. Starting(T, v, o, m, n) \/ Halfway(T, v, o, m, n) \/ Written(T, v, o, m, n)
      BY <2>1 DEF Rotating
    <2>8. Rotating(T1, w, o, m, n)
      BY <2>3, <2>4, <2>5, <2>6, <2>7 DEF Rotating
    <2> QED  BY <1>3, <1>7, <2>2, <2>8 DEF BranchesFor, T1, w, v, o
  <1> QED  BY <1>6, <1>7

\* Commit.
LEMMA CommitKeepsBranches ==
    ASSUME BranchesInv, IInv, NEW c \in Clients, Commit(c)
    PROVE  BranchesInv'
  <1>1. \A f \in Nat : Cardinality(HeadsOf(sessions', f)) <= 1 + races'
    BY CommitHeads
  <1>2. /\ work'[c] = Idle /\ own'[c] = Nothing
        /\ \A d \in Clients : d # c => own'[d] = own[d]
        /\ \A d \in Clients : d # c /\ work[d] = Idle => work'[d] = Idle
        /\ \A d \in Clients : d # c /\ work[d] # Idle => work'[d] = Overtaken(work[d])
    BY Overtaking
  <1>3. ASSUME NEW d \in Clients PROVE BranchesFor(sessions', work'[d], own'[d])
    <2>1. CASE work'[d] = Idle
      BY <2>1 DEF BranchesFor
    <2>2. CASE d # c /\ work[d] # Idle
      <3>1. BranchesFor(sessions, work[d], own[d])
        BY DEF BranchesInv
      <3>2. BranchesFor(sessions', Overtaken(work[d]), own[d])
        BY <2>2, <3>1, OvertakenBranches
      <3> QED  BY <1>2, <2>2, <3>2
    <2> QED  BY <1>2, <2>1, <2>2
  <1> QED  BY <1>1, <1>3 DEF BranchesInv

\* One session is one branch.
LEMMA BranchesStart == Init => BranchesInv
  <1> SUFFICES ASSUME Init PROVE BranchesInv
    OBVIOUS
  <1>1. sessions = <<Start(1, 1)>> /\ races = 0 /\ work = [c \in Clients |-> Idle]
    BY DEF Init
  <1>2. ASSUME NEW f \in Nat PROVE Cardinality(HeadsOf(sessions, f)) <= 1 + races
    <2>1. HeadsOf(sessions, f) \subseteq {1}
      BY <1>1 DEF HeadsOf
    <2>2. IsFiniteSet({1}) /\ Cardinality({1}) = 1
      BY FS_Singleton
    <2>3. /\ Cardinality(HeadsOf(sessions, f)) \in Nat
          /\ Cardinality(HeadsOf(sessions, f)) <= 1
      BY <2>1, <2>2, Fewer
    <2> QED  BY <1>1, <2>3
  <1>3. \A c \in Clients : BranchesFor(sessions, work[c], own[c])
    BY <1>1 DEF BranchesFor
  <1> QED  BY <1>2, <1>3 DEF BranchesInv

\* Every step keeps the branches within what the overlaps explain.
LEMMA BranchesSteps == BranchesInv /\ IInv /\ [Next]_vars => BranchesInv'
  <1> SUFFICES ASSUME BranchesInv, IInv, [Next]_vars PROVE BranchesInv'
    OBVIOUS
  <1>1. ASSUME NEW c \in Clients, Begins(c) PROVE BranchesInv'
    BY <1>1, BeginKeepsBranches
  <1>2. ASSUME NEW c \in Clients, Reread(c) \/ PickRows(c) PROVE BranchesInv'
    BY <1>2, ReadKeepsBranches
  <1>3. ASSUME NEW c \in Clients, WriteUser(c) \/ WriteFactor(c) \/ Discard(c) \/ Leave(c)
        PROVE  BranchesInv'
    BY <1>3, OtherWritesKeepBranches
  <1>4. ASSUME NEW c \in Clients, WriteSession(c) PROVE BranchesInv'
    BY <1>4, WriteKeepsBranches
  <1>5. ASSUME NEW c \in Clients, InsertSession(c) PROVE BranchesInv'
    BY <1>5, InsertKeepsBranches
  <1>6. ASSUME NEW c \in Clients, Revoke(c) PROVE BranchesInv'
    BY <1>6, RevokeKeepsBranches
  <1>7. ASSUME NEW c \in Clients, EnforceCap(c) PROVE BranchesInv'
    BY <1>7, CapKeepsBranches
  <1>8. ASSUME NEW c \in Clients, Commit(c) PROVE BranchesInv'
    BY <1>8, CommitKeepsBranches
  <1>9. ASSUME NEW c \in Clients, Fail(c) PROVE BranchesInv'
    BY <1>9, FailKeepsBranches
  <1>10. CASE Tick \/ UNCHANGED vars
    <2>1. UNCHANGED <<work, own, sessions, races>>
      BY <1>10 DEF Tick, vars, account, history
    <2> QED  BY <2>1 DEF BranchesInv
  <1> QED
    BY <1>1, <1>2, <1>3, <1>4, <1>5, <1>6, <1>7, <1>8, <1>9, <1>10 DEF Next, Begins

\* Rotation: whichever requests overlap, a family has one usable token, and one
\* more for each overlap at most.
THEOREM OneBranchAlways == Spec => []OneBranchPerRace
  <1>1. BranchesInv => OneBranchPerRace
    <2>1. \A f : Heads(f) = HeadsOf(sessions, f)
      BY DEF Heads, HeadsOf, IsHead
    <2>2. 1..MaxId \subseteq Nat
      OBVIOUS
    <2> QED  BY <2>1, <2>2 DEF BranchesInv, OneBranchPerRace
  <1> QED  BY <1>1, BranchesStart, BranchesSteps, AlwaysIInv, PTL DEF Spec

-----------------------------------------------------------------------------
(* The cap on live sessions                                                 *)

SignsIn(w) == w.said \in {"tokens", "recovered"}

\* _enforce_session_cap has run.
Capped(w) == \A s \in Elements(w.steps) : s.op \in {"session", "insert"}

Planned(w)   == {s.id : s \in {t \in Elements(w.steps) : t.op = "session"}}
Announced(w) == {s.id : s \in {t \in Elements(w.steps) : t.op = "insert"}}

\* The sessions that can be used once the request has written what it plans.
Untouched(T, w, o, now) ==
    {i \in DOMAIN Overlay(o.sessions, T) \ Planned(w) : Active(Overlay(o.sessions, T)[i], now)}
Doubtful(T, w, o, now) ==
    IF Rereads(w) /\ Active(Leaves(T, w, o), now) THEN {Head(w.steps).id} ELSE {}
Usable(T, w, o, now) == Untouched(T, w, o, now) \cup Announced(w) \cup Doubtful(T, w, o, now)

\* A sign-in holds the user's row when it counts, and until it commits.
Waits(w, o) ==
    /\ Empty(o.sessions) /\ \E s \in Elements(w.steps) : s.op = "cap"
    /\ \A s \in Elements(w.steps) : s.op \in {"factor", "user", "cap"}
    /\ ~Empty(o.user) \/ \E s \in Elements(w.steps) : s.op = "user"

MakesRoom(T, w, o, now, z) ==
    /\ ~Empty(o.user)
    /\ Cardinality(Usable(T, w, o, now)) <= MaxSessions + z + w.beside

\* Any other request but a refresh leaves no session usable.
Revokes(w, o) ==
    /\ \A s \in Elements(w.steps) : s.op \notin {"session", "insert", "cap"}
    /\ \A i \in DOMAIN o.sessions : o.sessions[i].revoked # Never

LiveFor(T, w, o, now, z) ==
    w # Idle =>
        /\ w.now <= now
        /\ SignsIn(w) => IF Capped(w) THEN MakesRoom(T, w, o, now, z) ELSE Waits(w, o)
        /\ ~SignsIn(w) /\ w.said # "rotated" => Revokes(w, o)

LiveInv ==
    /\ Cardinality(Actives(sessions, clock)) <= MaxSessions + races
    /\ \A c \in Clients : LiveFor(sessions, work[c], own[c], clock, races)
    /\ \A c, d \in Clients : c # d => Empty(own[c].user) \/ Empty(own[d].user)

-----------------------------------------------------------------------------
(* The cap, step by step                                                    *)

\* A step of one request that commits nothing.
LEMMA LiveStep ==
    ASSUME LiveInv, IInv, NEW c \in Clients, NEW w, NEW o,
           work' = [work EXCEPT ![c] = w], own' = [own EXCEPT ![c] = o],
           UNCHANGED <<sessions, races, clock>>, LiveFor(sessions, w, o, clock, races),
           Empty(o.user) \/ ~Empty(own[c].user) \/ \A d \in Clients : d # c => Empty(own[d].user)
    PROVE  LiveInv'
  <1>1. /\ work'[c] = w /\ own'[c] = o
        /\ \A d \in Clients : d # c => work'[d] = work[d] /\ own'[d] = own[d]
    BY DEF IInv
  <1>2. \A d \in Clients : LiveFor(sessions, work'[d], own'[d], clock, races)
    BY <1>1 DEF LiveInv
  <1>3. \A b, d \in Clients : b # d => Empty(own'[b].user) \/ Empty(own'[d].user)
    BY <1>1 DEF LiveInv
  <1>4. Cardinality(Actives(sessions, clock)) <= MaxSessions + races
    BY DEF LiveInv
  <1> QED  BY <1>2, <1>3, <1>4 DEF LiveInv

\* What an opening sends, by its answer.
LEMMA OpeningWaits ==
    ASSUME NEW c, NEW kind, NEW steps, NEW said, NEW note, Opening(c, kind, steps, said, note),
           said \in {"tokens", "recovered"}
    PROVE  /\ \E s \in Elements(steps) : s.op = "cap"
           /\ \E s \in Elements(steps) : s.op = "user"
           /\ \A s \in Elements(steps) : s.op \in {"factor", "user", "cap"}
  <1>1. \/ \E x, y : steps = <<x, y>> /\ x.op = "user" /\ y.op = "cap"
        \/ \E x, y, v : steps = <<x, y, v>> /\ x.op = "factor" /\ y.op = "user" /\ v.op = "cap"
    BY StepKinds DEF Opening
  <1>2. CASE \E x, y : steps = <<x, y>> /\ x.op = "user" /\ y.op = "cap"
    BY <1>2, Tuples
  <1>3. CASE \E x, y, v : steps = <<x, y, v>> /\ x.op = "factor" /\ y.op = "user" /\ v.op = "cap"
    BY <1>3, Tuples
  <1> QED  BY <1>1, <1>2, <1>3

\* Only sign-in and refresh leave sessions usable.
LEMMA OpeningRevokes ==
    ASSUME NEW c, NEW kind, NEW steps, NEW said, NEW note, Opening(c, kind, steps, said, note),
           said \notin {"tokens", "recovered", "rotated"}
    PROVE  \A s \in Elements(steps) : s.op \notin {"session", "insert", "cap"}
  <1>1. \/ \E x : steps = <<x>> /\ x.op \in {"user", "revoke", "discard"}
        \/ \E x, y : /\ steps = <<x, y>> /\ x.op \in {"user", "factor", "discard", "leave"}
                     /\ y.op \in {"user", "revoke"}
    BY StepKinds DEF Opening
  <1>2. CASE \E x : steps = <<x>> /\ x.op \in {"user", "revoke", "discard"}
    BY <1>2, Tuples
  <1>3. CASE \E x, y : /\ steps = <<x, y>> /\ x.op \in {"user", "factor", "discard", "leave"}
                       /\ y.op \in {"user", "revoke"}
    BY <1>3, Tuples
  <1> QED  BY <1>1, <1>2, <1>3

\* The start of a request.
LEMMA BeginKeepsLive ==
    ASSUME LiveInv, IInv, NEW c \in Clients, Begins(c)
    PROVE  LiveInv'
  <1>1. PICK kind, steps, said, note : Opening(c, kind, steps, said, note)
    BY Openings
  <1>2. /\ kind # "idle" /\ Begin(c, kind, steps, said, note)
        /\ steps \in Seq(Elements(steps)) /\ LastOK(steps) /\ ~Empty(steps)
    BY <1>1, OpeningIs
  <1> DEFINE w == NewRequest(kind, steps, said, note)
  <1>3. /\ IsRequest(w) /\ w.steps = steps /\ w.said = said
        /\ work' = [work EXCEPT ![c] = w] /\ own' = [own EXCEPT ![c] = Nothing]
        /\ UNCHANGED <<sessions, races, clock>>
    BY <1>2, BeginIs
  <1>4. w.now = clock /\ clock \in Nat
    BY DEF NewRequest, IInv, Numbers
  <1>5. Empty(Nothing.user) /\ Empty(Nothing.sessions) /\ DOMAIN Nothing.sessions = {}
    BY DEF Nothing, Empty
  <1> HIDE DEF w
  <1>6. LiveFor(sessions, w, Nothing, clock, races)
    <2>1. w.now <= clock
      BY <1>4
    <2>2. CASE said \in {"tokens", "recovered"}
      <3>1. /\ \E s \in Elements(steps) : s.op = "cap"
            /\ \E s \in Elements(steps) : s.op = "user"
            /\ \A s \in Elements(steps) : s.op \in {"factor", "user", "cap"}
        BY <1>1, <2>2, OpeningWaits
      <3>2. ~Capped(w) /\ Waits(w, Nothing)
        BY <1>3, <1>5, <3>1 DEF Capped, Waits
      <3> QED  BY <1>3, <2>1, <2>2, <3>2 DEF LiveFor, SignsIn
    <2>3. CASE said = "rotated"
      BY <1>3, <2>1, <2>3 DEF LiveFor, SignsIn
    <2>4. CASE said \notin {"tokens", "recovered", "rotated"}
      <3>1. \A s \in Elements(steps) : s.op \notin {"session", "insert", "cap"}
        BY <1>1, <2>4, OpeningRevokes
      <3>2. Revokes(w, Nothing)
        BY <1>3, <1>5, <3>1 DEF Revokes
      <3> QED  BY <1>3, <2>1, <2>4, <3>2 DEF LiveFor, SignsIn
    <2> QED  BY <2>2, <2>3, <2>4
  <1> QED  BY <1>3, <1>5, <1>6, LiveStep

\* A request keeps its time.
LEMMA TimeKept ==
    ASSUME NEW w, IsRequest(w), NEW x, NEW S
    PROVE  Reading(w, x).now = w.now /\ Sent(w, S).now = w.now /\ Overtaken(w).now = w.now
  <1>1. w = [kind |-> w.kind, steps |-> w.steps, said |-> w.said, note |-> w.note,
             now |-> w.now, seen |-> w.seen, beside |-> w.beside]
    BY DEF IsRequest
  <1> DEFINE q == [kind |-> w.kind, steps |-> w.steps, said |-> w.said, note |-> w.note,
             now |-> w.now, seen |-> w.seen, beside |-> w.beside]
  <1>2. \A y, z, b : [q EXCEPT !.seen = y].now = w.now /\ [q EXCEPT !.steps = z, !.seen = y].now = w.now
                     /\ [q EXCEPT !.beside = b].now = w.now
    OBVIOUS
  <1>3. q = w
    BY <1>1
  <1> HIDE DEF q
  <1>4. Reading(w, x).now = w.now
    BY <1>2, <1>3 DEF Reading
  <1>5. Sent(w, S).now = w.now
    BY <1>2, <1>3 DEF Sent
  <1>6. Overtaken(w).now = w.now
    BY <1>2, <1>3 DEF Overtaken
  <1> QED  BY <1>4, <1>5, <1>6

\* Whatever may be usable has an id that was given.
LEMMA UsableIsFinite ==
    ASSUME NEW T, NEW w, NEW o, NEW n \in Nat, NEW E, NEW z, Fine(T, w, o, n, E, z), IsTable(T, n),
           NEW now
    PROVE  IsFiniteSet(Usable(T, w, o, now))
  <1>1. DOMAIN Overlay(o.sessions, T) \subseteq 1..(n - 1)
    <2>1. DOMAIN Overlay(o.sessions, T) = DOMAIN o.sessions \cup DOMAIN T
      BY DEF Overlay
    <2>2. DOMAIN o.sessions \subseteq 1..(n - 1) /\ DOMAIN T \subseteq 1..(n - 1)
      BY DEF Fine, IsTable
    <2> QED  BY <2>1, <2>2
  <1>2. Announced(w) \subseteq 1..(n - 1)
    BY DEF Fine, ClientOK, StepsOK, Announced
  <1>3. Rereads(w) => Head(w.steps).id \in 1..(n - 1)
    <2>1. SUFFICES ASSUME Rereads(w) PROVE Head(w.steps).id \in 1..(n - 1)
      OBVIOUS
    <2>2. ~Empty(w.steps) /\ Head(w.steps).op = "session"
      BY <2>1 DEF Rereads, Sends
    <2>3. Head(w.steps) \in Elements(w.steps)
      BY <2>2, RequestOf, Pops
    <2> QED  BY <2>2, <2>3 DEF Fine, ClientOK, StepsOK, IsTable
  <1>4. Usable(T, w, o, now) \subseteq 1..(n - 1)
    BY <1>1, <1>2, <1>3 DEF Usable, Untouched, Doubtful
  <1>5. IsFiniteSet(1..(n - 1))
    BY FS_Interval
  <1> QED  BY <1>4, <1>5, FS_Subset

\* A sign-in that leaves no more usable than before has still made room.
LEMMA RoomKeeps ==
    ASSUME NEW T, NEW w, NEW o, NEW now, NEW z \in Nat, MakesRoom(T, w, o, now, z),
           IsFiniteSet(Usable(T, w, o, now)), w.beside \in Nat,
           NEW w1, NEW o1, NEW now1, Usable(T, w1, o1, now1) \subseteq Usable(T, w, o, now),
           ~Empty(o1.user), w1.beside = w.beside
    PROVE  MakesRoom(T, w1, o1, now1, z)
  <1>1. /\ Cardinality(Usable(T, w1, o1, now1)) \in Nat /\ Cardinality(Usable(T, w, o, now)) \in Nat
        /\ Cardinality(Usable(T, w1, o1, now1)) <= Cardinality(Usable(T, w, o, now))
    BY Fewer
  <1> QED  BY <1>1, PolicyAssumption DEF MakesRoom

\* A request that has something to send, by what comes next.
LEMMA LiveSender ==
    ASSUME LiveInv, BranchesInv, IInv, NEW c \in Clients, ~Empty(work[c].steps)
    PROVE  LET v == work[c]
               h == Head(v.steps)
           IN /\ Fine(sessions, v, own[c], nextId, ended, races)
              /\ IsTable(sessions, nextId) /\ nextId \in Nat /\ races \in Nat
              /\ IsRequest(v) /\ v # Idle /\ v.beside \in Nat /\ v.now <= clock
              /\ h \in Elements(v.steps)
              /\ Elements(v.steps) = {h} \cup Elements(Tail(v.steps))
              /\ h.op = "cap" => SignsIn(v)
              /\ h.op \notin {"session", "insert"} =>
                    /\ v.said # "rotated"
                    /\ SignsIn(v) => ~Capped(v) /\ Waits(v, own[c])
              /\ h.op \in {"session", "insert"} =>
                    \/ v.said = "rotated" /\ ~SignsIn(v)
                    \/ /\ SignsIn(v) /\ Capped(v) /\ MakesRoom(sessions, v, own[c], clock, races)
                       /\ Sparing(sessions, v, own[c])
              /\ ~SignsIn(v) /\ v.said # "rotated" => Revokes(v, own[c])
  <1> DEFINE v == work[c]
             h == Head(v.steps)
  <1>1. /\ Fine(sessions, v, own[c], nextId, ended, races)
        /\ IsTable(sessions, nextId) /\ nextId \in Nat /\ races \in Nat
        /\ IsRequest(v) /\ v # Idle /\ v.beside \in Nat
        /\ h \in Elements(v.steps)
        /\ Elements(v.steps) = {h} \cup Elements(Tail(v.steps))
        /\ v.said # "rotated" => Sparing(sessions, v, own[c])
        /\ h.op \notin {"session", "insert"} => v.said # "rotated"
    BY Sending DEF IInv, Numbers
  <1>2. LiveFor(sessions, v, own[c], clock, races)
    BY DEF LiveInv
  <1> HIDE DEF v
  <1>3. /\ v.now <= clock
        /\ SignsIn(v) => IF Capped(v) THEN MakesRoom(sessions, v, own[c], clock, races) ELSE Waits(v, own[c])
        /\ ~SignsIn(v) /\ v.said # "rotated" => Revokes(v, own[c])
    BY <1>1, <1>2 DEF LiveFor
  <1>4. h.op = "cap" => SignsIn(v)
    BY <1>1, <1>3 DEF Revokes
  <1>5. h.op \notin {"session", "insert"} /\ SignsIn(v) => ~Capped(v) /\ Waits(v, own[c])
    BY <1>1, <1>3 DEF Capped
  <1>6. SignsIn(v) => v.said # "rotated"
    BY DEF SignsIn
  <1>7. h.op \in {"session", "insert"} =>
            \/ v.said = "rotated" /\ ~SignsIn(v)
            \/ /\ SignsIn(v) /\ Capped(v) /\ MakesRoom(sessions, v, own[c], clock, races)
               /\ Sparing(sessions, v, own[c])
    BY <1>1, <1>3, <1>6 DEF Revokes, Waits
  <1> QED  BY <1>1, <1>3, <1>4, <1>5, <1>7 DEF v

\* Reread and PickRows.
LEMMA ReadKeepsLive ==
    ASSUME LiveInv, BranchesInv, IInv, NEW c \in Clients, Reread(c) \/ PickRows(c)
    PROVE  LiveInv'
  <1> DEFINE v == work[c]
             h == Head(v.steps)
             O == own[c].sessions
             V == SessionsSeen(c)
             o == own[c]
  <1>1. ~Empty(v.steps) /\ h.op \in {"user", "session", "revoke"} /\ Empty(v.seen)
    BY OwesIs DEF Reread, PickRows, Empty
  <1>2. UNCHANGED <<sessions, races, clock>> /\ own' = [own EXCEPT ![c] = o]
    BY Running DEF Reread, PickRows, unwritten, account, history
  <1>3. /\ Fine(sessions, v, o, nextId, ended, races)
        /\ IsTable(sessions, nextId) /\ nextId \in Nat /\ races \in Nat
        /\ IsRequest(v) /\ v # Idle /\ v.beside \in Nat /\ v.now <= clock /\ h \in Elements(v.steps)
        /\ h.op \notin {"session", "insert"} =>
                    /\ v.said # "rotated"
                    /\ SignsIn(v) => ~Capped(v) /\ Waits(v, o)
        /\ h.op \in {"session", "insert"} =>
                    \/ v.said = "rotated" /\ ~SignsIn(v)
                    \/ /\ SignsIn(v) /\ Capped(v) /\ MakesRoom(sessions, v, o, clock, races)
                       /\ Sparing(sessions, v, o)
        /\ ~SignsIn(v) /\ v.said # "rotated" => Revokes(v, o)
    BY <1>1, LiveSender
  <1>4. \E x : /\ work' = [work EXCEPT ![c] = Reading(v, x)]
               /\ h.op = "session" => x = <<V[h.id]>>
    <2>1. CASE Reread(c)
      <3>1. Next1(c) = h
        BY <2>1, OwesIs DEF Reread
      <3> DEFINE x == IF h.op = "user" THEN <<UserSeen(c)>> ELSE <<V[h.id]>>
      <3>2. work' = [work EXCEPT ![c] = Reading(v, x)]
        BY <2>1, <3>1, Running DEF Reread, Reading
      <3>3. h.op = "session" => x = <<V[h.id]>>
        OBVIOUS
      <3> HIDE DEF x
      <3> QED  BY <3>2, <3>3
    <2>2. CASE PickRows(c)
      <3>1. h.op = "revoke"
        BY <2>2, OwesIs DEF PickRows
      <3>2. \E x : work' = [work EXCEPT ![c] = Reading(v, x)]
        BY <2>2, Running DEF PickRows, Reading
      <3> QED  BY <3>1, <3>2
    <2> QED  BY <2>1, <2>2
  <1>5. PICK x : /\ work' = [work EXCEPT ![c] = Reading(v, x)]
                 /\ h.op = "session" => x = <<V[h.id]>>
    BY <1>4
  <1> DEFINE w == Reading(v, x)
  <1>6. /\ w.said = v.said /\ w.beside = v.beside /\ w.now = v.now
        /\ w.steps = v.steps /\ w.seen = x /\ work' = [work EXCEPT ![c] = w]
    BY <1>3, <1>5, RequestFields, TimeKept
  <1>7. h.op = "session" => /\ x = <<V[h.id]>> /\ h.obj \in Row /\ V[h.id] \in Row
    <2>1. h.op = "session" => h.obj \in Row /\ V[h.id] \in Row
      BY <1>1, SeenRow
    <2> QED  BY <1>5, <2>1
  <1>8. V = Overlay(O, sessions)
    BY DEF SessionsSeen
  <1> HIDE DEF w, V, v, o
  <1>9. Capped(w) = Capped(v) /\ SignsIn(w) = SignsIn(v) /\ Revokes(w, o) = Revokes(v, o)
        /\ Waits(w, o) = Waits(v, o)
    BY <1>6 DEF Capped, SignsIn, Revokes, Waits
  <1>10. LiveFor(sessions, w, o, clock, races)
    <2>1. CASE h.op # "session"
      BY <1>1, <1>3, <1>6, <1>9, <2>1 DEF LiveFor
    <2>2. CASE h.op = "session" /\ ~SignsIn(v)
      BY <1>3, <1>6, <1>9, <2>2 DEF LiveFor
    <2>3. CASE h.op = "session" /\ SignsIn(v)
      <3>1. Capped(v) /\ MakesRoom(sessions, v, o, clock, races) /\ Sparing(sessions, v, o)
        BY <1>3, <2>3
      <3>2. Head(x) = V[h.id]
        BY <1>7, <2>3
      <3>3. Leaves(sessions, w, o) = Merge(V[h.id], h.obj, V[h.id])
        BY <1>6, <1>8, <3>2 DEF Leaves, o
      <3>4. h.obj.revoked # Never
        BY <1>3, <2>3, <3>1 DEF Sparing
      <3>5. Merge(V[h.id], h.obj, V[h.id]).revoked # Never
        BY <1>7, <2>3, <3>4, MergeColumns
      <3>6. Doubtful(sessions, w, o, clock) = {}
        BY <3>3, <3>5 DEF Doubtful, Active
      <3>7. Usable(sessions, w, o, clock) \subseteq Usable(sessions, v, o, clock)
        BY <1>6, <3>6 DEF Usable, Untouched, Announced, Planned
      <3>8. IsFiniteSet(Usable(sessions, v, o, clock))
        BY <1>3, UsableIsFinite
      <3>9. ~Empty(o.user)
        BY <3>1 DEF MakesRoom
      <3>10. MakesRoom(sessions, w, o, clock, races)
        BY <1>3, <1>6, <3>1, <3>7, <3>8, <3>9, RoomKeeps
      <3>11. w.said # "rotated"
        BY <1>6, <2>3 DEF SignsIn
      <3> QED  BY <1>3, <1>6, <1>9, <2>3, <3>1, <3>10, <3>11 DEF LiveFor
    <2> QED  BY <2>1, <2>2, <2>3
  <1>11. Empty(o.user) \/ ~Empty(own[c].user) \/ \A d \in Clients : d # c => Empty(own[d].user)
    BY DEF o
  <1> QED  BY <1>2, <1>6, <1>10, <1>11, LiveStep

\* WriteSession.
LEMMA WriteKeepsLive ==
    ASSUME LiveInv, BranchesInv, IInv, NEW c \in Clients, WriteSession(c)
    PROVE  LiveInv'
  <1> DEFINE v == work[c]
             h == Head(v.steps)
             O == own[c].sessions
             V == SessionsSeen(c)
             r == Merge(V[h.id], h.obj, Head(v.seen))
             X == With(O, h.id, r)
             o == WithSessions(own[c], X)
             w == Sent(v, Tail(v.steps))
  <1>1. ~Empty(v.steps) /\ h.op = "session" /\ Next1(c) = h /\ ~Empty(v.seen)
    BY OwesIs DEF WriteSession, Empty
  <1>2. own' = [own EXCEPT ![c] = o]
    BY <1>1, Running DEF WriteSession, With, SessionsSeen, WithSessions
  <1>3. UNCHANGED unwritten /\ Advance(c, <<>>)
    BY DEF WriteSession
  <1>4. work' = [work EXCEPT ![c] = w] /\ UNCHANGED <<sessions, races, clock>>
    BY <1>1, <1>3, AdvanceByOne, Unwritten
  <1>5. o.sessions = X /\ o.user = own[c].user
    BY WritesSessions, WriteOf DEF IsWrite, WithSessions
  <1>6. /\ Fine(sessions, v, own[c], nextId, ended, races)
        /\ IsTable(sessions, nextId) /\ nextId \in Nat /\ races \in Nat
        /\ IsRequest(v) /\ v # Idle /\ v.beside \in Nat /\ v.now <= clock
        /\ Elements(v.steps) = {h} \cup Elements(Tail(v.steps))
        /\ \/ v.said = "rotated" /\ ~SignsIn(v)
           \/ SignsIn(v) /\ Capped(v) /\ MakesRoom(sessions, v, own[c], clock, races)
    BY <1>1, LiveSender
  <1>7. /\ w.said = v.said /\ w.beside = v.beside /\ w.now = v.now
        /\ w.steps = Tail(v.steps) /\ w.seen = <<>>
    BY <1>6, RequestFields, TimeKept
  <1>8. /\ DOMAIN X = DOMAIN O \cup {h.id} /\ X[h.id] = r
        /\ \A i \in DOMAIN O : i # h.id => X[i] = O[i]
    BY DEF With, Overlay
  <1>9. V = Overlay(O, sessions)
    BY DEF SessionsSeen
  <1>10. Rereads(v) /\ Leaves(sessions, v, own[c]) = r
    BY <1>1, <1>9 DEF Rereads, Sends, Leaves
  <1> HIDE DEF w, V, r, X, o, v
  <1>11. LiveFor(sessions, w, o, clock, races)
    <2>1. CASE ~SignsIn(v)
      BY <1>6, <1>7, <2>1 DEF LiveFor, SignsIn
    <2>2. CASE SignsIn(v)
      <3>1. Capped(v) /\ MakesRoom(sessions, v, own[c], clock, races)
        BY <1>6, <2>2
      <3>2. Capped(w)
        BY <1>6, <1>7, <3>1 DEF Capped
      <3>3. Planned(v) \subseteq Planned(w) \cup {h.id} /\ Announced(w) \subseteq Announced(v)
        BY <1>6, <1>7 DEF Planned, Announced
      <3>4. Doubtful(sessions, w, o, clock) = {}
        BY <1>7 DEF Doubtful, Rereads, Empty
      <3>5. Doubtful(sessions, v, own[c], clock) = IF Active(r, clock) THEN {h.id} ELSE {}
        BY <1>10 DEF Doubtful
      <3>6. ASSUME NEW i \in Untouched(sessions, w, o, clock)
            PROVE  i \in Usable(sessions, v, own[c], clock)
        <4>1. /\ i \in DOMAIN Overlay(X, sessions) /\ i \notin Planned(w)
              /\ Active(Overlay(X, sessions)[i], clock)
          BY <1>5, <3>6 DEF Untouched
        <4>2. CASE i = h.id
          <5>1. Overlay(X, sessions)[i] = r
            BY <1>8, <4>2 DEF Overlay
          <5> QED  BY <3>5, <4>1, <4>2, <5>1 DEF Usable
        <4>3. CASE i # h.id
          <5>1. i \in DOMAIN Overlay(O, sessions) /\ Overlay(X, sessions)[i] = Overlay(O, sessions)[i]
            BY <1>8, <4>1, <4>3 DEF Overlay
          <5> QED  BY <3>3, <4>1, <4>3, <5>1 DEF Usable, Untouched
        <4> QED  BY <4>2, <4>3
      <3>7. Usable(sessions, w, o, clock) \subseteq Usable(sessions, v, own[c], clock)
        BY <3>3, <3>4, <3>6 DEF Usable
      <3>8. IsFiniteSet(Usable(sessions, v, own[c], clock))
        BY <1>6, UsableIsFinite
      <3>9. ~Empty(o.user)
        BY <1>5, <3>1 DEF MakesRoom
      <3>10. MakesRoom(sessions, w, o, clock, races)
        BY <1>6, <1>7, <3>1, <3>7, <3>8, <3>9, RoomKeeps
      <3>11. w.said # "rotated" /\ SignsIn(w)
        BY <1>7, <2>2 DEF SignsIn
      <3> QED  BY <1>6, <1>7, <3>2, <3>10, <3>11 DEF LiveFor
    <2> QED  BY <2>1, <2>2
  <1>12. Empty(o.user) \/ ~Empty(own[c].user) \/ \A d \in Clients : d # c => Empty(own[d].user)
    BY <1>5
  <1> QED  BY <1>2, <1>4, <1>11, <1>12, LiveStep

\* InsertSession: what was announced is there.
LEMMA InsertKeepsLive ==
    ASSUME LiveInv, BranchesInv, IInv, NEW c \in Clients, InsertSession(c)
    PROVE  LiveInv'
  <1> DEFINE v == work[c]
             h == Head(v.steps)
             O == own[c].sessions
             X == With(O, h.id, h.obj)
             o == WithSessions(own[c], X)
             w == Sent(v, Tail(v.steps))
  <1>1. ~Empty(v.steps) /\ h.op = "insert" /\ Next1(c) = h
    BY OwesIs DEF InsertSession
  <1>2. own' = [own EXCEPT ![c] = o]
    BY <1>1, Running DEF InsertSession, With, WithSessions
  <1>3. UNCHANGED unwritten /\ Advance(c, <<>>)
    BY DEF InsertSession
  <1>4. work' = [work EXCEPT ![c] = w] /\ UNCHANGED <<sessions, races, clock>>
    BY <1>1, <1>3, AdvanceByOne, Unwritten
  <1>5. o.sessions = X /\ o.user = own[c].user
    BY WritesSessions, WriteOf DEF IsWrite, WithSessions
  <1>6. /\ Fine(sessions, v, own[c], nextId, ended, races)
        /\ IsTable(sessions, nextId) /\ nextId \in Nat /\ races \in Nat
        /\ IsRequest(v) /\ v # Idle /\ v.beside \in Nat /\ v.now <= clock
        /\ Elements(v.steps) = {h} \cup Elements(Tail(v.steps))
        /\ \/ v.said = "rotated" /\ ~SignsIn(v)
           \/ SignsIn(v) /\ Capped(v) /\ MakesRoom(sessions, v, own[c], clock, races)
    BY <1>1, LiveSender
  <1>7. /\ w.said = v.said /\ w.beside = v.beside /\ w.now = v.now
        /\ w.steps = Tail(v.steps) /\ w.seen = <<>>
    BY <1>6, RequestFields, TimeKept
  <1>8. /\ DOMAIN X = DOMAIN O \cup {h.id} /\ X[h.id] = h.obj
        /\ \A i \in DOMAIN O : i # h.id => X[i] = O[i]
    BY DEF With, Overlay
  <1> HIDE DEF w, X, o, v
  <1>9. LiveFor(sessions, w, o, clock, races)
    <2>1. CASE ~SignsIn(v)
      BY <1>6, <1>7, <2>1 DEF LiveFor, SignsIn
    <2>2. CASE SignsIn(v)
      <3>1. Capped(v) /\ MakesRoom(sessions, v, own[c], clock, races)
        BY <1>6, <2>2
      <3>2. Capped(w)
        BY <1>6, <1>7, <3>1 DEF Capped
      <3>3. Planned(v) \subseteq Planned(w) /\ Announced(w) \cup {h.id} \subseteq Announced(v)
        BY <1>1, <1>6, <1>7 DEF Planned, Announced
      <3>4. Doubtful(sessions, w, o, clock) = {}
        BY <1>7 DEF Doubtful, Rereads, Empty
      <3>5. ASSUME NEW i \in Untouched(sessions, w, o, clock)
            PROVE  i \in Usable(sessions, v, own[c], clock)
        <4>1. /\ i \in DOMAIN Overlay(X, sessions) /\ i \notin Planned(w)
              /\ Active(Overlay(X, sessions)[i], clock)
          BY <1>5, <3>5 DEF Untouched
        <4>2. CASE i = h.id
          BY <3>3, <4>2 DEF Usable
        <4>3. CASE i # h.id
          <5>1. i \in DOMAIN Overlay(O, sessions) /\ Overlay(X, sessions)[i] = Overlay(O, sessions)[i]
            BY <1>8, <4>1, <4>3 DEF Overlay
          <5> QED  BY <3>3, <4>1, <5>1 DEF Usable, Untouched
        <4> QED  BY <4>2, <4>3
      <3>6. Usable(sessions, w, o, clock) \subseteq Usable(sessions, v, own[c], clock)
        BY <3>3, <3>4, <3>5 DEF Usable
      <3>7. IsFiniteSet(Usable(sessions, v, own[c], clock))
        BY <1>6, UsableIsFinite
      <3>8. ~Empty(o.user)
        BY <1>5, <3>1 DEF MakesRoom
      <3>9. MakesRoom(sessions, w, o, clock, races)
        BY <1>6, <1>7, <3>1, <3>6, <3>7, <3>8, RoomKeeps
      <3>10. w.said # "rotated" /\ SignsIn(w)
        BY <1>7, <2>2 DEF SignsIn
      <3> QED  BY <1>6, <1>7, <3>2, <3>9, <3>10 DEF LiveFor
    <2> QED  BY <2>1, <2>2
  <1>10. Empty(o.user) \/ ~Empty(own[c].user) \/ \A d \in Clients : d # c => Empty(own[d].user)
    BY <1>5
  <1> QED  BY <1>2, <1>4, <1>9, <1>10, LiveStep

\* Revoke.
LEMMA RevokeKeepsLive ==
    ASSUME LiveInv, BranchesInv, IInv, NEW c \in Clients, Revoke(c)
    PROVE  LiveInv'
  <1> DEFINE v == work[c]
             O == own[c].sessions
             P == Head(v.seen)
             V == Overlay(O, sessions)
             X == Overlay([i \in P |-> Revoked(V[i], v.now)], O)
             o == WithSessions(own[c], X)
             w == Sent(v, Tail(v.steps))
  <1>1. ~Empty(v.steps) /\ Head(v.steps).op = "revoke"
    BY OwesIs DEF Revoke
  <1>2. ~Empty(v.seen)
    BY DEF Revoke, Empty
  <1>3. own' = [own EXCEPT ![c] = o]
    BY Running DEF Revoke, SessionsSeen, WithSessions
  <1>4. UNCHANGED unwritten /\ Advance(c, <<>>)
    BY DEF Revoke
  <1>5. work' = [work EXCEPT ![c] = w] /\ UNCHANGED <<sessions, races, clock>>
    BY <1>1, <1>4, AdvanceByOne, Unwritten
  <1>6. o.sessions = X /\ o.user = own[c].user
    BY WritesSessions, WriteOf DEF IsWrite, WithSessions
  <1>7. /\ Fine(sessions, v, own[c], nextId, ended, races)
        /\ IsTable(sessions, nextId) /\ nextId \in Nat
        /\ IsRequest(v) /\ v.now <= clock /\ Head(v.steps) \in Elements(v.steps)
        /\ Elements(v.steps) = {Head(v.steps)} \cup Elements(Tail(v.steps))
        /\ v.said # "rotated" /\ (SignsIn(v) => Waits(v, own[c]))
        /\ ~SignsIn(v) /\ v.said # "rotated" => Revokes(v, own[c])
    BY <1>1, LiveSender
  <1>8. /\ w.said = v.said /\ w.now = v.now /\ w.steps = Tail(v.steps)
    BY <1>7, RequestFields, TimeKept
  <1>9. P \subseteq DOMAIN V /\ IsTable(O, nextId)
    <2>1. P = Picks(v)
      BY <1>1, <1>2 DEF Picks, Sends
    <2> QED  BY <1>7, <2>1 DEF Fine, ClientOK
  <1>10. DOMAIN V = DOMAIN O \cup DOMAIN sessions
         /\ \A i \in DOMAIN V : V[i] = IF i \in DOMAIN O THEN O[i] ELSE sessions[i]
    BY DEF Overlay
  <1>11. DOMAIN X = P \cup DOMAIN O
         /\ \A i \in DOMAIN X : X[i] = IF i \in P THEN Revoked(V[i], v.now) ELSE O[i]
    BY DEF Overlay
  <1> HIDE DEF V, X, o, w, P
  <1>12. \A i \in DOMAIN V : V[i] \in Row
    BY <1>7, <1>9, <1>10 DEF IsTable
  <1>13. \A i \in P : X[i].revoked # Never
    <2>1. v.now \in Nat \ {0}
      BY <1>7 DEF IsRequest
    <2>2. \A i \in P : X[i] = Revoked(V[i], v.now) /\ V[i] \in Row
      BY <1>9, <1>11, <1>12
    <2> HIDE DEF v
    <2> QED  BY <2>1, <2>2, RevokedRow
  <1>14. ~SignsIn(v) /\ Revokes(v, own[c])
    BY <1>1, <1>7 DEF Waits
  <1>15. Revokes(w, o)
    BY <1>6, <1>7, <1>8, <1>11, <1>13, <1>14 DEF Revokes
  <1>16. LiveFor(sessions, w, o, clock, races)
    BY <1>7, <1>8, <1>14, <1>15 DEF LiveFor, SignsIn
  <1>17. Empty(o.user) \/ ~Empty(own[c].user) \/ \A d \in Clients : d # c => Empty(own[d].user)
    BY <1>6
  <1> QED  BY <1>3, <1>5, <1>16, <1>17, LiveStep

\* WriteUser, WriteFactor, Discard and Leave: sign-ins take turns on the user's row.
LEMMA OtherWritesKeepLive ==
    ASSUME LiveInv, BranchesInv, IInv, NEW c \in Clients,
           WriteUser(c) \/ WriteFactor(c) \/ Discard(c) \/ Leave(c)
    PROVE  LiveInv'
  <1> DEFINE v == work[c]
             h == Head(v.steps)
             w == Sent(v, Tail(v.steps))
  <1>1. IsWrite(own[c]) /\ own = [d \in Clients |-> own[d]]
    BY WriteOf, Running
  <1>2. /\ ~Empty(v.steps) /\ h.op \in {"user", "factor", "discard", "leave"}
        /\ Advance(c, <<>>) /\ UNCHANGED unwritten
    BY OwesIs DEF WriteUser, WriteFactor, Discard, Leave
  <1>3. \E o : /\ own' = [own EXCEPT ![c] = o] /\ o.sessions = own[c].sessions
               /\ h.op # "user" => o.user = own[c].user
               /\ h.op = "user" => /\ ~Empty(o.user)
                                   /\ \A d \in Clients : d # c => Empty(own[d].user)
    <2>1. \A x : /\ [own[c] EXCEPT !.left = x].sessions = own[c].sessions
                 /\ [own[c] EXCEPT !.left = x].user = own[c].user
                 /\ [own[c] EXCEPT !.user = x].sessions = own[c].sessions
                 /\ [own[c] EXCEPT !.user = x].user = x
      BY <1>1 DEF IsWrite
    <2>2. \A x, y : /\ WithFactors(own[c], x, y).sessions = own[c].sessions
                    /\ WithFactors(own[c], x, y).user = own[c].user
      BY <1>1, WriteFields, FactorFields
    <2>3. CASE WriteUser(c)
      <3>1. PICK x : own' = [own EXCEPT ![c] = [own[c] EXCEPT !.user = <<x>>]]
        BY <1>1, <2>3 DEF WriteUser
      <3>2. h.op = "user" /\ \A d \in Clients : d # c => Empty(own[d].user)
        BY <2>3, OwesIs DEF WriteUser, UserHeld, Others, Empty
      <3>3. ~Empty(<<x>>)
        BY Tuples DEF Empty
      <3> DEFINE o == [own[c] EXCEPT !.user = <<x>>]
      <3>4. o.sessions = own[c].sessions /\ o.user = <<x>> /\ own' = [own EXCEPT ![c] = o]
        BY <2>1, <3>1
      <3> HIDE DEF o
      <3> QED  BY <3>2, <3>3, <3>4
    <2>4. CASE Leave(c)
      <3>1. own' = [own EXCEPT ![c] = [own[c] EXCEPT !.left = TRUE]] /\ h.op = "leave"
        BY <1>1, <2>4, OwesIs DEF Leave
      <3> QED  BY <2>1, <3>1
    <2>5. CASE Discard(c)
      <3>1. own' = [own EXCEPT ![c] = WithFactors(own[c], factors, Next1(c).added)] /\ h.op = "discard"
        BY <1>1, <2>5, OwesIs DEF Discard, WithFactors
      <3> QED  BY <2>2, <3>1
    <2>6. CASE WriteFactor(c)
      <3>0. h.op = "factor"
        BY <2>6, OwesIs DEF WriteFactor
      <3>1. own' = [own EXCEPT ![c] = Consuming(own[c], Next1(c))]
        BY <1>1, <2>6 DEF WriteFactor, Consuming, WithFactors
      <3> QED  BY <2>2, <3>0, <3>1 DEF Consuming
    <2> QED  BY <2>3, <2>4, <2>5, <2>6
  <1>4. PICK o : /\ own' = [own EXCEPT ![c] = o] /\ o.sessions = own[c].sessions
                 /\ h.op # "user" => o.user = own[c].user
                 /\ h.op = "user" => /\ ~Empty(o.user)
                                     /\ \A d \in Clients : d # c => Empty(own[d].user)
    BY <1>3
  <1>5. work' = [work EXCEPT ![c] = w] /\ UNCHANGED <<sessions, races, clock>>
    BY <1>2, AdvanceByOne, Unwritten
  <1>6. /\ IsRequest(v) /\ v.now <= clock
        /\ Elements(v.steps) = {h} \cup Elements(Tail(v.steps))
        /\ v.said # "rotated" /\ (SignsIn(v) => Waits(v, own[c]))
        /\ ~SignsIn(v) /\ v.said # "rotated" => Revokes(v, own[c])
    BY <1>2, LiveSender
  <1>7. w.said = v.said /\ w.now = v.now /\ w.steps = Tail(v.steps)
    BY <1>6, RequestFields, TimeKept
  <1> HIDE DEF w, v
  <1>8. CASE SignsIn(v)
    <2>1. Waits(v, own[c])
      BY <1>6, <1>8
    <2>2. Waits(w, o) /\ ~Capped(w)
      BY <1>2, <1>4, <1>6, <1>7, <2>1 DEF Waits, Capped
    <2>3. LiveFor(sessions, w, o, clock, races)
      BY <1>6, <1>7, <1>8, <2>2 DEF LiveFor, SignsIn
    <2> QED  BY <1>4, <1>5, <2>3, LiveStep
  <1>9. CASE ~SignsIn(v)
    <2>1. Revokes(w, o)
      BY <1>4, <1>6, <1>7, <1>9 DEF Revokes
    <2>2. LiveFor(sessions, w, o, clock, races)
      BY <1>6, <1>7, <1>9, <2>1 DEF LiveFor, SignsIn
    <2> QED  BY <1>4, <1>5, <2>2, LiveStep
  <1> QED  BY <1>8, <1>9

\* The live sessions but the oldest, and the new one, are no more than allowed.
LEMMA CapMakesRoom ==
    ASSUME NEW V, NEW now, NEW n \in Nat \ {0},
           \A i \in DOMAIN V : i \in 1..(n - 1) /\ V[i] \in Row,
           NEW P, \A k \in DOMAIN Oldest(V, now) : Oldest(V, now)[k] \in P,
           NEW S, S \subseteq (Actives(V, now) \ P) \cup {n}
    PROVE  Cardinality(S) <= MaxSessions
  <1> DEFINE A == Actives(V, now)
             F == Oldest(V, now)
             E == [i \in A |-> Cardinality(Earlier(V, now, i))]
  <1>1. /\ IsFiniteSet(A) /\ Cardinality(A) \in Nat
        /\ \E m \in Nat :
              /\ DOMAIN F = 1..m
              /\ m >= Cardinality(A) - MaxSessions + 1
              /\ \A k \in 1..m : /\ F[k] \in A
                                 /\ Cardinality(Earlier(V, now, F[k])) + 1 = k
    BY OldestAreActive
  <1>2. PICK m \in Nat :
            /\ DOMAIN F = 1..m
            /\ m >= Cardinality(A) - MaxSessions + 1
            /\ \A k \in 1..m : /\ F[k] \in A
                               /\ Cardinality(Earlier(V, now, F[k])) + 1 = k
    BY <1>1
  <1>3. \A k \in 1..m : F[k] \in A /\ F[k] \in P /\ E[F[k]] + 1 = k
    BY <1>2
  <1> HIDE DEF A, F, E
  <1> DEFINE G == [k \in 1..m |-> F[k]]
             R == A \cap P
  <1>4. IsFiniteSet(R) /\ Cardinality(R) \in Nat /\ Cardinality(R) <= Cardinality(A)
    BY <1>1, Fewer
  <1>5. IsFiniteSet(1..m) /\ Cardinality(1..m) = m
    BY FS_Interval
  <1>6. G \in [1..m -> R]
    BY <1>3
  <1>7. \A j, k \in 1..m : G[j] = G[k] => j = k
    BY <1>3
  <1> HIDE DEF G
  <1>8. ~(Cardinality(R) < m)
    <2>1. ASSUME Cardinality(R) < m PROVE FALSE
      <3> HIDE DEF R
      <3>1. Cardinality(R) < Cardinality(1..m)
        BY <1>5, <2>1
      <3>2. \E x, y \in 1..m : x # y /\ G[x] = G[y]
        BY <1>4, <1>5, <1>6, <3>1, FS_PigeonHole
      <3> QED  BY <1>7, <3>2
    <2> QED  BY <2>1
  <1>9. /\ IsFiniteSet(A \ P)
        /\ Cardinality(A \ P) = Cardinality(A) - Cardinality(R)
    BY <1>1, FS_Difference
  <1>10. /\ Cardinality(S) \in Nat /\ Cardinality(A \ P) \in Nat
         /\ Cardinality(S) <= Cardinality(A \ P) + 1
    BY <1>9, OneMore DEF A
  <1> HIDE DEF R
  <1>11. MaxSessions \in Nat /\ m >= Cardinality(A) - MaxSessions + 1
    BY <1>2, PolicyAssumption
  <1> DEFINE a == Cardinality(A)
             r == Cardinality(R)
             b == Cardinality(A \ P)
             s == Cardinality(S)
  <1>12. /\ a \in Nat /\ r \in Nat /\ b \in Nat /\ s \in Nat
         /\ m >= a - MaxSessions + 1 /\ ~(r < m) /\ b = a - r /\ s <= b + 1
    BY <1>1, <1>4, <1>8, <1>9, <1>10, <1>11
  <1> HIDE DEF a, r, b, s
  <1>13. s <= MaxSessions
    BY <1>11, <1>12
  <1> QED  BY <1>13 DEF s

\* Each of the oldest gets a statement of its own.
LEMMA CapPlans ==
    ASSUME NEW V, NEW now, NEW n \in Nat \ {0},
           \A i \in DOMAIN V : i \in 1..(n - 1) /\ V[i] \in Row,
           NEW k \in DOMAIN Oldest(V, now)
    PROVE  \E s \in Elements(CapSteps(V, now, n)) : s.op = "session" /\ s.id = Oldest(V, now)[k]
  <1> DEFINE F == [j \in DOMAIN Oldest(V, now) |->
                      SessionStep(Oldest(V, now)[j], Revoked(V[Oldest(V, now)[j]], now))]
             x == InsertStep(n, Start(n, now))
             S == CapSteps(V, now, n)
             Z == {x} \cup {F[j] : j \in DOMAIN F}
  <1>1. PICK m \in Nat : DOMAIN Oldest(V, now) = 1..m
    BY OldestAreActive
  <1>2. F \in [1..m -> Z]
    BY <1>1
  <1>3. F \in Seq(Z) /\ Len(F) = m
    <2> HIDE DEF F, Z
    <2> QED  BY <1>2
  <1>4. <<x>> \in Seq(Z) /\ Len(<<x>>) = 1
    OBVIOUS
  <1>5. S = F \o <<x>>
    BY DEF CapSteps
  <1>6. F[k].op = "session" /\ F[k].id = Oldest(V, now)[k]
    BY DEF SessionStep
  <1>7. k \in 1..m
    BY <1>1
  <1> HIDE DEF F, S
  <1>8. /\ S \in Seq(Z) /\ Len(S) = m + 1 /\ S[k] = F[k]
    <2> HIDE DEF Z, x
    <2>1. /\ F \o <<x>> \in Seq(Z) /\ Len(F \o <<x>>) = m + 1
          /\ \A j \in 1..(m + 1) : (F \o <<x>>)[j] = IF j <= m THEN F[j] ELSE <<x>>[j - m]
      BY <1>3, <1>4, ConcatProperties
    <2> QED  BY <1>5, <1>7, <2>1
  <1>9. k \in DOMAIN S
    <2> HIDE DEF Z
    <2> QED  BY <1>7, <1>8, LenProperties
  <1>10. S[k] \in Elements(S)
    BY <1>9 DEF Elements
  <1> QED  BY <1>6, <1>8, <1>10 DEF S

\* EnforceCap: the plan leaves room for the new session.
LEMMA CapKeepsLive ==
    ASSUME LiveInv, BranchesInv, IInv, NEW c \in Clients, EnforceCap(c)
    PROVE  LiveInv'
  <1> DEFINE v == work[c]
             V == SessionsSeen(c)
             o == own[c]
  <1>1. PICK S : /\ work' = [work EXCEPT ![c] = Sent(v, S)]
                 /\ S = CapSteps(V, v.now, nextId)
                 /\ CapLeaves(S, V, v.now, nextId)
    BY CapIsSent
  <1> DEFINE w == Sent(v, S)
  <1>2. ~Empty(v.steps) /\ Head(v.steps).op = "cap"
    BY OwesIs DEF EnforceCap
  <1>3. own' = [own EXCEPT ![c] = o] /\ UNCHANGED <<sessions, races, clock>>
    BY Running DEF EnforceCap, unwritten, account, history
  <1>4. /\ Fine(sessions, v, o, nextId, ended, races)
        /\ IsTable(sessions, nextId) /\ nextId \in Nat \ {0} /\ races \in Nat
        /\ IsTable(o.sessions, nextId) /\ clock \in Nat
        /\ IsRequest(v) /\ v.beside \in Nat /\ v.now <= clock
        /\ Elements(v.steps) = {Head(v.steps)} \cup Elements(Tail(v.steps))
        /\ SignsIn(v) /\ Waits(v, o)
    BY <1>2, LiveSender, Running DEF Fine, IInv, Numbers
  <1>5. /\ w.said = v.said /\ w.beside = v.beside /\ w.now = v.now /\ w.steps = S /\ w.seen = <<>>
        /\ work' = [work EXCEPT ![c] = w]
    BY <1>1, <1>4, RequestFields, TimeKept
  <1>6. V = Overlay(o.sessions, sessions)
    BY DEF SessionsSeen
  <1>7. DOMAIN V = DOMAIN o.sessions \cup DOMAIN sessions
        /\ \A i \in DOMAIN V :
              V[i] = IF i \in DOMAIN o.sessions THEN o.sessions[i] ELSE sessions[i]
    BY DEF SessionsSeen, Overlay
  <1>8. ~Empty(o.user)
    <2>1. v.steps \in Seq(Elements(v.steps)) /\ LastOK(v.steps)
      BY <1>4 DEF IsRequest
    <2>2. Elements(v.steps) = {Head(v.steps)}
      BY <1>2, <2>1, LastLeavesNothing
    <2> QED  BY <1>2, <1>4, <2>2 DEF Waits
  <1> HIDE DEF w, V, v, o
  <1>9. \A i \in DOMAIN V : i \in 1..(nextId - 1) /\ V[i] \in Row
    BY <1>4, <1>7 DEF IsTable
  <1>10. /\ \A s \in Elements(S) : s.op \in {"session", "insert"} /\ (s.op = "insert" => s.id = nextId)
    <2>1. \A s \in Elements(S) : \/ s = InsertStep(nextId, Start(nextId, v.now))
                                 \/ \E i \in Actives(V, v.now) : s = SessionStep(i, Revoked(V[i], v.now))
      BY <1>1 DEF CapLeaves
    <2>2. \A i, s : /\ SessionStep(i, s).op = "session"
                    /\ InsertStep(i, s).op = "insert" /\ InsertStep(i, s).id = i
      BY DEF SessionStep, InsertStep
    <2> QED  BY <2>1, <2>2
  <1>11. \A k \in DOMAIN Oldest(V, v.now) : Oldest(V, v.now)[k] \in Planned(w)
    <2>1. ASSUME NEW k \in DOMAIN Oldest(V, v.now) PROVE Oldest(V, v.now)[k] \in Planned(w)
      <3>1. \E s \in Elements(CapSteps(V, v.now, nextId)) : s.op = "session" /\ s.id = Oldest(V, v.now)[k]
        BY <1>4, <1>9, CapPlans
      <3> QED  BY <1>1, <1>5, <3>1 DEF Planned
    <2> QED  BY <2>1
  <1>12. Usable(sessions, w, o, clock) \subseteq (Actives(V, v.now) \ Planned(w)) \cup {nextId}
    <2>1. Announced(w) \subseteq {nextId}
      BY <1>5, <1>10 DEF Announced
    <2>2. Doubtful(sessions, w, o, clock) = {}
      BY <1>5 DEF Doubtful, Rereads, Empty
    <2>3. \A i \in DOMAIN V : Active(V[i], clock) => Active(V[i], v.now)
      <3>1. v.now \in Nat
        BY <1>4 DEF IsRequest
      <3>2. \A i \in DOMAIN V : V[i].expires \in Nat
        BY <1>9 DEF Row
      <3> QED  BY <1>4, <3>1, <3>2 DEF Active, Expired
    <2>4. Untouched(sessions, w, o, clock) \subseteq Actives(V, v.now) \ Planned(w)
      BY <1>6, <2>3 DEF Untouched, Actives
    <2> QED  BY <2>1, <2>2, <2>4 DEF Usable
  <1>13. Cardinality(Usable(sessions, w, o, clock)) <= MaxSessions
    BY <1>4, <1>9, <1>11, <1>12, CapMakesRoom
  <1>14. MakesRoom(sessions, w, o, clock, races)
    <2>1. IsFiniteSet(Usable(sessions, w, o, clock))
      <3>1. Usable(sessions, w, o, clock) \subseteq 1..nextId
        BY <1>4, <1>9, <1>12 DEF Actives
      <3>2. IsFiniteSet(1..nextId)
        BY <1>4, FS_Interval
      <3> QED  BY <3>1, <3>2, FS_Subset
    <2>2. Cardinality(Usable(sessions, w, o, clock)) \in Nat
      BY <2>1, FS_CardinalityType
    <2> QED  BY <1>4, <1>5, <1>8, <1>13, <2>2, PolicyAssumption DEF MakesRoom
  <1>15. Capped(w) /\ SignsIn(w) /\ w.said # "rotated"
    BY <1>4, <1>5, <1>10 DEF Capped, SignsIn
  <1>16. LiveFor(sessions, w, o, clock, races)
    BY <1>4, <1>5, <1>14, <1>15 DEF LiveFor
  <1>17. Empty(o.user) \/ ~Empty(own[c].user) \/ \A d \in Clients : d # c => Empty(own[d].user)
    BY <1>8 DEF o
  <1> QED  BY <1>3, <1>5, <1>16, <1>17, LiveStep

\* Fail.
LEMMA FailKeepsLive ==
    ASSUME LiveInv, IInv, NEW c \in Clients, Fail(c)
    PROVE  LiveInv'
  <1>1. /\ work' = [work EXCEPT ![c] = Idle] /\ own' = [own EXCEPT ![c] = Nothing]
        /\ UNCHANGED <<sessions, races, clock>>
    BY DEF Fail, Release, account, history
  <1>2. LiveFor(sessions, Idle, Nothing, clock, races) /\ Empty(Nothing.user)
    BY DEF LiveFor, Nothing, Empty
  <1> QED  BY <1>1, <1>2, LiveStep

\* What is live later is live now.
LEMMA LiveEarlier ==
    ASSUME NEW r, r.expires \in Nat, NEW now \in Nat, Active(r, now + 1)
    PROVE  Active(r, now)
  BY DEF Active, Expired

\* Time only ends sessions.
LEMMA TickKeepsLive ==
    ASSUME LiveInv, IInv, Tick
    PROVE  LiveInv'
  <1> DEFINE T == sessions
  <1>1. /\ UNCHANGED <<sessions, work, own, races>> /\ clock' = clock + 1 /\ clock \in Nat
        /\ races \in Nat /\ nextId \in Nat
    BY DEF Tick, account, history, IInv, Numbers
  <1>2. IsTable(T, nextId) /\ IsFiniteSet(DOMAIN T)
    BY <1>1, FiniteTable DEF IInv, Stored
  <1>3. Actives(T, clock + 1) \subseteq Actives(T, clock)
    <2>1. \A i \in DOMAIN T : T[i].expires \in Nat
      BY <1>2 DEF IsTable, Row
    <2> QED  BY <1>1, <2>1, LiveEarlier DEF Actives
  <1>4. Cardinality(Actives(T, clock + 1)) <= MaxSessions + races
    <2>1. Actives(T, clock) \subseteq DOMAIN T
      BY DEF Actives
    <2>2. IsFiniteSet(Actives(T, clock))
      BY <1>2, <2>1, FS_Subset
    <2>3. /\ Cardinality(Actives(T, clock + 1)) \in Nat /\ Cardinality(Actives(T, clock)) \in Nat
          /\ Cardinality(Actives(T, clock + 1)) <= Cardinality(Actives(T, clock))
      BY <1>3, <2>2, Fewer
    <2>4. Cardinality(Actives(T, clock)) <= MaxSessions + races
      BY DEF LiveInv
    <2> QED  BY <1>1, <2>3, <2>4, PolicyAssumption
  <1>5. ASSUME NEW c \in Clients PROVE LiveFor(T, work[c], own[c], clock + 1, races)
    <2> DEFINE v == work[c]
               o == own[c]
    <2>1. LiveFor(T, v, o, clock, races)
      BY DEF LiveInv
    <2>2. CASE v = Idle
      BY <2>2 DEF LiveFor
    <2>3. CASE v # Idle
      <3>1. Fine(T, v, o, nextId, ended, races)
        BY Running
      <3>2. IsRequest(v)
        BY <2>3, <3>1 DEF Fine
      <3>3. v.now \in Nat /\ v.beside \in Nat
        BY <3>2 DEF IsRequest
      <3>4. v.now <= clock + 1
        BY <1>1, <2>1, <2>3, <3>3 DEF LiveFor
      <3>5. Usable(T, v, o, clock + 1) \subseteq Usable(T, v, o, clock)
        <4>1. \A i \in DOMAIN Overlay(o.sessions, T) : Overlay(o.sessions, T)[i].expires \in Nat
          BY <1>2, <3>1 DEF Fine, IsTable, Overlay, Row
        <4>2. Untouched(T, v, o, clock + 1) \subseteq Untouched(T, v, o, clock)
          BY <1>1, <4>1, LiveEarlier DEF Untouched
        <4>3. Rereads(v) => Leaves(T, v, o).expires \in Nat
          <5>1. SUFFICES ASSUME Rereads(v) PROVE Leaves(T, v, o).expires \in Nat
            OBVIOUS
          <5>2. ~Empty(v.steps) /\ Head(v.steps).op = "session"
            BY <5>1 DEF Rereads, Sends
          <5>3. Head(v.steps).obj \in Row /\ SessionsSeen(c)[Head(v.steps).id] \in Row
            BY <5>2, SeenRow
          <5>4. Leaves(T, v, o) = Merge(SessionsSeen(c)[Head(v.steps).id], Head(v.steps).obj, Head(v.seen))
            BY DEF Leaves, SessionsSeen
          <5>5. \A r \in Row : r.expires \in Nat
            BY DEF Row
          <5> QED  BY <5>3, <5>4, <5>5, MergeColumns
        <4>4. Doubtful(T, v, o, clock + 1) \subseteq Doubtful(T, v, o, clock)
          BY <1>1, <4>3, LiveEarlier DEF Doubtful
        <4> QED  BY <4>2, <4>4 DEF Usable
      <3>6. IsFiniteSet(Usable(T, v, o, clock))
        BY <1>1, <1>2, <3>1, UsableIsFinite
      <3>7. MakesRoom(T, v, o, clock, races) => MakesRoom(T, v, o, clock + 1, races)
        <4>1. SUFFICES ASSUME MakesRoom(T, v, o, clock, races) PROVE MakesRoom(T, v, o, clock + 1, races)
          OBVIOUS
        <4>2. ~Empty(o.user)
          BY <4>1 DEF MakesRoom
        <4> HIDE DEF v, o, T
        <4> QED  BY <1>1, <3>3, <3>5, <3>6, <4>1, <4>2, RoomKeeps
      <3> QED  BY <2>1, <2>3, <3>4, <3>7 DEF LiveFor
    <2> QED  BY <2>2, <2>3
  <1>6. \A c, d \in Clients : c # d => Empty(own[c].user) \/ Empty(own[d].user)
    BY DEF LiveInv
  <1> QED  BY <1>1, <1>4, <1>5, <1>6 DEF LiveInv

-----------------------------------------------------------------------------
(* The cap, when a request commits                                          *)

\* A stale write leaves no session usable that it would not have left so before a
\* rotation.
LEMMA StillDoubtful ==
    ASSUME NEW a \in Row, NEW b \in Row, NEW obj \in Row, NEW seen, NEW now,
           IsHead(a), ~IsHead(b), b.expires = a.expires, obj.expires = a.expires,
           obj.revoked # Never, Active(Merge(b, obj, seen), now)
    PROVE  Active(Merge(a, obj, seen), now)
  <1> DEFINE r == Merge(a, obj, seen)
             q == Merge(b, obj, seen)
  <1>1. /\ r.rotated = IF obj.rotated # seen.rotated THEN obj.rotated ELSE a.rotated
        /\ r.revoked = IF obj.revoked # seen.revoked THEN obj.revoked ELSE a.revoked
        /\ r.expires = IF obj.expires # seen.expires THEN obj.expires ELSE a.expires
    BY MergeColumns
  <1>2. /\ q.rotated = IF obj.rotated # seen.rotated THEN obj.rotated ELSE b.rotated
        /\ q.revoked = IF obj.revoked # seen.revoked THEN obj.revoked ELSE b.revoked
        /\ q.expires = IF obj.expires # seen.expires THEN obj.expires ELSE b.expires
    BY MergeColumns
  <1>3. q.rotated = Never /\ q.revoked = Never /\ ~Expired(q, now)
    BY DEF Active
  <1> HIDE DEF r, q
  <1>4. r.expires = q.expires
    BY <1>1, <1>2
  <1>5. obj.revoked = seen.revoked /\ b.revoked = Never
    BY <1>2, <1>3
  <1>6. b.rotated # Never
    BY <1>5 DEF IsHead
  <1>7. obj.rotated # seen.rotated /\ obj.rotated = Never
    BY <1>2, <1>3, <1>6
  <1>8. r.rotated = Never /\ r.revoked = Never
    BY <1>1, <1>5, <1>7 DEF IsHead
  <1>9. Active(r, now)
    BY <1>3, <1>4, <1>8 DEF Active, Expired
  <1> QED  BY <1>9 DEF r

\* What another request may leave usable after a commit of c.
LEMMA UsableGrows ==
    ASSUME IInv, NEW c \in Clients, Commit(c), NEW d \in Clients, d # c, work[d] # Idle
    PROVE  LET w == Overtaken(work[d])
               o == own[d]
               h == Head(work[d].steps)
               O == own[c].sessions
           IN /\ Untouched(sessions', w, o, clock) \subseteq
                    Untouched(sessions, work[d], o, clock) \cup {i \in DOMAIN O : Active(O[i], clock)}
              /\ Announced(w) = Announced(work[d])
              /\ Doubtful(sessions', w, o, clock) \subseteq
                    Doubtful(sessions, work[d], o, clock) \cup ({h.id} \cap DOMAIN O)
              /\ Rereads(w) = Rereads(work[d])
              /\ h.id \in DOMAIN O /\ h.id \notin DOMAIN o.sessions =>
                    Leaves(sessions', w, o) = Merge(O[h.id], h.obj, Head(work[d].seen))
              /\ h.id \in DOMAIN o.sessions =>
                    Leaves(sessions', w, o) = Leaves(sessions, work[d], o)
  <1> DEFINE T == sessions
             T1 == sessions'
             v == work[d]
             w == Overtaken(v)
             o == own[d]
             h == Head(v.steps)
             O == own[c].sessions
             V == Overlay(o.sessions, T)
             W == Overlay(o.sessions, T1)
  <1>1. /\ DOMAIN T1 = DOMAIN O \cup DOMAIN T
        /\ \A i \in DOMAIN O : T1[i] = O[i]
        /\ \A i \in DOMAIN T : i \notin DOMAIN O => T1[i] = T[i]
    BY CommitTable
  <1>2. IsRequest(v)
    BY Overtaking
  <1>3. w.steps = v.steps /\ w.seen = v.seen
    BY <1>2, RequestFields
  <1>4. /\ DOMAIN V = DOMAIN o.sessions \cup DOMAIN T
        /\ \A i \in DOMAIN V : V[i] = IF i \in DOMAIN o.sessions THEN o.sessions[i] ELSE T[i]
        /\ DOMAIN W = DOMAIN o.sessions \cup DOMAIN T1
        /\ \A i \in DOMAIN W : W[i] = IF i \in DOMAIN o.sessions THEN o.sessions[i] ELSE T1[i]
    BY DEF Overlay
  <1>5. /\ Leaves(T1, w, o) = Merge(W[h.id], h.obj, Head(v.seen))
        /\ Leaves(T, v, o) = Merge(V[h.id], h.obj, Head(v.seen))
    BY <1>3 DEF Leaves
  <1>6. /\ Untouched(T1, w, o, clock) = {i \in DOMAIN W \ Planned(w) : Active(W[i], clock)}
        /\ Untouched(T, v, o, clock) = {i \in DOMAIN V \ Planned(v) : Active(V[i], clock)}
    BY DEF Untouched
  <1>7. Planned(w) = Planned(v) /\ Announced(w) = Announced(v) /\ Rereads(w) = Rereads(v)
    BY <1>3 DEF Planned, Announced, Rereads, Sends
  <1>8. Rereads(v) => h.id \in DOMAIN T
    <2>1. SUFFICES ASSUME Rereads(v) PROVE h.id \in DOMAIN T
      OBVIOUS
    <2>2. ~Empty(v.steps) /\ h.op = "session"
      BY <2>1 DEF Rereads, Sends
    <2> QED  BY <2>2, SeenRow
  <1> HIDE DEF T1, V, W, w
  <1>9. \A i \in DOMAIN W : \/ i \in DOMAIN V /\ W[i] = V[i]
                            \/ i \in DOMAIN O /\ W[i] = O[i]
    BY <1>1, <1>4
  <1>10. Untouched(T1, w, o, clock) \subseteq
             Untouched(T, v, o, clock) \cup {i \in DOMAIN O : Active(O[i], clock)}
    BY <1>6, <1>7, <1>9
  <1>11. h.id \in DOMAIN o.sessions => Leaves(T1, w, o) = Leaves(T, v, o)
    BY <1>4, <1>5
  <1>12. h.id \in DOMAIN O /\ h.id \notin DOMAIN o.sessions =>
             Leaves(T1, w, o) = Merge(O[h.id], h.obj, Head(v.seen))
    BY <1>1, <1>4, <1>5
  <1>13. Rereads(v) /\ h.id \notin DOMAIN O => Leaves(T1, w, o) = Leaves(T, v, o)
    BY <1>1, <1>4, <1>5, <1>8
  <1>14. Doubtful(T1, w, o, clock) \subseteq Doubtful(T, v, o, clock) \cup ({h.id} \cap DOMAIN O)
    <2>1. Head(w.steps) = h
      BY <1>3
    <2> HIDE DEF v, o, h, O
    <2> QED  BY <1>7, <1>13, <2>1 DEF Doubtful, h
  <1> QED  BY <1>7, <1>10, <1>11, <1>12, <1>14 DEF w, T1

\* Who commits: a sign-in that has made room, a refresh, or one that leaves nothing usable.
LEMMA LiveCommitter ==
    ASSUME LiveInv, BranchesInv, IInv, NEW c \in Clients, Commit(c)
    PROVE  LET w == work[c]
               o == own[c]
           IN \/ SignsIn(w) /\ ~Empty(o.user) /\ MakesRoom(sessions, w, o, clock, races)
              \/ /\ ~SignsIn(w) /\ w.said # "rotated"
                 /\ \A i \in DOMAIN o.sessions : ~Active(o.sessions[i], clock)
              \/ /\ ~SignsIn(w) /\ w.said = "rotated"
                 /\ \E m \in DOMAIN sessions : \E n \in 1..MaxId :
                       /\ Written(sessions, w, o, m, n)
                       /\ n # m /\ (w.beside = 0 => IsHead(sessions[m]))
  <1> DEFINE w == work[c]
             o == own[c]
  <1>1. w # Idle /\ Empty(w.steps)
    BY CommitTable
  <1>2. LiveFor(sessions, w, o, clock, races) /\ BranchesFor(sessions, w, o)
    BY DEF LiveInv, BranchesInv
  <1> HIDE DEF w, o
  <1>3. Elements(w.steps) = {}
    BY <1>1, Tuples DEF Empty
  <1>4. CASE SignsIn(w)
    <2>1. ~Waits(w, o)
      BY <1>3 DEF Waits
    <2>2. MakesRoom(sessions, w, o, clock, races)
      BY <1>1, <1>2, <1>4, <2>1 DEF LiveFor
    <2> QED  BY <1>4, <2>2 DEF MakesRoom, w, o
  <1>5. CASE ~SignsIn(w) /\ w.said # "rotated"
    <2>1. Revokes(w, o)
      BY <1>1, <1>2, <1>5 DEF LiveFor
    <2>2. \A i \in DOMAIN o.sessions : ~Active(o.sessions[i], clock)
      BY <2>1 DEF Revokes, Active
    <2> QED  BY <1>5, <2>2 DEF w, o
  <1>6. CASE ~SignsIn(w) /\ w.said = "rotated"
    <2>1. PICK m \in DOMAIN sessions, n \in 1..MaxId : Rotating(sessions, w, o, m, n)
      BY <1>1, <1>2, <1>6 DEF BranchesFor
    <2>2. Written(sessions, w, o, m, n)
      BY <1>1, <2>1 DEF Rotating, Starting, Halfway, Empty
    <2>3. n # m /\ (w.beside = 0 => IsHead(sessions[m]))
      BY <2>1 DEF Rotating
    <2> QED  BY <1>6, <2>2, <2>3 DEF w, o
  <1> QED  BY <1>4, <1>5, <1>6

\* A commit carries no more live sessions over the cap than were committed beside it.
LEMMA CommitActives ==
    ASSUME LiveInv, BranchesInv, IInv, NEW c \in Clients, Commit(c)
    PROVE  Cardinality(Actives(sessions', clock)) <= MaxSessions + races'
  <1> DEFINE T == sessions
             T1 == sessions'
             w == work[c]
             o == own[c]
             O == o.sessions
             A == Actives(T, clock)
             B == Actives(T1, clock)
  <1>0. SUFFICES Cardinality(B) <= MaxSessions + races'
    OBVIOUS
  <1>1. /\ w # Idle /\ Empty(w.steps) /\ w.beside \in Nat /\ races \in Nat
        /\ races' = races + w.beside
        /\ IsTable(T, nextId) /\ nextId \in Nat
        /\ DOMAIN T1 = DOMAIN O \cup DOMAIN T
        /\ \A i \in DOMAIN O : T1[i] = O[i]
        /\ \A i \in DOMAIN T : i \notin DOMAIN O => T1[i] = T[i]
        /\ \A i \in DOMAIN T : T1[i].expires = T[i].expires
    BY CommitTable
  <1>2. Cardinality(A) <= MaxSessions + races
    BY DEF LiveInv
  <1>3. \/ SignsIn(w) /\ ~Empty(o.user) /\ MakesRoom(T, w, o, clock, races)
        \/ /\ ~SignsIn(w) /\ w.said # "rotated"
           /\ \A i \in DOMAIN o.sessions : ~Active(o.sessions[i], clock)
        \/ /\ ~SignsIn(w) /\ w.said = "rotated"
           /\ \E m \in DOMAIN T : \E n \in 1..MaxId :
                 /\ Written(T, w, o, m, n)
                 /\ n # m /\ (w.beside = 0 => IsHead(T[m]))
    BY LiveCommitter
  <1>4. Fine(T, w, o, nextId, ended, races)
    BY Running
  <1>5. T1 = Overlay(O, T)
    BY DEF Commit, SessionsSeen
  <1> HIDE DEF T1, w, o
  <1>6. IsFiniteSet(A)
    <2>1. A \subseteq DOMAIN T
      BY DEF Actives
    <2> QED  BY <1>1, <2>1, FiniteTable, FS_Subset
  <1>7. \A i \in B : i \in A \/ (i \in DOMAIN O /\ Active(O[i], clock))
    BY <1>1 DEF Actives
  <1>8. CASE MakesRoom(T, w, o, clock, races)
    <2>1. Planned(w) = {}
      BY <1>1, Tuples DEF Planned, Empty
    <2>2. B \subseteq Usable(T, w, o, clock)
      BY <1>5, <2>1 DEF Usable, Untouched, Actives
    <2>3. IsFiniteSet(Usable(T, w, o, clock))
      BY <1>1, <1>4, UsableIsFinite
    <2> HIDE DEF B
    <2>4. /\ Cardinality(B) \in Nat /\ Cardinality(Usable(T, w, o, clock)) \in Nat
          /\ Cardinality(B) <= Cardinality(Usable(T, w, o, clock))
      BY <2>2, <2>3, Fewer
    <2> QED  BY <1>1, <1>8, <2>4, PolicyAssumption DEF MakesRoom
  <1>9. CASE \A i \in DOMAIN O : ~Active(O[i], clock)
    <2>1. B \subseteq A
      BY <1>7, <1>9
    <2> HIDE DEF A, B
    <2>2. /\ Cardinality(B) \in Nat /\ Cardinality(A) \in Nat /\ Cardinality(B) <= Cardinality(A)
      BY <1>6, <2>1, Fewer
    <2> QED  BY <1>1, <1>2, <2>2, PolicyAssumption
  <1>10. ASSUME NEW m \in DOMAIN T, NEW n \in 1..MaxId, Written(T, w, o, m, n), n # m,
                w.beside = 0 => IsHead(T[m])
         PROVE  Cardinality(B) <= MaxSessions + races'
    <2>1. /\ DOMAIN O = {m, n} /\ O[n].expires = T[m].expires /\ (IsHead(O[m]) => w.beside >= 2)
      BY <1>10 DEF Written, Continues
    <2>2. \A r : Active(r, clock) => IsHead(r)
      BY DEF Active, IsHead
    <2>3. CASE w.beside = 0
      <3>1. m \notin B
        BY <1>1, <2>1, <2>2, <2>3 DEF Actives
      <3>2. CASE m \in A
        <4>1. B \subseteq (A \ {m}) \cup {n}
          BY <1>7, <2>1, <3>1
        <4> HIDE DEF A, B
        <4>2. /\ Cardinality(B) \in Nat /\ Cardinality(A) \in Nat /\ Cardinality(B) <= Cardinality(A)
          BY <1>6, <3>2, <4>1, Replaced
        <4> QED  BY <1>1, <1>2, <4>2, PolicyAssumption
      <3>3. CASE m \notin A
        <4>1. IsHead(T[m])
          BY <1>10, <2>3
        <4>2. Expired(T[m], clock)
          BY <3>3, <4>1 DEF Actives, Active, IsHead
        <4>3. ~Active(O[n], clock)
          BY <2>1, <4>2 DEF Active, Expired
        <4>4. B \subseteq A
          BY <1>7, <2>1, <3>1, <4>3
        <4> HIDE DEF A, B
        <4>5. /\ Cardinality(B) \in Nat /\ Cardinality(A) \in Nat /\ Cardinality(B) <= Cardinality(A)
          BY <1>6, <4>4, Fewer
        <4> QED  BY <1>1, <1>2, <4>5, PolicyAssumption
      <3> QED  BY <3>2, <3>3
    <2>4. CASE w.beside = 1
      <3>1. ~Active(O[m], clock)
        BY <2>1, <2>2, <2>4
      <3>2. B \subseteq A \cup {n}
        BY <1>7, <2>1, <3>1
      <3> HIDE DEF A, B
      <3>3. /\ Cardinality(B) \in Nat /\ Cardinality(A) \in Nat
            /\ Cardinality(B) <= Cardinality(A) + 1
        BY <1>6, <3>2, OneMore
      <3> QED  BY <1>1, <1>2, <2>4, <3>3, PolicyAssumption
    <2>5. CASE w.beside >= 2
      <3>1. B \subseteq A \cup {m, n}
        BY <1>7, <2>1
      <3> HIDE DEF A, B
      <3>2. /\ Cardinality(B) \in Nat /\ Cardinality(A) \in Nat
            /\ Cardinality(B) <= Cardinality(A) + 2
        BY <1>6, <3>1, TwoMore
      <3> QED  BY <1>1, <1>2, <2>5, <3>2, PolicyAssumption
    <2> QED  BY <1>1, <2>3, <2>4, <2>5
  <1> QED  BY <1>3, <1>8, <1>9, <1>10

\* A stale write is no more doubtful after a refresh that nothing was committed beside.
LEMMA NoDoubtAdded ==
    ASSUME LiveInv, BranchesInv, IInv, NEW c \in Clients, Commit(c), NEW d \in Clients, d # c,
           work[d] # Idle, work[d].said # "rotated", Rereads(work[d]),
           NEW m \in DOMAIN own[c].sessions, m = Head(work[d].steps).id,
           IsHead(sessions[m]), ~IsHead(own[c].sessions[m]),
           Active(Leaves(sessions', Overtaken(work[d]), own[d]), clock)
    PROVE  Active(Leaves(sessions, work[d], own[d]), clock)
  <1> DEFINE T == sessions
             v == work[d]
             o == own[d]
             h == Head(v.steps)
             O == own[c].sessions
             V == Overlay(o.sessions, T)
  <1>1. /\ m \in DOMAIN O /\ m \notin DOMAIN o.sessions =>
              Leaves(sessions', Overtaken(v), o) = Merge(O[m], h.obj, Head(v.seen))
        /\ m \in DOMAIN o.sessions => Leaves(sessions', Overtaken(v), o) = Leaves(T, v, o)
    BY UsableGrows
  <1>2. ~Empty(v.steps) /\ h.op = "session"
    BY DEF Rereads, Sends
  <1>3. /\ m \in DOMAIN T /\ h.obj \in Row /\ T[m] \in Row /\ h.obj.expires = T[m].expires
        /\ h \in Elements(v.steps)
    BY <1>2, SeenRow
  <1>4. h.obj.revoked # Never
    <2>1. BranchesFor(T, v, o)
      BY DEF BranchesInv
    <2>2. Sparing(T, v, o)
      BY <2>1 DEF BranchesFor
    <2> QED  BY <1>2, <1>3, <2>2 DEF Sparing
  <1>5. O[m] \in Row /\ O[m].expires = T[m].expires
    <2>1. Fine(T, work[c], own[c], nextId, ended, races)
      BY Running
    <2>2. IsTable(O, nextId)
      BY <2>1 DEF Fine
    <2>3. sessions'[m] = O[m] /\ sessions'[m].expires = T[m].expires
      BY <1>3, CommitTable
    <2> QED  BY <2>2, <2>3 DEF IsTable
  <1>6. Leaves(T, v, o) = Merge(V[m], h.obj, Head(v.seen))
    BY DEF Leaves
  <1>7. m \notin DOMAIN o.sessions => V[m] = T[m]
    BY <1>3 DEF Overlay
  <1>8. Active(Leaves(sessions', Overtaken(v), o), clock) /\ IsHead(T[m]) /\ ~IsHead(O[m])
    OBVIOUS
  <1>9. m \in DOMAIN O
    OBVIOUS
  <1>10. SUFFICES Active(Leaves(T, v, o), clock)
    OBVIOUS
  <1> HIDE DEF T, v, o, h, O, V
  <1>11. CASE m \in DOMAIN o.sessions
    BY <1>1, <1>8, <1>11
  <1>12. CASE m \notin DOMAIN o.sessions
    <2>1. Active(Merge(O[m], h.obj, Head(v.seen)), clock)
      BY <1>1, <1>8, <1>9, <1>12
    <2> DEFINE a == T[m]
               b == O[m]
               p == h.obj
    <2>2. /\ a \in Row /\ b \in Row /\ p \in Row /\ IsHead(a) /\ ~IsHead(b)
          /\ b.expires = a.expires /\ p.expires = a.expires /\ p.revoked # Never
          /\ Active(Merge(b, p, Head(v.seen)), clock)
      BY <1>3, <1>4, <1>5, <1>8, <2>1
    <2> HIDE DEF a, b, p
    <2>3. Active(Merge(a, p, Head(v.seen)), clock)
      BY <2>2, StillDoubtful
    <2>4. Leaves(T, v, o) = Merge(a, p, Head(v.seen))
      BY <1>6, <1>7, <1>12 DEF a, p
    <2> QED  BY <2>3, <2>4
  <1> QED  BY <1>11, <1>12

\* What a sign-in that has made room may leave usable after a commit.
LEMMA OvertakenRoom ==
    ASSUME LiveInv, BranchesInv, IInv, NEW c \in Clients, Commit(c), NEW d \in Clients, d # c,
           work[d] # Idle, SignsIn(work[d]), MakesRoom(sessions, work[d], own[d], clock, races)
    PROVE  MakesRoom(sessions', Overtaken(work[d]), own[d], clock, races')
  <1> DEFINE T == sessions
             T1 == sessions'
             v == work[d]
             w == Overtaken(v)
             o == own[d]
             h == Head(v.steps)
             O == own[c].sessions
             b == work[c].beside
             U == Usable(T, v, o, clock)
             U1 == Usable(T1, w, o, clock)
  <1>1. /\ b \in Nat /\ races \in Nat /\ races' = races + b
        /\ IsTable(T, nextId) /\ nextId \in Nat
    BY CommitTable
  <1>2. /\ Untouched(T1, w, o, clock) \subseteq
               Untouched(T, v, o, clock) \cup {i \in DOMAIN O : Active(O[i], clock)}
        /\ Announced(w) = Announced(v)
        /\ Doubtful(T1, w, o, clock) \subseteq Doubtful(T, v, o, clock) \cup ({h.id} \cap DOMAIN O)
        /\ Rereads(w) = Rereads(v)
    BY UsableGrows
  <1>3. IsRequest(v)
    BY Overtaking
  <1>4. w.steps = v.steps /\ w.beside = v.beside + 1 /\ v.beside \in Nat
    BY <1>3, RequestFields
  <1>5. ~Empty(o.user) /\ Cardinality(U) <= MaxSessions + races + v.beside
    BY DEF MakesRoom
  <1>6. IsFiniteSet(U)
    <2>1. Fine(T, v, o, nextId, ended, races)
      BY Running
    <2> QED  BY <1>1, <2>1, UsableIsFinite
  <1>7. \/ \A i \in DOMAIN O : ~Active(O[i], clock)
        \/ \E m \in DOMAIN T : \E n \in 1..MaxId :
              Written(T, work[c], own[c], m, n) /\ n # m /\ (b = 0 => IsHead(T[m]))
    <2>1. Empty(own[c].user)
      BY <1>5 DEF LiveInv
    <2>2. \/ SignsIn(work[c]) /\ ~Empty(own[c].user) /\ MakesRoom(T, work[c], own[c], clock, races)
          \/ /\ ~SignsIn(work[c]) /\ work[c].said # "rotated"
             /\ \A i \in DOMAIN own[c].sessions : ~Active(own[c].sessions[i], clock)
          \/ /\ ~SignsIn(work[c]) /\ work[c].said = "rotated"
             /\ \E m \in DOMAIN T : \E n \in 1..MaxId :
                   /\ Written(T, work[c], own[c], m, n)
                   /\ n # m /\ (work[c].beside = 0 => IsHead(T[m]))
      BY LiveCommitter
    <2> QED  BY <2>1, <2>2
  <1>8. v.said # "rotated"
    BY DEF SignsIn
  <1>9. \A i \in {h.id} : h.id = i
    OBVIOUS
  <1>10. SUFFICES MakesRoom(T1, w, o, clock, races')
    OBVIOUS
  <1>11. /\ U = Untouched(T, v, o, clock) \cup Announced(v) \cup Doubtful(T, v, o, clock)
         /\ U1 = Untouched(T1, w, o, clock) \cup Announced(w) \cup Doubtful(T1, w, o, clock)
    BY DEF Usable
  <1>12. SUFFICES Cardinality(U1) <= MaxSessions + races' + w.beside
    BY <1>5 DEF MakesRoom
  <1>13. CASE \A i \in DOMAIN O : ~Active(O[i], clock)
    <2>1. U1 \subseteq U \cup {h.id}
      BY <1>2, <1>11, <1>13
    <2> HIDE DEF U, U1, w, v, b
    <2>2. /\ Cardinality(U1) \in Nat /\ Cardinality(U) \in Nat /\ Cardinality(U1) <= Cardinality(U) + 1
      BY <1>6, <2>1, OneMore
    <2> QED  BY <1>1, <1>4, <1>5, <2>2, PolicyAssumption
  <1>14. ASSUME NEW m \in DOMAIN T, NEW n \in 1..MaxId, Written(T, work[c], own[c], m, n), n # m,
                b = 0 => IsHead(T[m])
         PROVE  Cardinality(U1) <= MaxSessions + races' + w.beside
    <2>1. DOMAIN O = {m, n} /\ (IsHead(O[m]) => b >= 2)
      BY <1>14 DEF Written
    <2>2. U1 \subseteq U \cup {m, n}
      BY <1>2, <1>11, <2>1
    <2>3. CASE b >= 1
      <3> HIDE DEF U, U1, w, v, b
      <3>1. /\ Cardinality(U1) \in Nat /\ Cardinality(U) \in Nat /\ Cardinality(U1) <= Cardinality(U) + 2
        BY <1>6, <2>2, TwoMore
      <3> QED  BY <1>1, <1>4, <1>5, <2>3, <3>1, PolicyAssumption
    <2>4. CASE b = 0
      <3>1. ~IsHead(O[m]) /\ IsHead(T[m]) /\ ~Active(O[m], clock)
        BY <1>14, <2>1, <2>4 DEF IsHead, Active
      <3>2. Untouched(T1, w, o, clock) \subseteq Untouched(T, v, o, clock) \cup {n}
        BY <1>2, <2>1, <3>1
      <3>3. Doubtful(T1, w, o, clock) \subseteq Doubtful(T, v, o, clock) \cup {n}
        <4>1. CASE h.id # m
          BY <1>2, <2>1, <4>1
        <4>2. CASE Doubtful(T1, w, o, clock) = {}
          BY <4>2
        <4>3. CASE h.id = m /\ Doubtful(T1, w, o, clock) # {}
          <5>1. Rereads(w) /\ Active(Leaves(T1, w, o), clock)
            BY <4>3 DEF Doubtful
          <5>2. Rereads(v)
            BY <1>2, <5>1
          <5>3. Active(Leaves(T, v, o), clock)
            BY <1>8, <2>1, <3>1, <4>3, <5>1, <5>2, NoDoubtAdded
          <5>4. Doubtful(T, v, o, clock) = {h.id}
            BY <5>2, <5>3 DEF Doubtful
          <5> QED  BY <1>2, <5>4
        <4> QED  BY <4>1, <4>2, <4>3
      <3>4. U1 \subseteq U \cup {n}
        BY <1>2, <1>11, <3>2, <3>3
      <3> HIDE DEF U, U1, w, v, b
      <3>5. /\ Cardinality(U1) \in Nat /\ Cardinality(U) \in Nat /\ Cardinality(U1) <= Cardinality(U) + 1
        BY <1>6, <3>4, OneMore
      <3> QED  BY <1>1, <1>4, <1>5, <3>5, PolicyAssumption
    <2> QED  BY <1>1, <2>3, <2>4
  <1> QED  BY <1>7, <1>13, <1>14

\* What is still running, after a commit.
LEMMA OvertakenLive ==
    ASSUME LiveInv, BranchesInv, IInv, NEW c \in Clients, Commit(c), NEW d \in Clients, d # c,
           work[d] # Idle
    PROVE  LiveFor(sessions', Overtaken(work[d]), own[d], clock, races')
  <1> DEFINE v == work[d]
             w == Overtaken(v)
             o == own[d]
  <1>1. IsRequest(v)
    BY Overtaking
  <1>2. w.said = v.said /\ w.steps = v.steps /\ w.now = v.now
    BY <1>1, RequestFields, TimeKept
  <1>3. LiveFor(sessions, v, o, clock, races) /\ v # Idle
    BY DEF LiveInv
  <1>4. SignsIn(v) /\ MakesRoom(sessions, v, o, clock, races) => MakesRoom(sessions', w, o, clock, races')
    BY OvertakenRoom
  <1>5. SUFFICES LiveFor(sessions', w, o, clock, races')
    OBVIOUS
  <1> HIDE DEF v, w, o
  <1>6. /\ SignsIn(w) = SignsIn(v) /\ Capped(w) = Capped(v) /\ Waits(w, o) = Waits(v, o)
        /\ Revokes(w, o) = Revokes(v, o)
    BY <1>2 DEF SignsIn, Capped, Waits, Revokes
  <1> QED  BY <1>2, <1>3, <1>4, <1>6 DEF LiveFor

\* Commit.
LEMMA CommitKeepsLive ==
    ASSUME LiveInv, BranchesInv, IInv, NEW c \in Clients, Commit(c)
    PROVE  LiveInv'
  <1>1. clock' = clock /\ Cardinality(Actives(sessions', clock)) <= MaxSessions + races'
    BY CommitActives DEF Commit
  <1>2. /\ work'[c] = Idle /\ own'[c] = Nothing
        /\ \A d \in Clients : d # c => own'[d] = own[d]
        /\ \A d \in Clients : d # c /\ work[d] = Idle => work'[d] = Idle
        /\ \A d \in Clients : d # c /\ work[d] # Idle => work'[d] = Overtaken(work[d])
    BY Overtaking
  <1>3. ASSUME NEW d \in Clients PROVE LiveFor(sessions', work'[d], own'[d], clock, races')
    <2>1. CASE work'[d] = Idle
      BY <2>1 DEF LiveFor
    <2>2. CASE d # c /\ work[d] # Idle
      <3>1. LiveFor(sessions', Overtaken(work[d]), own[d], clock, races')
        BY <2>2, OvertakenLive
      <3> QED  BY <1>2, <2>2, <3>1
    <2> QED  BY <1>2, <2>1, <2>2
  <1>4. ASSUME NEW a \in Clients, NEW b \in Clients, a # b
        PROVE  Empty(own'[a].user) \/ Empty(own'[b].user)
    <2>1. Empty(own[a].user) \/ Empty(own[b].user)
      BY <1>4 DEF LiveInv
    <2>2. Empty(Nothing.user)
      BY DEF Nothing, Empty
    <2> QED  BY <1>2, <2>1, <2>2
  <1> QED  BY <1>1, <1>3, <1>4 DEF LiveInv

\* One session is within every cap.
LEMMA LiveStart == Init => LiveInv
  <1> SUFFICES ASSUME Init PROVE LiveInv
    OBVIOUS
  <1>1. /\ sessions = <<Start(1, 1)>> /\ races = 0 /\ work = [c \in Clients |-> Idle]
        /\ own = [c \in Clients |-> Nothing]
    BY DEF Init
  <1>2. Cardinality(Actives(sessions, clock)) <= MaxSessions + races
    <2>1. Actives(sessions, clock) \subseteq {1}
      BY <1>1 DEF Actives
    <2>2. IsFiniteSet({1}) /\ Cardinality({1}) = 1
      BY FS_Singleton
    <2>3. /\ Cardinality(Actives(sessions, clock)) \in Nat
          /\ Cardinality(Actives(sessions, clock)) <= 1
      BY <2>1, <2>2, Fewer
    <2> QED  BY <1>1, <2>3, PolicyAssumption
  <1>3. \A c \in Clients : LiveFor(sessions, work[c], own[c], clock, races)
    BY <1>1 DEF LiveFor
  <1>4. \A c, d \in Clients : c # d => Empty(own[c].user) \/ Empty(own[d].user)
    BY <1>1 DEF Nothing, Empty
  <1> QED  BY <1>2, <1>3, <1>4 DEF LiveInv

\* Every step keeps the live sessions within the cap and the overlaps.
LEMMA LiveSteps == LiveInv /\ BranchesInv /\ IInv /\ [Next]_vars => LiveInv'
  <1> SUFFICES ASSUME LiveInv, BranchesInv, IInv, [Next]_vars PROVE LiveInv'
    OBVIOUS
  <1>1. ASSUME NEW c \in Clients, Begins(c) PROVE LiveInv'
    BY <1>1, BeginKeepsLive
  <1>2. ASSUME NEW c \in Clients, Reread(c) \/ PickRows(c) PROVE LiveInv'
    BY <1>2, ReadKeepsLive
  <1>3. ASSUME NEW c \in Clients, WriteUser(c) \/ WriteFactor(c) \/ Discard(c) \/ Leave(c)
        PROVE  LiveInv'
    BY <1>3, OtherWritesKeepLive
  <1>4. ASSUME NEW c \in Clients, WriteSession(c) PROVE LiveInv'
    BY <1>4, WriteKeepsLive
  <1>5. ASSUME NEW c \in Clients, InsertSession(c) PROVE LiveInv'
    BY <1>5, InsertKeepsLive
  <1>6. ASSUME NEW c \in Clients, Revoke(c) PROVE LiveInv'
    BY <1>6, RevokeKeepsLive
  <1>7. ASSUME NEW c \in Clients, EnforceCap(c) PROVE LiveInv'
    BY <1>7, CapKeepsLive
  <1>8. ASSUME NEW c \in Clients, Commit(c) PROVE LiveInv'
    BY <1>8, CommitKeepsLive
  <1>9. ASSUME NEW c \in Clients, Fail(c) PROVE LiveInv'
    BY <1>9, FailKeepsLive
  <1>10. CASE Tick
    BY <1>10, TickKeepsLive
  <1>11. CASE UNCHANGED vars
    <2>1. UNCHANGED <<work, own, sessions, races, clock>>
      BY <1>11 DEF vars, account, history
    <2> QED  BY <2>1 DEF LiveInv
  <1> QED
    BY <1>1, <1>2, <1>3, <1>4, <1>5, <1>6, <1>7, <1>8, <1>9, <1>10, <1>11 DEF Next, Begins

\* max_sessions_per_user: whichever requests overlap, no more sessions are live
\* than the cap and one for each overlap.
THEOREM CapAlwaysHolds == Spec => []CapHolds
  <1>1. LiveInv => CapHolds
    <2>1. Actives(sessions, clock) = {i \in DOMAIN sessions : Active(sessions[i], clock)}
      BY DEF Actives
    <2> QED  BY <2>1 DEF LiveInv, CapHolds
  <1> QED
    BY <1>1, LiveStart, LiveSteps, BranchesStart, BranchesSteps, AlwaysIInv, PTL DEF Spec

=============================================================================
