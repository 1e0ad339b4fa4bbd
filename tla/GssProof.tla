----------------------------- MODULE GssProof --------------------------------
(***************************************************************************)
(* Proofs about authentication.  RPCSEC_GSS on the server (SvcGss): the    *)
(* cache of contexts and the refusal of replayed requests, for any number  *)
(* of transports, contexts and requests and any window that is smaller     *)
(* than the word of its mask; on the client (AuthGss): its contexts and    *)
(* their numbers, for any number of requests.  Credentials on the server   *)
(* (SvcAuth), for any flavors, handlers and lengths in a request.          *)
(***************************************************************************)
EXTENDS MCSecurity, SequenceTheorems, WellFoundedInduction, TLAPS

Safe == TypeOK /\ GssCacheSound

-----------------------------------------------------------------------------
(* A list walked from its head finds the first of the entries it looks for.*)
LEMMA FirstIsLeast ==
  ASSUME NEW S, S \subseteq Nat, S /= {}
  PROVE  First(S) \in S /\ \A j \in S : First(S) <= j
<1>1. \E k \in S : \A j \in S : ~(<<j, k>> \in OpToRel(<, Nat))
  BY NatLessThanWellFounded, WFMin
<1>2. \E k \in S : \A j \in S : k <= j
  <2>1. PICK k \in S : \A j \in S : ~(<<j, k>> \in OpToRel(<, Nat))
    BY <1>1
  <2>2. ASSUME NEW j \in S PROVE k <= j
    <3>1. ~(j < k)
      BY <2>1 DEF OpToRel
    <3> QED BY <3>1
  <2> QED BY <2>2
<1> QED BY <1>2 DEF First

(* Unlinking one entry: the others stay, in their order.                   *)
LEMMA UnlinkOne ==
  ASSUME NEW T, NEW c \in Seq(T), NEW S \in SUBSET (1 .. Len(c))
  PROVE  /\ unlink(c, S) \in Seq(T) /\ Len(unlink(c, S)) <= Len(c)
         /\ \A j \in 1 .. Len(unlink(c, S)) :
              unlink(c, S)[j] = IF S = {} \/ j < First(S) THEN c[j] ELSE c[j + 1]
         /\ S /= {} => Len(unlink(c, S)) = Len(c) - 1 /\ First(S) \in S
<1>1. CASE S = {}
  BY <1>1, LenProperties DEF unlink
<1>2. CASE S /= {}
  <2>1. First(S) \in S /\ First(S) \in 1 .. Len(c)
    <3>1. S \subseteq Nat
      OBVIOUS
    <3> QED BY <1>2, <3>1, FirstIsLeast
  <2> DEFINE u == [j \in 1 .. Len(c) - 1 |-> IF j < First(S) THEN c[j] ELSE c[j + 1]]
  <2>2. Len(c) - 1 \in Nat /\ \A j \in 1 .. Len(c) - 1 : u[j] \in T
    BY <2>1, LenProperties
  <2>3. u \in Seq(T) /\ Len(u) = Len(c) - 1
    <3>1. u \in [1 .. Len(c) - 1 -> T]
      BY <2>2
    <3>2. u \in Seq(T)
      BY <2>2, <3>1, SeqDef
    <3>3. DOMAIN u = 1 .. Len(c) - 1 /\ DOMAIN u = 1 .. Len(u) /\ Len(u) \in Nat
      BY <3>2, LenProperties
    <3> HIDE DEF u
    <3> QED BY <2>2, <3>2, <3>3
  <2>4. unlink(c, S) = u
    BY <1>2 DEF unlink
  <2>5. \A j \in 1 .. Len(c) - 1 : u[j] = IF j < First(S) THEN c[j] ELSE c[j + 1]
    OBVIOUS
  <2> HIDE DEF u
  <2> QED BY <1>2, <2>1, <2>2, <2>3, <2>4, <2>5
<1> QED BY <1>1, <1>2

(* What becomes of a window: it moves back in one case only; until then    *)
(* what was spent stays so.                                                *)
WindowKept(h, g) ==
  /\ Forward(h, g)
  /\ ~g.back => ~h.back /\ \A t \in Nat : Spent(h, t) => Spent(g, t)

(* The window: a number it lets through was not spent, and is from then on,*)
(* unless it moves back.                                                   *)
LEMMA WindowMoves ==
  ASSUME NEW h \in Gd, NEW s \in Nat, NEW g \in window(h, s)
  PROVE  /\ g \in Gd
         /\ g = [h EXCEPT !.seqlast = g.seqlast, !.seqmask = g.seqmask, !.back = g.back]
         /\ WindowKept(h, g)
         /\ h.established /\ ~g.back => ~Spent(h, s) /\ Spent(g, s)
<1> USE GssAssumption DEF Gd
<1> DEFINE o == offset(h.seqlast, s)
<1>0. /\ h.seqlast \in 0 .. MAXSEQ /\ h.seqlast \in Nat /\ MAXSEQ \in Nat \ {0}
      /\ o = IF h.seqlast - s = MAXSEQ THEN -MAXSEQ ELSE h.seqlast - s
      /\ o \in Int /\ (o >= 0 => o \in Nat /\ o = h.seqlast - s)
      /\ o < 0 => s > h.seqlast \/ (h.seqlast = MAXSEQ /\ s = 0)
  BY DEF offset
<1>1. CASE ~h.established
  <2>1. g = h
    BY <1>1 DEF window
  <2>2. WindowKept(h, g)
    <3>1. ~(h.seqlast < h.seqlast)
      BY <1>0
    <3> QED BY <2>1, <3>1 DEF WindowKept, Forward
  <2>3. h = [h EXCEPT !.seqlast = h.seqlast, !.seqmask = h.seqmask, !.back = h.back]
    OBVIOUS
  <2> QED BY <1>1, <2>1, <2>2, <2>3
<1>2. CASE h.established
  <2>1. s <= MAXSEQ
    <3>1. s > MAXSEQ => window(h, s) = {}
      BY <1>2 DEF window
    <3> QED BY <1>0, <3>1
  <2>2. CASE o < 0
    <3> DEFINE n == -o
    <3>1. PICK m \in seqmask_shift(h.seqmask, n) :
            g = [h EXCEPT !.seqlast = s, !.seqmask = m \cup {0}, !.back = @ \/ s < h.seqlast]
      <4>1. window(h, s) = {[h EXCEPT !.seqlast = s, !.seqmask = m \cup {0},
                                      !.back = @ \/ s < h.seqlast] : m \in seqmask_shift(h.seqmask, n)}
        BY <1>2, <2>1, <2>2 DEF window
      <4> QED BY <4>1
    <3>2. m \subseteq Nat /\ (n < Width /\ n /= MAXSEQ => m = shifted(h.seqmask, n))
      BY <3>1 DEF seqmask_shift, shifted
    <3>3. /\ g \in Gd /\ g.seqlast = s /\ g.seqmask = m \cup {0}
          /\ g.back = (h.back \/ s < h.seqlast) /\ g.back \in BOOLEAN
          /\ g = [h EXCEPT !.seqlast = g.seqlast, !.seqmask = g.seqmask, !.back = g.back]
      <4> DEFINE mm == m \cup {0}
                 bb == h.back \/ s < h.seqlast
      <4>0. mm \in SUBSET Nat /\ bb \in BOOLEAN /\ s \in 0 .. MAXSEQ
        BY <1>0, <2>1, <3>2
      <4>1. g = [h EXCEPT !.seqlast = s, !.seqmask = mm, !.back = bb]
        BY <3>1
      <4> HIDE DEF mm, bb
      <4>2. g \in Gd /\ g.seqlast = s /\ g.seqmask = mm /\ g.back = bb
        BY <4>0, <4>1
      <4> QED BY <4>0, <4>1, <4>2 DEF mm, bb
    <3> HIDE DEF o
    <3>4. CASE s < h.seqlast
      <4>1. h.seqlast = MAXSEQ /\ s = 0 /\ g.back
        BY <1>0, <2>2, <3>3, <3>4
      <4> QED BY <1>0, <3>3, <4>1 DEF WindowKept, Forward
    <3>5. CASE ~(s < h.seqlast)
      <4>1. s > h.seqlast /\ o = h.seqlast - s /\ n = s - h.seqlast /\ n \in Nat /\ n > 0
        BY <1>0, <2>2, <3>5
      <4>2. ASSUME NEW t \in Nat, Spent(h, t) PROVE Spent(g, t)
        <5>1. CASE t > MAXSEQ
          BY <5>1 DEF Spent, Refuses
        <5>2. CASE s - t = MAXSEQ
          BY <3>3, <5>2 DEF Spent
        <5>3. CASE t <= MAXSEQ /\ s - t /= MAXSEQ
          <6>1. h.seqlast - t /= MAXSEQ
            BY <1>0, <2>1, <4>1
          <6>2. offset(h.seqlast, t) = h.seqlast - t /\ offset(g.seqlast, t) = s - t
            BY <3>3, <5>3, <6>1 DEF offset
          <6>3. /\ h.seqlast - t >= 0
                /\ h.seqlast - t >= Win \/ h.seqlast - t \in h.seqmask
            BY <4>2, <5>3, <6>1, <6>2 DEF Spent, Refuses
          <6>4. s - t = (h.seqlast - t) + n /\ s - t \in Nat /\ n /= MAXSEQ /\ h.seqlast - t \in Nat
            BY <1>0, <2>1, <4>1, <5>3, <6>3
          <6>5. CASE s - t >= Win
            BY <3>3, <5>3, <6>2, <6>4, <6>5 DEF Spent, Refuses
          <6>6. CASE s - t < Win
            <7>1. n < Width /\ h.seqlast - t < Win /\ s - t < Width
              BY <4>1, <6>4, <6>6
            <7>2. h.seqlast - t \in h.seqmask /\ m = shifted(h.seqmask, n)
              BY <3>2, <6>3, <6>4, <7>1
            <7>3. s - t \in shifted(h.seqmask, n)
              BY <6>4, <7>1, <7>2 DEF shifted
            <7> QED BY <3>3, <5>3, <6>2, <6>4, <7>2, <7>3 DEF Spent, Refuses
          <6> QED BY <6>4, <6>5, <6>6
        <5> QED BY <1>0, <2>1, <5>1, <5>2, <5>3
      <4>3. ~Spent(h, s)
        <5>1. offset(h.seqlast, s) = h.seqlast - s /\ h.seqlast - s < 0
          BY <1>0, <4>1 DEF offset
        <5> QED BY <1>0, <2>1, <4>1, <5>1 DEF Spent, Refuses
      <4>4. Spent(g, s)
        <5>1. offset(g.seqlast, s) = 0 /\ 0 \in g.seqmask
          BY <1>0, <3>3 DEF offset
        <5> QED BY <5>1 DEF Spent, Refuses
      <4> QED BY <1>0, <3>3, <3>5, <4>2, <4>3, <4>4 DEF WindowKept, Forward
    <3> QED BY <3>4, <3>5
  <2>3. CASE ~(o < 0)
    <3>1. o \in Nat /\ o = h.seqlast - s /\ h.seqlast - s /= MAXSEQ
      BY <1>0, <2>3
    <3> HIDE DEF o
    <3>2. ~(o >= Win) /\ o \notin h.seqmask /\ g = [h EXCEPT !.seqmask = @ \cup {o}]
      BY <1>2, <2>1, <2>3 DEF window, o
    <3>3. /\ g \in Gd /\ g.seqlast = h.seqlast /\ g.seqmask = h.seqmask \cup {o} /\ g.back = h.back
          /\ g = [h EXCEPT !.seqlast = g.seqlast, !.seqmask = g.seqmask, !.back = g.back]
      <4> DEFINE mm == h.seqmask \cup {o}
      <4>1. mm \in SUBSET Nat /\ g = [h EXCEPT !.seqmask = mm]
        BY <3>1, <3>2
      <4> HIDE DEF mm
      <4>2. g \in Gd /\ g.seqlast = h.seqlast /\ g.seqmask = mm /\ g.back = h.back
        BY <4>1
      <4> QED BY <4>1, <4>2 DEF mm
    <3>4. \A t \in Nat : Spent(h, t) => Spent(g, t)
      BY <3>3 DEF Spent, Refuses
    <3>5. ~Spent(h, s) /\ Spent(g, s)
      <4>1. offset(h.seqlast, s) = o /\ offset(g.seqlast, s) = o /\ o \in g.seqmask
        BY <3>1, <3>3 DEF offset
      <4> QED BY <2>1, <3>1, <3>2, <4>1 DEF Spent, Refuses
    <3> QED BY <1>0, <3>3, <3>4, <3>5 DEF WindowKept, Forward
  <2> QED BY <2>2, <2>3
<1> QED BY <1>1, <1>2

-----------------------------------------------------------------------------
(* use_cache_entry: the entry is at the head, the others behind it in the  *)
(* order they had, and none of them is of the same transport.              *)
LEMMA UsedFirst ==
  ASSUME Safe, NEW x \in Xprts, NEW id \in Nat
  PROVE  LET c == use_cache_entry(x, id) IN
         /\ c \in Seq(Entry) /\ Len(c) \in Nat /\ Len(c) >= 1
         /\ c[1] = [xprt |-> x, gd |-> id, time_to_die |-> now + Life]
         /\ \A k \in 2 .. Len(c) : \E a \in 1 .. Len(svcauth_gss_cache) :
              c[k] = svcauth_gss_cache[a] /\ svcauth_gss_cache[a].xprt /= x
         /\ \A j, k \in 2 .. Len(c) : j < k => \E a, b \in 1 .. Len(svcauth_gss_cache) :
              a < b /\ c[j] = svcauth_gss_cache[a] /\ c[k] = svcauth_gss_cache[b]
<1> DEFINE l  == svcauth_gss_cache
           ks == lookup_cache_entry(x)
           e  == [xprt |-> x, gd |-> id, time_to_die |-> now + Life]
           u  == unlink(l, ks)
           c  == use_cache_entry(x, id)
           p(k) == IF ks = {} \/ k - 1 < First(ks) THEN k - 1 ELSE k
<1>1. TypeOK /\ CacheSound /\ l \in Seq(Entry) /\ Len(l) \in Nat
  BY LenProperties DEF Safe, GssCacheSound, TypeOK
<1>2. ks \subseteq 1 .. Len(l) /\ ks = {k \in 1 .. Len(l) : l[k].xprt = x}
  BY DEF lookup_cache_entry
<1>3. e \in Entry
  BY <1>1, GssAssumption DEF Entry, TypeOK
<1>4. /\ u \in Seq(Entry) /\ Len(u) \in Nat /\ Len(u) <= Len(l)
      /\ \A j \in 1 .. Len(u) : u[j] = IF ks = {} \/ j < First(ks) THEN l[j] ELSE l[j + 1]
      /\ ks /= {} => Len(u) = Len(l) - 1 /\ First(ks) \in ks
  <2> HIDE DEF ks
  <2>1. /\ u \in Seq(Entry) /\ Len(u) <= Len(l)
        /\ \A j \in 1 .. Len(u) : u[j] = IF ks = {} \/ j < First(ks) THEN l[j] ELSE l[j + 1]
        /\ ks /= {} => Len(u) = Len(l) - 1 /\ First(ks) \in ks
    <3>1. l \in Seq(Entry) /\ ks \in SUBSET (1 .. Len(l))
      BY <1>1, <1>2
    <3> HIDE DEF l
    <3> QED BY <3>1, UnlinkOne
  <2>2. Len(u) \in Nat
    BY <2>1, LenProperties
  <2> QED BY <2>1, <2>2
<1>5. <<e>> \in Seq(Entry) /\ Len(<<e>>) = 1 /\ <<e>>[1] = e
  BY <1>3
<1>6. c = <<e>> \o u
  BY DEF use_cache_entry
<1> HIDE DEF e, u, ks, c
<1>7. /\ c \in Seq(Entry) /\ Len(c) = 1 + Len(u)
      /\ \A k \in 1 .. 1 + Len(u) : c[k] = IF k <= 1 THEN <<e>>[k] ELSE u[k - 1]
  BY <1>4, <1>5, <1>6, ConcatProperties
<1>8. c[1] = e
  BY <1>4, <1>5, <1>7
<1>9. ASSUME NEW k \in 2 .. Len(c)
      PROVE  p(k) \in 1 .. Len(l) /\ c[k] = l[p(k)] /\ l[p(k)].xprt /= x
  <2>1. k - 1 \in 1 .. Len(u) /\ c[k] = u[k - 1]
    BY <1>4, <1>7
  <2>2. p(k) \in 1 .. Len(l) /\ c[k] = l[p(k)]
    <3>1. CASE ks = {}
      BY <1>1, <1>4, <2>1, <3>1
    <3>2. CASE ks /= {}
      <4>1. First(ks) \in 1 .. Len(l) /\ Len(u) = Len(l) - 1
        BY <1>2, <1>4, <3>2
      <4>2. CASE k - 1 < First(ks)
        BY <1>1, <1>4, <2>1, <3>2, <4>1, <4>2
      <4>3. CASE ~(k - 1 < First(ks))
        BY <1>1, <1>4, <2>1, <3>2, <4>1, <4>3
      <4> QED BY <4>2, <4>3
    <3> QED BY <3>1, <3>2
  <2>3. l[p(k)].xprt /= x
    <3>1. CASE ks = {}
      BY <1>2, <2>2, <3>1
    <3>2. CASE ks /= {}
      <4>1. First(ks) \in 1 .. Len(l) /\ l[First(ks)].xprt = x
        BY <1>2, <1>4, <3>2
      <4>2. p(k) /= First(ks)
        BY <2>1, <3>2, <4>1
      <4> QED BY <1>1, <2>2, <4>1, <4>2 DEF CacheSound
    <3> QED BY <3>1, <3>2
  <2> QED BY <2>2, <2>3
<1>10. ASSUME NEW j \in 2 .. Len(c), NEW k \in 2 .. Len(c), j < k PROVE p(j) < p(k)
  <2>1. CASE ks = {}
    BY <1>10, <2>1
  <2>2. CASE ks /= {}
    <3>1. First(ks) \in Nat
      BY <1>2, <1>4, <2>2
    <3> QED BY <1>10, <2>2, <3>1
  <2> QED BY <2>1, <2>2
<1> HIDE DEF p
<1>11. \A k \in 2 .. Len(c) : \E a \in 1 .. Len(l) : c[k] = l[a] /\ l[a].xprt /= x
  BY <1>9
<1>12. \A j, k \in 2 .. Len(c) : j < k => \E a, b \in 1 .. Len(l) :
         a < b /\ c[j] = l[a] /\ c[k] = l[b]
  BY <1>9, <1>10
<1> QED BY <1>4, <1>7, <1>8, <1>11, <1>12 DEF c, e

(* destroy_cold_cache_entries keeps at least the entry that was just used. *)
LEMMA WarmKept ==
  ASSUME now \in Nat, NEW c \in Seq(Entry), Len(c) >= 1, c[1].time_to_die = now + Life
  PROVE  warm(c) \in 1 .. Len(c)
<1> DEFINE cold == {k \in 1 .. Len(c) : now > c[k].time_to_die}
<1>1. Len(c) \in Nat /\ cold \subseteq Nat /\ 1 \notin cold
  BY GssAssumption, LenProperties
<1>2. CASE cold = {}
  BY <1>1, <1>2 DEF warm
<1>3. CASE cold /= {}
  <2>1. First(cold) \in cold
    BY <1>1, <1>3, FirstIsLeast
  <2>2. warm(c) = First(cold) - 1
    BY <1>3 DEF warm
  <2> HIDE DEF cold
  <2>3. First(cold) \in 1 .. Len(c) /\ First(cold) /= 1
    BY <1>1, <2>1 DEF cold
  <2> QED BY <1>1, <2>2, <2>3
<1> QED BY <1>2, <1>3

(* What the first part of _svcauth_gss leaves: the data of the transport,  *)
(* new or those of its entry, at the head of a sound cache, and the data   *)
(* it destroyed, of which no entry is left.                                *)
EnterSound(e, x) ==
  /\ e.gd \in Gd /\ ~e.gd.freed
  /\ e.new \in BOOLEAN
  /\ e.new => e.id = Len(gds) + 1 /\ e.gd = NewGd(conn[x])
  /\ ~e.new => e.id \in 1 .. Len(gds) /\ e.gd = gds[e.id]
  /\ e.cache \in Seq(Entry) /\ Len(e.cache) >= 1 /\ e.cache[1].gd = e.id
  /\ \A k \in 1 .. Len(e.cache) :
       /\ e.cache[k].gd \notin e.dead /\ e.cache[k].time_to_die <= now + Life
       /\ e.cache[k].gd /= e.id => e.cache[k].gd \in 1 .. Len(gds) /\ ~gds[e.cache[k].gd].freed
  /\ \A j, k \in 1 .. Len(e.cache) : j < k =>
       /\ e.cache[j].xprt /= e.cache[k].xprt /\ e.cache[j].gd /= e.cache[k].gd
       /\ e.cache[j].time_to_die >= e.cache[k].time_to_die
  /\ e.id \notin e.dead

(* lookup_cache_entry, use_cache_entry and the destruction of the cold     *)
(* entries at the head of _svcauth_gss, for whatever transport.            *)
LEMMA EnterFinds ==
  ASSUME Safe, NEW x \in Xprts
  PROVE  EnterSound(Enter(x), x)
<1> DEFINE l  == svcauth_gss_cache
           ks == lookup_cache_entry(x)
           id == IF ks = {} THEN Len(gds) + 1 ELSE l[First(ks)].gd
           c  == use_cache_entry(x, id)
           w  == warm(c)
           e  == Enter(x)
           new == NewGd(conn[x])
<1>1. /\ TypeOK /\ CacheSound /\ ColdAtTheEnd /\ now \in Nat /\ conn[x] \in Nat
      /\ l \in Seq(Entry) /\ Len(l) \in Nat /\ gds \in Seq(Gd) /\ Len(gds) \in Nat
  BY LenProperties DEF Safe, GssCacheSound, TypeOK
<1>2. ks /= {} => First(ks) \in 1 .. Len(l) /\ l[First(ks)].xprt = x
  <2>1. ks \subseteq Nat /\ ks = {k \in 1 .. Len(l) : l[k].xprt = x}
    BY <1>1 DEF lookup_cache_entry
  <2> HIDE DEF ks, l
  <2> QED BY <2>1, FirstIsLeast
<1>3. /\ id \in Nat
      /\ ks = {} => id = Len(gds) + 1
      /\ ks /= {} => id \in 1 .. Len(gds) /\ ~gds[id].freed
  BY <1>1, <1>2 DEF CacheSound
<1>4. /\ c \in Seq(Entry) /\ Len(c) \in Nat /\ Len(c) >= 1
      /\ c[1] = [xprt |-> x, gd |-> id, time_to_die |-> now + Life]
      /\ \A k \in 2 .. Len(c) : \E a \in 1 .. Len(l) : c[k] = l[a] /\ l[a].xprt /= x
      /\ \A j, k \in 2 .. Len(c) : j < k => \E a, b \in 1 .. Len(l) :
           a < b /\ c[j] = l[a] /\ c[k] = l[b]
  <2> HIDE DEF id
  <2> QED BY <1>3, UsedFirst
<1>5. /\ e.id = id /\ e.new = (ks = {}) /\ e.gd = (IF ks = {} THEN new ELSE gds[id])
      /\ e.cache = SubSeq(c, 1, w) /\ e.dead = {c[k].gd : k \in w + 1 .. Len(c)}
  BY DEF Enter
<1>6. new \in Gd /\ ~new.freed
  BY <1>1, GssAssumption DEF NewGd, Gd, None
<1> HIDE DEF l, ks, id, c, w, e, new
<1>7. \A k \in 2 .. Len(c) : /\ c[k].xprt /= x /\ c[k].gd /= id
                             /\ c[k].gd \in 1 .. Len(gds) /\ ~gds[c[k].gd].freed
                             /\ c[k].time_to_die <= now + Life
  <2> SUFFICES ASSUME NEW k \in 2 .. Len(c)
               PROVE  /\ c[k].xprt /= x /\ c[k].gd /= id
                      /\ c[k].gd \in 1 .. Len(gds) /\ ~gds[c[k].gd].freed
                      /\ c[k].time_to_die <= now + Life
    OBVIOUS
  <2>1. PICK a \in 1 .. Len(l) : c[k] = l[a] /\ l[a].xprt /= x
    BY <1>4
  <2>2. c[k].gd \in 1 .. Len(gds) /\ ~gds[c[k].gd].freed /\ c[k].time_to_die <= now + Life
    BY <1>1, <2>1 DEF CacheSound, ColdAtTheEnd, l
  <2>3. CASE ks = {}
    BY <1>1, <1>3, <2>1, <2>2, <2>3
  <2>4. CASE ks /= {}
    <3>1. id = l[First(ks)].gd /\ a /= First(ks)
      BY <1>2, <2>1, <2>4 DEF id
    <3>2. l[a].gd /= l[First(ks)].gd
      BY <1>1, <1>2, <2>1, <2>4, <3>1 DEF CacheSound, l
    <3> QED BY <2>1, <2>2, <3>1, <3>2
  <2> QED BY <2>3, <2>4
<1>8. \A j, k \in 1 .. Len(c) : j < k =>
        /\ c[j].xprt /= c[k].xprt /\ c[j].gd /= c[k].gd
        /\ c[j].time_to_die >= c[k].time_to_die
  <2> SUFFICES ASSUME NEW j \in 1 .. Len(c), NEW k \in 1 .. Len(c), j < k
               PROVE  /\ c[j].xprt /= c[k].xprt /\ c[j].gd /= c[k].gd
                      /\ c[j].time_to_die >= c[k].time_to_die
    OBVIOUS
  <2>1. CASE j = 1
    <3>1. k \in 2 .. Len(c)
      BY <1>4, <2>1
    <3>2. c[j].xprt = x /\ c[j].gd = id /\ c[j].time_to_die = now + Life
      BY <1>4, <2>1
    <3>3. c[k].time_to_die \in Nat /\ now + Life \in Nat
      <4>1. c[k] \in Entry
        BY <1>4, ElementOfSeq
      <4> QED BY <1>1, <4>1, GssAssumption DEF Entry
    <3> QED BY <1>7, <3>1, <3>2, <3>3
  <2>2. CASE j /= 1
    <3>1. j \in 2 .. Len(c) /\ k \in 2 .. Len(c)
      BY <1>4, <2>2
    <3>2. PICK a \in 1 .. Len(l), b \in 1 .. Len(l) : a < b /\ c[j] = l[a] /\ c[k] = l[b]
      BY <1>4, <3>1
    <3> QED BY <1>1, <3>2 DEF CacheSound, ColdAtTheEnd, l
  <2> QED BY <2>1, <2>2
<1>9. w \in 1 .. Len(c)
  BY <1>1, <1>4, WarmKept DEF w
<1>10. /\ SubSeq(c, 1, w) \in Seq(Entry) /\ Len(SubSeq(c, 1, w)) = w
       /\ \A k \in 1 .. w : SubSeq(c, 1, w)[k] = c[k]
  <2>1. \A k \in 1 .. w : c[k] \in Entry
    BY <1>4, <1>9, ElementOfSeq
  <2> QED BY <1>4, <1>9, <2>1, SubSeqProperties
<1>11. e.cache \in Seq(Entry) /\ Len(e.cache) = w /\ \A k \in 1 .. w : e.cache[k] = c[k]
  BY <1>5, <1>10
<1>12. \A k \in 1 .. w : c[k].gd \notin e.dead
  <2> SUFFICES ASSUME NEW k \in 1 .. w, c[k].gd \in e.dead PROVE FALSE
    OBVIOUS
  <2>1. PICK m \in w + 1 .. Len(c) : c[m].gd = c[k].gd
    BY <1>5
  <2>2. k \in 1 .. Len(c) /\ m \in 1 .. Len(c) /\ k < m
    BY <1>4, <1>9
  <2> QED BY <1>8, <2>1, <2>2
<1>13. e.id \notin e.dead /\ c[1].gd = id
  <2>1. 1 \in 1 .. w /\ c[1].gd = id
    BY <1>4, <1>9
  <2> QED BY <1>5, <1>12, <2>1
<1>14. e.gd \in Gd /\ ~e.gd.freed
  <2>1. CASE ks = {}
    BY <1>5, <1>6, <2>1
  <2>2. CASE ks /= {}
    BY <1>1, <1>3, <1>5, <2>2, ElementOfSeq
  <2> QED BY <2>1, <2>2
<1>15. \A k \in 1 .. w : c[k].time_to_die <= now + Life
  <2>1. c[1].time_to_die = now + Life /\ now + Life \in Nat
    BY <1>1, <1>4, GssAssumption
  <2> QED BY <1>4, <1>7, <1>9, <2>1
<1>16. \A k \in 1 .. w : c[k].gd /= id => c[k].gd \in 1 .. Len(gds) /\ ~gds[c[k].gd].freed
  BY <1>4, <1>7, <1>9
<1>17. /\ e.new \in BOOLEAN
       /\ e.new => e.id = Len(gds) + 1 /\ e.gd = new
       /\ ~e.new => e.id \in 1 .. Len(gds) /\ e.gd = gds[e.id]
  BY <1>3, <1>5
<1>18. \A j, k \in 1 .. w : j < k =>
         /\ c[j].xprt /= c[k].xprt /\ c[j].gd /= c[k].gd
         /\ c[j].time_to_die >= c[k].time_to_die
  <2>1. \A k \in 1 .. w : k \in 1 .. Len(c)
    BY <1>4, <1>9
  <2> QED BY <1>8, <2>1
<1>19. Len(e.cache) >= 1 /\ e.cache[1].gd = e.id
  BY <1>4, <1>5, <1>9, <1>11, <1>13
<1>20. EnterSound(e, x)
  <2>1. \A k \in 1 .. Len(e.cache) :
          /\ e.cache[k].gd \notin e.dead /\ e.cache[k].time_to_die <= now + Life
          /\ e.cache[k].gd /= e.id =>
               e.cache[k].gd \in 1 .. Len(gds) /\ ~gds[e.cache[k].gd].freed
    BY <1>5, <1>11, <1>12, <1>15, <1>16
  <2>2. \A j, k \in 1 .. Len(e.cache) : j < k =>
          /\ e.cache[j].xprt /= e.cache[k].xprt /\ e.cache[j].gd /= e.cache[k].gd
          /\ e.cache[j].time_to_die >= e.cache[k].time_to_die
    BY <1>11, <1>18
  <2> QED BY <1>11, <1>13, <1>14, <1>17, <1>19, <2>1, <2>2, Zenon DEF EnterSound, new
<1> QED BY <1>20 DEF e

(* destroy_gd.                                                             *)
Dead(g) == [g EXCEPT !.freed = TRUE, !.ctx = None]

(* What _svcauth_gss leaves when the data of the transport become g, or    *)
(* when they are destroyed: of the other data some are destroyed and none  *)
(* changed, and the cache is sound.                                        *)
LEMMA LeaveSound ==
  ASSUME Safe, NEW x \in Xprts, NEW g \in Gd, ~g.freed, NEW drop \in BOOLEAN,
         Leave(x, Enter(x), g, drop), now' = now
  PROVE  LET id == Enter(x).id IN
         /\ svcauth_gss_cache' \in Seq(Entry) /\ gds' \in Seq(Gd)
         /\ svc_ah_private' \in [Xprts -> Nat]
         /\ \A k \in 1 .. Len(gds') : k \in 1 .. Len(gds) \/ k = id
         /\ id \in 1 .. Len(gds') /\ Len(gds) <= Len(gds')
         /\ gds'[id] = IF drop THEN Dead(g) ELSE g
         /\ \A k \in 1 .. Len(gds) : k /= id => gds'[k] = gds[k] \/ gds'[k] = Dead(gds[k])
         /\ CacheSound' /\ ColdAtTheEnd'
<1> DEFINE e == Enter(x)
           all == IF e.new THEN Append(gds, g) ELSE [gds EXCEPT ![e.id] = g]
           dead == e.dead \cup IF drop THEN {e.id} ELSE {}
           S == {k \in 1 .. Len(e.cache) : e.cache[k].gd = e.id}
<1>1. EnterSound(e, x)
  BY EnterFinds
<1>2. /\ gds' = [k \in 1 .. Len(all) |-> IF k \in dead THEN Dead(all[k]) ELSE all[k]]
      /\ svcauth_gss_cache' = IF drop THEN unlink(e.cache, S) ELSE e.cache
      /\ svc_ah_private' = [svc_ah_private EXCEPT ![x] = IF drop THEN None ELSE e.id]
  BY DEF Leave, Dead
<1>3. gds \in Seq(Gd) /\ Len(gds) \in Nat /\ svc_ah_private \in [Xprts -> Nat] /\ now \in Nat
  BY LenProperties DEF Safe, TypeOK
<1> HIDE DEF e
<1>4. e.id \in Nat /\ e.cache \in Seq(Entry) /\ Len(e.cache) \in Nat
  BY <1>1, <1>3, LenProperties DEF EnterSound
<1>5. /\ all \in Seq(Gd) /\ Len(all) \in Nat /\ Len(gds) <= Len(all)
      /\ e.id \in 1 .. Len(all) /\ all[e.id] = g
      /\ \A k \in 1 .. Len(all) : k \in 1 .. Len(gds) \/ k = e.id
      /\ \A k \in 1 .. Len(gds) : k /= e.id => all[k] = gds[k]
  <2>1. CASE e.new
    <3>1. e.id = Len(gds) + 1 /\ all = Append(gds, g)
      BY <1>1, <2>1 DEF EnterSound
    <3> QED BY <1>3, <3>1, AppendProperties
  <2>2. CASE ~e.new
    <3>1. e.id \in 1 .. Len(gds) /\ all = [gds EXCEPT ![e.id] = g]
      BY <1>1, <2>2 DEF EnterSound
    <3> QED BY <1>3, <3>1, ExceptSeq
  <2> QED BY <1>1, <2>1, <2>2 DEF EnterSound
<1> HIDE DEF all, dead
<1>6. \A h \in Gd : Dead(h) \in Gd /\ Dead(h).freed
  BY DEF Dead, Gd, None
<1>7. gds' \in Seq(Gd) /\ Len(gds') = Len(all)
  <2>1. gds' \in [1 .. Len(all) -> Gd]
    <3>1. \A k \in 1 .. Len(all) : all[k] \in Gd
      BY <1>5, ElementOfSeq
    <3> QED BY <1>2, <1>6, <3>1
  <2>2. gds' \in Seq(Gd)
    BY <1>5, <2>1, SeqDef
  <2>3. DOMAIN gds' = 1 .. Len(gds') /\ Len(gds') \in Nat /\ DOMAIN gds' = 1 .. Len(all)
    BY <2>1, <2>2, LenProperties
  <2> QED BY <1>5, <2>2, <2>3
<1>8. \A k \in 1 .. Len(all) : gds'[k] = IF k \in dead THEN Dead(all[k]) ELSE all[k]
  BY <1>2
<1>9. gds'[e.id] = IF drop THEN Dead(g) ELSE g
  BY <1>1, <1>5, <1>8 DEF dead, EnterSound
<1>10. \A k \in 1 .. Len(gds) : k /= e.id => gds'[k] = gds[k] \/ gds'[k] = Dead(gds[k])
  BY <1>3, <1>5, <1>8
<1>11. \A k \in 1 .. Len(e.cache) : e.cache[k].gd /= e.id =>
         e.cache[k].gd \in 1 .. Len(gds') /\ gds'[e.cache[k].gd] = gds[e.cache[k].gd]
           /\ ~gds[e.cache[k].gd].freed
  <2> SUFFICES ASSUME NEW k \in 1 .. Len(e.cache), e.cache[k].gd /= e.id
               PROVE  /\ e.cache[k].gd \in 1 .. Len(gds')
                      /\ gds'[e.cache[k].gd] = gds[e.cache[k].gd] /\ ~gds[e.cache[k].gd].freed
    OBVIOUS
  <2>1. /\ e.cache[k].gd \in 1 .. Len(gds) /\ e.cache[k].gd \notin dead
        /\ ~gds[e.cache[k].gd].freed
    BY <1>1 DEF EnterSound, dead
  <2>2. e.cache[k].gd \in 1 .. Len(all)
    BY <1>3, <1>5, <2>1
  <2> QED BY <1>5, <1>7, <1>8, <2>1, <2>2
<1>12. \A k \in 1 .. Len(e.cache) : e.cache[k] \in Entry
  BY <1>4, ElementOfSeq
<1>13. /\ svcauth_gss_cache' \in Seq(Entry) /\ CacheSound' /\ ColdAtTheEnd'
  <2> DEFINE l == svcauth_gss_cache'
  <2>1. CASE ~drop
    <3>1. svcauth_gss_cache' = e.cache
      BY <1>2, <2>1
    <3>2. \A k \in 1 .. Len(e.cache) : e.cache[k].gd \in 1 .. Len(gds') /\ ~gds'[e.cache[k].gd].freed
      BY <1>5, <1>7, <1>9, <1>11, <2>1
    <3>3. CacheSound'
      <4>1. \A j, k \in 1 .. Len(e.cache) : j /= k =>
              e.cache[j].xprt /= e.cache[k].xprt /\ e.cache[j].gd /= e.cache[k].gd
        BY <1>1, <1>4 DEF EnterSound
      <4> QED BY <1>12, <3>1, <3>2, <4>1 DEF CacheSound, Entry
    <3>4. ColdAtTheEnd'
      BY <1>1, <3>1 DEF EnterSound, ColdAtTheEnd
    <3> QED BY <1>4, <3>1, <3>3, <3>4
  <2>2. CASE drop
    <3>1. S = {1}
      BY <1>1, <1>4 DEF EnterSound
    <3>2. First({1}) = 1
      BY DEF First
    <3>3. /\ unlink(e.cache, S) \in Seq(Entry)
          /\ Len(unlink(e.cache, S)) = Len(e.cache) - 1
          /\ \A j \in 1 .. Len(e.cache) - 1 : unlink(e.cache, S)[j] = e.cache[j + 1]
      <4>1. S \in SUBSET (1 .. Len(e.cache)) /\ S /= {}
        BY <3>1
      <4> HIDE DEF S
      <4>2. /\ unlink(e.cache, S) \in Seq(Entry)
            /\ \A j \in 1 .. Len(unlink(e.cache, S)) :
                 unlink(e.cache, S)[j] = IF S = {} \/ j < First(S) THEN e.cache[j] ELSE e.cache[j + 1]
            /\ S /= {} => Len(unlink(e.cache, S)) = Len(e.cache) - 1
        BY <1>4, <4>1, UnlinkOne
      <4>3. \A j \in 1 .. Len(e.cache) - 1 : ~(j < First(S))
        BY <3>1, <3>2
      <4> QED BY <4>1, <4>2, <4>3
    <3>4. /\ l \in Seq(Entry) /\ Len(l) = Len(e.cache) - 1
          /\ \A j \in 1 .. Len(l) : l[j] = e.cache[j + 1]
      BY <1>2, <2>2, <3>3
    <3>5. \A j \in 1 .. Len(l) : j + 1 \in 1 .. Len(e.cache) /\ e.cache[j + 1].gd /= e.id
      <4>1. \A j \in 1 .. Len(l) : j + 1 \in 1 .. Len(e.cache) /\ 1 < j + 1 /\ 1 \in 1 .. Len(e.cache)
        BY <1>4, <3>4
      <4> HIDE DEF l
      <4> QED BY <1>1, <4>1 DEF EnterSound
    <3>6. CacheSound'
      <4>1. \A j, k \in 1 .. Len(l) : j /= k => l[j].xprt /= l[k].xprt /\ l[j].gd /= l[k].gd
        <5>1. \A j, k \in 1 .. Len(e.cache) : j /= k =>
                e.cache[j].xprt /= e.cache[k].xprt /\ e.cache[j].gd /= e.cache[k].gd
          BY <1>1, <1>4 DEF EnterSound
        <5> QED BY <3>4, <3>5, <5>1
      <4>2. \A j \in 1 .. Len(l) : l[j].xprt \in Xprts /\ l[j].gd \in 1 .. Len(gds') /\ ~gds'[l[j].gd].freed
        <5> SUFFICES ASSUME NEW j \in 1 .. Len(l)
                     PROVE  /\ l[j].xprt \in Xprts /\ l[j].gd \in 1 .. Len(gds')
                            /\ ~gds'[l[j].gd].freed
          OBVIOUS
        <5> HIDE DEF l
        <5>1. l[j] = e.cache[j + 1] /\ j + 1 \in 1 .. Len(e.cache) /\ e.cache[j + 1].gd /= e.id
          BY <3>4, <3>5
        <5>2. l[j].xprt \in Xprts
          BY <1>12, <5>1 DEF Entry
        <5> QED BY <1>11, <5>1, <5>2
      <4> QED BY <4>1, <4>2 DEF CacheSound
    <3>7. ColdAtTheEnd'
      <4>1. \A j, k \in 1 .. Len(l) : j < k => l[j].time_to_die >= l[k].time_to_die
        <5>1. \A j, k \in 1 .. Len(e.cache) : j < k =>
                e.cache[j].time_to_die >= e.cache[k].time_to_die
          BY <1>1 DEF EnterSound
        <5> QED BY <3>4, <3>5, <5>1
      <4>2. \A j \in 1 .. Len(l) : l[j].time_to_die <= now + Life
        BY <1>1, <3>4, <3>5 DEF EnterSound
      <4> QED BY <4>1, <4>2 DEF ColdAtTheEnd
    <3> QED BY <3>4, <3>6, <3>7
  <2> QED BY <2>1, <2>2
<1>14. svc_ah_private' \in [Xprts -> Nat]
  BY <1>2, <1>3, <1>4 DEF None
<1> QED BY <1>5, <1>7, <1>9, <1>10, <1>13, <1>14 DEF e

-----------------------------------------------------------------------------
(* How data change but when a context is accepted: the context stays or is *)
(* given up, what was spent is, a locked service stays.                    *)
Evolves(h, g) ==
  /\ g.ctx = h.ctx \/ g.ctx = None
  /\ h.established => g.established
  /\ WindowKept(h, g)
KeepsService(h, g) == h.locked /\ h.callback_done /\ g.callback_done => g.rsvc = h.rsvc

(* What a step must keep and may do.                                       *)
GoodStep == Safe' /\ GivenOnce /\ ServiceHeld /\ WindowHeld

(* A locked service stays, and no window moves back but from the largest   *)
(* number, whatever became of other transports' data.                      *)
LEMMA ServiceStays ==
  ASSUME Safe, NEW x \in Xprts, NEW g \in Gd, ~g.freed, NEW drop \in BOOLEAN,
         Leave(x, Enter(x), g, drop), now' = now, KeepsService(Enter(x).gd, g), Forward(Enter(x).gd, g)
  PROVE  ServiceHeld /\ WindowHeld
<1> DEFINE e == Enter(x)
<1>1. EnterSound(e, x)
  BY EnterFinds
<1>2. /\ gds'[e.id] = IF drop THEN Dead(g) ELSE g
      /\ \A k \in 1 .. Len(gds) : k /= e.id => gds'[k] = gds[k] \/ gds'[k] = Dead(gds[k])
  BY LeaveSound
<1>3. gds \in Seq(Gd)
  BY DEF Safe, TypeOK
<1>4. \A h \in Gd : /\ Dead(h).callback_done = h.callback_done /\ Dead(h).rsvc = h.rsvc
                   /\ Dead(h).seqlast = h.seqlast
  BY DEF Dead, Gd
<1> HIDE DEF e
<1> SUFFICES ASSUME NEW k \in 1 .. Len(gds)
             PROVE  /\ gds[k].locked /\ gds[k].callback_done /\ gds'[k].callback_done
                         => gds'[k].rsvc = gds[k].rsvc
                    /\ Forward(gds[k], gds'[k])
  BY DEF ServiceHeld, WindowHeld
<1>5. gds[k] \in Gd
  BY <1>3, ElementOfSeq
<1>6. CASE k /= e.id
  <2>1. gds[k].seqlast \in Nat /\ gds'[k].seqlast = gds[k].seqlast
    BY <1>2, <1>4, <1>5, <1>6 DEF Gd
  <2> QED BY <1>2, <1>4, <1>5, <1>6, <2>1 DEF Forward
<1>7. CASE k = e.id
  <2>1. ~e.new /\ e.gd = gds[k]
    <3>1. Len(gds) \in Nat
      BY <1>3, LenProperties
    <3> QED BY <1>1, <1>7, <3>1 DEF EnterSound
  <2>2. gds'[k].seqlast = g.seqlast
    BY <1>2, <1>4, <1>7
  <2>3. Forward(gds[k], gds'[k])
    BY <2>1, <2>2 DEF Forward, e
  <2> QED BY <1>2, <1>4, <1>7, <2>1, <2>3 DEF KeepsService, e
<1> QED BY <1>6, <1>7

(* The counts of a context, and a step that gives nothing to the service.  *)
LEMMA CountsTyped ==
  ASSUME TypeOK, NEW c \in 1 .. MaxCtx, NEW s \in DOMAIN dispatched[c]
  PROVE  s \in Seqs /\ s \in Nat /\ dispatched[c][s] \in Nat
<1>1. dispatched[c] \in [Seqs -> Nat]
  BY DEF TypeOK
<1>2. s \in Seqs
  BY <1>1
<1> QED BY <1>1, <1>2, GssAssumption

(* A step that counts no request has given none to the service twice.      *)
LEMMA NothingGiven ==
  ASSUME TypeOK, dispatched' = dispatched
  PROVE  GivenOnce
<1>1. ASSUME NEW c \in 1 .. MaxCtx, Dispatched(c) PROVE FALSE
  <2>1. PICK s \in DOMAIN dispatched[c] : dispatched[c][s] > dispatched[c][s]
    BY <1>1 DEF Dispatched
  <2>2. dispatched[c][s] \in Nat
    BY CountsTyped
  <2> QED BY <2>1, <2>2
<1> QED BY <1>1 DEF GivenOnce

(* Requests that are refused, and contexts that are destroyed.             *)
LEMMA QuietStep ==
  ASSUME Safe, NEW x \in Xprts, NEW g \in Gd, ~g.freed, NEW drop \in BOOLEAN,
         Leave(x, Enter(x), g, drop), UNCHANGED <<now, conn, nconn, ctxs, dispatched>>,
         Evolves(Enter(x).gd, g), KeepsService(Enter(x).gd, g)
  PROVE  GoodStep
<1> DEFINE e == Enter(x)
<1>1. EnterSound(e, x)
  BY EnterFinds
<1>2. /\ svcauth_gss_cache' \in Seq(Entry) /\ gds' \in Seq(Gd)
      /\ svc_ah_private' \in [Xprts -> Nat]
      /\ \A k \in 1 .. Len(gds') : k \in 1 .. Len(gds) \/ k = e.id
      /\ e.id \in 1 .. Len(gds')
      /\ gds'[e.id] = IF drop THEN Dead(g) ELSE g
      /\ \A k \in 1 .. Len(gds) : k /= e.id => gds'[k] = gds[k] \/ gds'[k] = Dead(gds[k])
      /\ CacheSound' /\ ColdAtTheEnd'
  BY LeaveSound
<1>3. ServiceHeld /\ WindowHeld
  BY ServiceStays DEF Evolves, WindowKept
<1>4. gds \in Seq(Gd) /\ Len(gds) \in Nat
  BY LenProperties DEF Safe, TypeOK
<1>5. Evolves(e.gd, g)
  OBVIOUS
<1> HIDE DEF e
<1>6. \A h \in Gd : Dead(h).ctx = None
  BY DEF Dead, Gd
<1>7. ASSUME NEW k \in 1 .. Len(gds'), gds'[k].ctx /= None
      PROVE  /\ k \in 1 .. Len(gds) /\ gds[k].ctx = gds'[k].ctx
             /\ gds'[k] = gds[k] \/ (gds'[k] = g /\ Evolves(gds[k], g) /\ k = e.id)
  <2>1. CASE k = e.id
    <3>1. gds'[k] = g /\ g.ctx /= None
      BY <1>2, <1>6, <1>7, <2>1
    <3>2. e.gd.ctx = g.ctx
      BY <1>5, <3>1 DEF Evolves
    <3>3. ~e.new
      <4>1. NewGd(conn[x]).ctx = None
        BY DEF NewGd
      <4> QED BY <1>1, <3>1, <3>2, <4>1 DEF EnterSound
    <3> QED BY <1>1, <1>5, <2>1, <3>1, <3>2, <3>3 DEF EnterSound
  <2>2. CASE k /= e.id
    <3>1. k \in 1 .. Len(gds) /\ gds[k] \in Gd
      BY <1>2, <1>4, <2>2, ElementOfSeq
    <3> QED BY <1>2, <1>6, <1>7, <2>2, <3>1
  <2> QED BY <2>1, <2>2
<1>8. ContextsOwned'
  <2> SUFFICES ASSUME NEW k \in 1 .. Len(gds'), gds'[k].ctx /= None
               PROVE  /\ ~gds'[k].freed /\ gds'[k].ctx \in 1 .. Len(ctxs)
                      /\ ctxs[gds'[k].ctx].known => gds'[k].established
                      /\ \A j \in 1 .. Len(gds') : gds'[j].ctx = gds'[k].ctx => j = k
    BY DEF ContextsOwned
  <2>1. /\ k \in 1 .. Len(gds) /\ gds[k].ctx = gds'[k].ctx
        /\ gds'[k] = gds[k] \/ (gds'[k] = g /\ Evolves(gds[k], g))
    BY <1>7
  <2>2. ContextsOwned
    BY DEF Safe, GssCacheSound
  <2>3. ~gds'[k].freed /\ (gds[k].established => gds'[k].established)
    BY <2>1, <2>2 DEF ContextsOwned, Evolves
  <2>4. ASSUME NEW j \in 1 .. Len(gds'), gds'[j].ctx = gds'[k].ctx PROVE j = k
    <3>1. j \in 1 .. Len(gds) /\ gds[j].ctx = gds'[j].ctx
      BY <1>7, <2>4
    <3> QED BY <2>1, <2>2, <2>4, <3>1 DEF ContextsOwned
  <2> QED BY <2>1, <2>2, <2>3, <2>4 DEF ContextsOwned
<1>9. SeenRefused'
  <2>1. SeenRefused /\ TypeOK /\ ContextsOwned
    BY DEF Safe, GssCacheSound
  <2>2. ASSUME NEW k \in 1 .. Len(gds'), gds'[k].ctx /= None, ~gds'[k].back,
               NEW s \in DOMAIN dispatched[gds'[k].ctx], dispatched[gds'[k].ctx][s] > 0
        PROVE  dispatched[gds'[k].ctx][s] = 1 /\ Spent(gds'[k], s)
    <3>1. /\ k \in 1 .. Len(gds) /\ gds[k].ctx = gds'[k].ctx
          /\ gds'[k] = gds[k] \/ (gds'[k] = g /\ Evolves(gds[k], g))
      BY <1>7, <2>2
    <3>2. ~gds[k].back
      BY <2>2, <3>1 DEF Evolves, WindowKept
    <3>3. dispatched[gds[k].ctx][s] = 1 /\ Spent(gds[k], s)
      BY <2>1, <2>2, <3>1, <3>2 DEF SeenRefused
    <3>4. s \in Nat
      <4>1. gds[k].ctx \in 1 .. MaxCtx
        <5>1. gds[k].ctx \in 1 .. Len(ctxs) /\ Len(ctxs) \in Nat /\ Len(ctxs) <= MaxCtx
          BY <2>1, <2>2, <3>1, LenProperties DEF ContextsOwned, TypeOK
        <5> QED BY <5>1, GssAssumption
      <4> QED BY <2>1, <2>2, <3>1, <4>1, CountsTyped
    <3> QED BY <2>2, <3>1, <3>3, <3>4 DEF Evolves, WindowKept
  <2>3. \A c \in DOMAIN dispatched : \A s \in DOMAIN dispatched[c] :
          dispatched[c][s] > 0 => c <= Len(ctxs)
    BY <2>1 DEF SeenRefused
  <2> QED BY <2>2, <2>3 DEF SeenRefused
<1>10. TypeOK'
  BY <1>2 DEF Safe, TypeOK
<1>11. GivenOnce
  BY NothingGiven DEF Safe
<1> QED BY <1>2, <1>3, <1>8, <1>9, <1>10, <1>11 DEF GoodStep, Safe, GssCacheSound

(* RPCSEC_GSS_INIT makes a context: it is nobody else's, and no request    *)
(* was made with it.                                                       *)
LEMMA AcceptStep ==
  ASSUME Safe, NEW x \in Xprts, NEW g \in Gd, ~g.freed, g.ctx = Len(ctxs) + 1,
         ~g.callback_done, Forward(Enter(x).gd, g), NEW held \in BOOLEAN, held => g.established,
         Len(ctxs) < MaxCtx, Leave(x, Enter(x), g, FALSE),
         ctxs' = Append(ctxs, [conn |-> conn[x], known |-> held]),
         UNCHANGED <<now, conn, nconn, dispatched>>
  PROVE  GoodStep
<1> DEFINE e == Enter(x)
           new == [conn |-> conn[x], known |-> held]
<1>1. /\ svcauth_gss_cache' \in Seq(Entry) /\ gds' \in Seq(Gd)
      /\ svc_ah_private' \in [Xprts -> Nat]
      /\ \A k \in 1 .. Len(gds') : k \in 1 .. Len(gds) \/ k = e.id
      /\ gds'[e.id] = g
      /\ \A k \in 1 .. Len(gds) : k /= e.id => gds'[k] = gds[k] \/ gds'[k] = Dead(gds[k])
      /\ CacheSound' /\ ColdAtTheEnd'
  BY LeaveSound
<1>2. ServiceHeld /\ WindowHeld
  BY ServiceStays DEF KeepsService
<1>3. /\ TypeOK /\ ContextsOwned /\ SeenRefused
      /\ gds \in Seq(Gd) /\ Len(gds) \in Nat
      /\ ctxs \in Seq([conn : Nat, known : BOOLEAN]) /\ Len(ctxs) \in Nat
      /\ dispatched \in [1 .. MaxCtx -> [Seqs -> Nat]]
  BY LenProperties DEF Safe, GssCacheSound, TypeOK
<1> HIDE DEF e
<1>4. new \in [conn : Nat, known : BOOLEAN]
  BY <1>3 DEF TypeOK
<1>5. /\ ctxs' \in Seq([conn : Nat, known : BOOLEAN]) /\ Len(ctxs') = Len(ctxs) + 1
      /\ \A c \in 1 .. Len(ctxs) : ctxs'[c] = ctxs[c]
      /\ ctxs'[Len(ctxs) + 1].known = held
  BY <1>3, <1>4, AppendProperties
<1>6. \A h \in Gd : Dead(h).ctx = None
  BY DEF Dead, Gd
<1>7. ASSUME NEW k \in 1 .. Len(gds'), gds'[k].ctx /= None, k /= e.id
      PROVE  k \in 1 .. Len(gds) /\ gds'[k] = gds[k] /\ gds[k].ctx \in 1 .. Len(ctxs)
  <2>1. k \in 1 .. Len(gds) /\ gds[k] \in Gd
    BY <1>1, <1>3, <1>7, ElementOfSeq
  <2>2. gds'[k] = gds[k]
    BY <1>1, <1>6, <1>7, <2>1
  <2> QED BY <1>3, <1>7, <2>1, <2>2 DEF ContextsOwned
<1>8. ContextsOwned'
  <2> SUFFICES ASSUME NEW k \in 1 .. Len(gds'), gds'[k].ctx /= None
               PROVE  /\ ~gds'[k].freed /\ gds'[k].ctx \in 1 .. Len(ctxs')
                      /\ ctxs'[gds'[k].ctx].known => gds'[k].established
                      /\ \A j \in 1 .. Len(gds') : gds'[j].ctx = gds'[k].ctx => j = k
    BY DEF ContextsOwned
  <2>1. CASE k = e.id
    <3>1. /\ ~gds'[k].freed /\ gds'[k].ctx = Len(ctxs) + 1 /\ gds'[k].established = g.established
      BY <1>1, <2>1
    <3>2. ASSUME NEW j \in 1 .. Len(gds'), gds'[j].ctx = gds'[k].ctx PROVE j = k
      <4>1. j /= e.id => gds'[j].ctx \in 1 .. Len(ctxs)
        BY <1>7, <3>2
      <4> QED BY <1>3, <2>1, <3>1, <3>2, <4>1
    <3> QED BY <1>3, <1>5, <3>1, <3>2
  <2>2. CASE k /= e.id
    <3>1. k \in 1 .. Len(gds) /\ gds'[k] = gds[k] /\ gds[k].ctx \in 1 .. Len(ctxs)
      BY <1>7, <2>2
    <3>2. ASSUME NEW j \in 1 .. Len(gds'), gds'[j].ctx = gds'[k].ctx PROVE j = k
      <4>1. j /= e.id
        <5>1. gds'[e.id].ctx = Len(ctxs) + 1 /\ gds'[j].ctx = gds[k].ctx
          BY <1>1, <3>1, <3>2
        <5>2. gds[k].ctx /= Len(ctxs) + 1
          BY <1>3, <3>1
        <5> QED BY <5>1, <5>2
      <4>2. j \in 1 .. Len(gds) /\ gds'[j] = gds[j]
        BY <1>7, <3>2, <4>1
      <4> QED BY <1>3, <3>1, <3>2, <4>2 DEF ContextsOwned
    <3>3. /\ ~gds[k].freed /\ (ctxs[gds[k].ctx].known => gds[k].established)
          /\ gds[k].ctx \in 1 .. Len(ctxs')
      BY <1>3, <1>5, <3>1 DEF ContextsOwned
    <3> QED BY <1>5, <3>1, <3>2, <3>3
  <2> QED BY <2>1, <2>2
<1>9. SeenRefused'
  <2>1. ASSUME NEW k \in 1 .. Len(gds'), gds'[k].ctx /= None, ~gds'[k].back,
               NEW s \in DOMAIN dispatched[gds'[k].ctx], dispatched[gds'[k].ctx][s] > 0
        PROVE  dispatched[gds'[k].ctx][s] = 1 /\ Spent(gds'[k], s)
    <3>1. CASE k = e.id
      <4>1. gds'[k].ctx = Len(ctxs) + 1 /\ Len(ctxs) + 1 \in 1 .. MaxCtx
        <5>1. gds'[k].ctx = Len(ctxs) + 1
          BY <1>1, <3>1
        <5>2. Len(ctxs) \in Nat /\ MaxCtx \in Nat /\ Len(ctxs) < MaxCtx
          BY <1>3, GssAssumption
        <5>3. Len(ctxs) + 1 \in 1 .. MaxCtx
          BY <5>2
        <5> QED BY <5>1, <5>3
      <4>2. Len(ctxs) + 1 \in DOMAIN dispatched
        BY <1>3, <4>1
      <4>3. s \in DOMAIN dispatched[Len(ctxs) + 1] /\ dispatched[Len(ctxs) + 1][s] > 0
        BY <2>1, <4>1
      <4>4. Len(ctxs) + 1 <= Len(ctxs)
        BY <1>3, <4>2, <4>3 DEF SeenRefused
      <4> QED BY <1>3, <4>4
    <3>2. CASE k /= e.id
      <4>1. k \in 1 .. Len(gds) /\ gds'[k] = gds[k]
        BY <1>7, <2>1, <3>2
      <4> QED BY <1>3, <2>1, <4>1 DEF SeenRefused
    <3> QED BY <3>1, <3>2
  <2>2. \A c \in DOMAIN dispatched : \A s \in DOMAIN dispatched[c] :
          dispatched[c][s] > 0 => c <= Len(ctxs')
    <3>1. \A c \in DOMAIN dispatched : c <= Len(ctxs) => c <= Len(ctxs')
      BY <1>3, <1>5
    <3> QED BY <1>3, <3>1 DEF SeenRefused
  <2> QED BY <2>1, <2>2 DEF SeenRefused
<1>10. TypeOK'
  <2>1. Len(ctxs') <= MaxCtx
    BY <1>3, <1>5, GssAssumption
  <2> QED BY <1>1, <1>3, <1>5, <2>1 DEF TypeOK
<1>11. GivenOnce
  BY NothingGiven DEF Safe
<1> QED BY <1>1, <1>2, <1>8, <1>9, <1>10, <1>11 DEF GoodStep, Safe, GssCacheSound

(* RPCSEC_GSS_DATA: a request the window lets through was not given to the *)
(* service before, and the window refuses it from now on.                  *)
LEMMA DataStep ==
  ASSUME Safe, NEW x \in Xprts, NEW r \in DataReq, NEW c \in Known(x), Data(x, r, c)
  PROVE  GoodStep
<1> DEFINE e == Enter(x)
           s == r.seq
<1>1. EnterSound(e, x)
  BY EnterFinds
<1>2. PICK w \in window(e.gd, s), lock \in BOOLEAN :
        /\ svcauth_gss_validate(w, c)
        /\ callback_done_on(w, TRUE, lock).locked => callback_done_on(w, TRUE, lock).rsvc = r.svc
        /\ Leave(x, e, [callback_done_on(w, TRUE, lock) EXCEPT !.rsvc = r.svc], FALSE)
        /\ dispatched' = [dispatched EXCEPT ![c][s] = @ + 1]
        /\ UNCHANGED <<now, conn, nconn, ctxs>>
  BY DEF Data
<1> DEFINE h == callback_done_on(w, TRUE, lock)
           g == [h EXCEPT !.rsvc = r.svc]
<1>3. /\ TypeOK /\ ContextsOwned /\ SeenRefused
      /\ gds \in Seq(Gd) /\ Len(gds) \in Nat /\ Len(ctxs) \in Nat /\ Len(ctxs) <= MaxCtx
      /\ dispatched \in [1 .. MaxCtx -> [Seqs -> Nat]]
  BY LenProperties DEF Safe, GssCacheSound, TypeOK
<1>4. /\ s \in Seqs /\ r.svc \in Svcs /\ s \in Nat
      /\ c \in 1 .. Len(ctxs) /\ ctxs[c].known /\ c \in 1 .. MaxCtx
  <2>1. r \in [seq : Seqs, svc : Svcs] /\ c \in 1 .. Len(ctxs) /\ ctxs[c].known
    BY DEF DataReq, Known
  <2>2. r.seq \in Seqs /\ r.svc \in Svcs
    BY <2>1
  <2>3. c \in 1 .. MaxCtx
    BY <1>3, <2>1, GssAssumption
  <2> QED BY <2>1, <2>2, <2>3, GssAssumption
<1> HIDE DEF s, e
<1>5. e.gd \in Gd /\ ~e.gd.freed
  BY <1>1 DEF EnterSound
<1>6. /\ w \in Gd
      /\ w = [e.gd EXCEPT !.seqlast = w.seqlast, !.seqmask = w.seqmask, !.back = w.back]
      /\ WindowKept(e.gd, w)
      /\ e.gd.established /\ ~w.back => ~Spent(e.gd, s) /\ Spent(w, s)
  BY <1>2, <1>4, <1>5, WindowMoves
<1>7. w.ctx = c /\ w.complete
  BY <1>2 DEF svcauth_gss_validate
<1>8. /\ e.gd.ctx = c /\ ~w.freed /\ w.established = e.gd.established
      /\ w.locked = e.gd.locked /\ w.callback_done = e.gd.callback_done /\ w.rsvc = e.gd.rsvc
  BY <1>5, <1>6, <1>7 DEF Gd
<1>9. /\ h \in Gd /\ h.ctx = w.ctx /\ h.freed = w.freed /\ h.established = w.established
      /\ h.seqlast = w.seqlast /\ h.seqmask = w.seqmask /\ h.back = w.back
      /\ w.callback_done => h = w
  <2>1. CASE w.callback_done
    BY <1>6, <2>1 DEF callback_done_on
  <2>2. CASE ~w.callback_done
    <3>1. h = [w EXCEPT !.callback_done = TRUE, !.rejected = ~TRUE,
                        !.locked = IF TRUE THEN lock ELSE @]
      BY <2>2 DEF callback_done_on
    <3> QED BY <1>6, <2>2, <3>1 DEF Gd
  <2> QED BY <2>1, <2>2
<1> HIDE DEF h
<1>10. /\ g \in Gd /\ g.ctx = c /\ ~g.freed /\ g.established = e.gd.established
       /\ g.seqlast = w.seqlast /\ g.seqmask = w.seqmask /\ g.back = w.back /\ g.rsvc = r.svc
  BY <1>4, <1>7, <1>8, <1>9 DEF Gd
<1>11. KeepsService(e.gd, g)
  <2>1. ASSUME e.gd.locked, e.gd.callback_done PROVE g.rsvc = e.gd.rsvc
    <3>1. h = w /\ h.locked
      BY <1>8, <1>9, <2>1
    <3>2. h.rsvc = r.svc
      BY <1>2, <3>1 DEF h
    <3> QED BY <1>8, <1>10, <3>1, <3>2
  <2> QED BY <2>1 DEF KeepsService
<1> HIDE DEF g
<1>12. Leave(x, e, g, FALSE)
  BY <1>2 DEF g, h
<1>13. /\ svcauth_gss_cache' \in Seq(Entry) /\ gds' \in Seq(Gd)
       /\ svc_ah_private' \in [Xprts -> Nat]
       /\ \A k \in 1 .. Len(gds') : k \in 1 .. Len(gds) \/ k = e.id
       /\ e.id \in 1 .. Len(gds')
       /\ gds'[e.id] = g
       /\ \A k \in 1 .. Len(gds) : k /= e.id => gds'[k] = gds[k] \/ gds'[k] = Dead(gds[k])
       /\ CacheSound' /\ ColdAtTheEnd'
  BY <1>2, <1>10, <1>12, LeaveSound DEF e
<1>14. ServiceHeld /\ WindowHeld
  <2>1. Forward(e.gd, g)
    BY <1>6, <1>10 DEF WindowKept, Forward
  <2> QED BY <1>2, <1>10, <1>11, <1>12, <2>1, ServiceStays DEF e
<1>15. ~e.new /\ e.id \in 1 .. Len(gds) /\ e.gd = gds[e.id]
  <2>1. NewGd(conn[x]).ctx = None /\ c /= None
    BY <1>4 DEF NewGd, None
  <2> QED BY <1>1, <1>8, <2>1 DEF EnterSound
<1>16. e.gd.established
  BY <1>3, <1>4, <1>8, <1>15 DEF ContextsOwned, None
<1>17. dispatched[c][s] \in Nat /\ (~w.back => dispatched[c][s] = 0)
  <2>1. c /= None /\ s \in DOMAIN dispatched[c] /\ dispatched[c][s] \in Nat
    <3>1. dispatched[c] \in [Seqs -> Nat]
      BY <1>3, <1>4
    <3>2. c /= None
      BY <1>4 DEF None
    <3>3. s \in Seqs
      BY <1>4
    <3> QED BY <3>1, <3>2, <3>3
  <2>2. ASSUME ~w.back PROVE ~(dispatched[c][s] > 0)
    <3>1. ~Spent(gds[e.id], s) /\ ~gds[e.id].back
      BY <1>6, <1>15, <1>16, <2>2 DEF WindowKept
    <3> QED BY <1>3, <1>8, <1>15, <2>1, <3>1 DEF SeenRefused
  <2> QED BY <2>1, <2>2
<1>18. /\ dispatched' \in [1 .. MaxCtx -> [Seqs -> Nat]]
       /\ ~w.back => dispatched'[c][s] = 1
       /\ \A n \in Seqs : n /= s => dispatched'[c][n] = dispatched[c][n]
       /\ \A d \in 1 .. MaxCtx : d /= c => dispatched'[d] = dispatched[d]
  <2>1. dispatched[c] \in [Seqs -> Nat]
    BY <1>3, <1>4
  <2>2. dispatched' = [dispatched EXCEPT ![c] = [dispatched[c] EXCEPT ![s] = dispatched[c][s] + 1]]
    BY <1>2
  <2>3. [dispatched[c] EXCEPT ![s] = dispatched[c][s] + 1] \in [Seqs -> Nat]
    <3> DEFINE n == dispatched[c][s] + 1
    <3>1. n \in Nat /\ s \in Seqs
      BY <1>4, <1>17
    <3> HIDE DEF n
    <3>2. [dispatched[c] EXCEPT ![s] = n] \in [Seqs -> Nat]
      BY <2>1, <3>1
    <3> QED BY <3>2 DEF n
  <2>4. dispatched'[c] = [dispatched[c] EXCEPT ![s] = dispatched[c][s] + 1]
    BY <1>3, <1>4, <2>2
  <2>5. /\ dispatched' \in [1 .. MaxCtx -> [Seqs -> Nat]]
        /\ \A d \in 1 .. MaxCtx : d /= c => dispatched'[d] = dispatched[d]
    BY <1>3, <1>4, <2>2, <2>3
  <2> QED BY <1>4, <1>17, <2>1, <2>4, <2>5
<1>19. \A f \in Gd : Dead(f).ctx = None
  BY DEF Dead, Gd
<1>20. ASSUME NEW k \in 1 .. Len(gds'), gds'[k].ctx /= None
       PROVE  /\ k \in 1 .. Len(gds) /\ gds'[k].ctx = gds[k].ctx
              /\ (k /= e.id /\ gds'[k] = gds[k]) \/ (k = e.id /\ gds'[k] = g)
  <2>1. CASE k = e.id
    BY <1>8, <1>10, <1>13, <1>15, <2>1
  <2>2. CASE k /= e.id
    <3>1. k \in 1 .. Len(gds) /\ gds[k] \in Gd
      BY <1>3, <1>13, <2>2, ElementOfSeq
    <3> QED BY <1>13, <1>19, <1>20, <2>2, <3>1
  <2> QED BY <2>1, <2>2
<1>21. ContextsOwned'
  <2> SUFFICES ASSUME NEW k \in 1 .. Len(gds'), gds'[k].ctx /= None
               PROVE  /\ ~gds'[k].freed /\ gds'[k].ctx \in 1 .. Len(ctxs)
                      /\ ctxs[gds'[k].ctx].known => gds'[k].established
                      /\ \A j \in 1 .. Len(gds') : gds'[j].ctx = gds'[k].ctx => j = k
    BY <1>2 DEF ContextsOwned
  <2>1. /\ k \in 1 .. Len(gds) /\ gds'[k].ctx = gds[k].ctx
        /\ (k /= e.id /\ gds'[k] = gds[k]) \/ (k = e.id /\ gds'[k] = g)
    BY <1>20
  <2>2. ~gds'[k].freed /\ gds'[k].established = gds[k].established
    BY <1>3, <1>10, <1>15, <2>1 DEF ContextsOwned
  <2>3. ASSUME NEW j \in 1 .. Len(gds'), gds'[j].ctx = gds'[k].ctx PROVE j = k
    <3>1. j \in 1 .. Len(gds) /\ gds[j].ctx = gds'[j].ctx
      BY <1>20, <2>3
    <3> QED BY <1>3, <2>1, <2>3, <3>1 DEF ContextsOwned
  <2> QED BY <1>3, <2>1, <2>2, <2>3 DEF ContextsOwned
<1>22. SeenRefused'
  <2>1. ASSUME NEW k \in 1 .. Len(gds'), gds'[k].ctx /= None, ~gds'[k].back,
               NEW n \in DOMAIN dispatched'[gds'[k].ctx], dispatched'[gds'[k].ctx][n] > 0
        PROVE  dispatched'[gds'[k].ctx][n] = 1 /\ Spent(gds'[k], n)
    <3>1. /\ k \in 1 .. Len(gds) /\ gds'[k].ctx = gds[k].ctx
          /\ (k /= e.id /\ gds'[k] = gds[k]) \/ (k = e.id /\ gds'[k] = g)
      BY <1>20, <2>1
    <3>2. gds[k].ctx \in 1 .. MaxCtx
      <4>1. gds[k].ctx \in 1 .. Len(ctxs)
        BY <1>3, <2>1, <3>1 DEF ContextsOwned
      <4> QED BY <1>3, <4>1, GssAssumption
    <3>3. n \in Seqs /\ n \in Nat /\ DOMAIN dispatched[gds[k].ctx] = Seqs
      <4>1. /\ dispatched'[gds[k].ctx] \in [Seqs -> Nat]
            /\ dispatched[gds[k].ctx] \in [Seqs -> Nat]
        BY <1>3, <1>18, <3>2
      <4> QED BY <3>1, <4>1, GssAssumption
    <3>4. CASE k /= e.id
      <4>1. gds[k].ctx /= c
        BY <1>3, <1>8, <1>15, <2>1, <3>1, <3>4 DEF ContextsOwned
      <4>2. dispatched'[gds[k].ctx][n] = dispatched[gds[k].ctx][n]
        BY <1>18, <3>2, <4>1
      <4> QED BY <1>3, <2>1, <3>1, <3>3, <3>4, <4>2 DEF SeenRefused
    <3>5. CASE k = e.id
      <4>1. gds[k].ctx = c /\ gds'[k] = g /\ gds[k] = e.gd /\ ~w.back /\ ~e.gd.back
        BY <1>6, <1>8, <1>10, <1>15, <2>1, <3>1, <3>5 DEF WindowKept
      <4>2. Spent(w, n) /\ dispatched'[c][n] = 1
        <5>1. CASE n = s
          BY <1>6, <1>16, <1>18, <4>1, <5>1
        <5>2. CASE n /= s
          <6>1. dispatched'[c][n] = dispatched[c][n] /\ dispatched[c][n] > 0
            BY <1>18, <2>1, <3>1, <3>3, <4>1, <5>2
          <6>2. Spent(gds[k], n) /\ dispatched[c][n] = 1
            BY <1>3, <2>1, <3>1, <3>3, <4>1, <6>1 DEF SeenRefused
          <6> QED BY <1>6, <3>3, <4>1, <6>1, <6>2 DEF WindowKept
        <5> QED BY <5>1, <5>2
      <4> QED BY <1>10, <3>1, <4>1, <4>2 DEF Spent, Refuses
    <3> QED BY <3>4, <3>5
  <2>2. ASSUME NEW d \in DOMAIN dispatched', NEW n \in DOMAIN dispatched'[d],
               dispatched'[d][n] > 0
        PROVE  d <= Len(ctxs)
    <3>1. d \in 1 .. MaxCtx /\ d \in DOMAIN dispatched
      BY <1>3, <1>18
    <3>2. n \in Seqs /\ n \in DOMAIN dispatched[d]
      <4>1. /\ dispatched'[d] \in [Seqs -> Nat]
            /\ dispatched[d] \in [Seqs -> Nat]
        BY <1>3, <1>18, <3>1
      <4> QED BY <4>1
    <3>3. CASE d = c
      BY <1>4, <3>3
    <3>4. CASE d /= c
      <4>1. dispatched'[d][n] = dispatched[d][n]
        BY <1>18, <3>1, <3>2, <3>4
      <4> QED BY <1>3, <2>2, <3>1, <3>2, <4>1 DEF SeenRefused
    <3> QED BY <3>3, <3>4
  <2> QED BY <1>2, <2>1, <2>2 DEF SeenRefused
<1>23. TypeOK'
  BY <1>2, <1>3, <1>13, <1>18 DEF TypeOK
<1>24. GivenOnce
  <2> SUFFICES ASSUME NEW d \in 1 .. MaxCtx, Dispatched(d)
               PROVE  \E k \in 1 .. Len(gds) :
                        /\ Owner(k, d) /\ Owner(k, d)'
                        /\ gds'[k].back \/ \A n \in DOMAIN dispatched[d] : dispatched'[d][n] <= 1
    BY DEF GivenOnce
  <2>1. /\ dispatched[d] \in [Seqs -> Nat]
        /\ dispatched'[d] \in [Seqs -> Nat]
    BY <1>3, <1>18
  <2>2. d = c
    <3>1. CASE d /= c
      <4>1. dispatched'[d] = dispatched[d]
        BY <1>18, <3>1
      <4>2. PICK n \in DOMAIN dispatched[d] : dispatched[d][n] > dispatched[d][n]
        BY <4>1 DEF Dispatched
      <4>3. dispatched[d][n] \in Nat
        BY <1>3, CountsTyped
      <4> QED BY <4>2, <4>3
    <3> QED BY <3>1
  <2>3. PICK k \in 1 .. Len(gds) : k = e.id
    BY <1>15
  <2>4. Owner(k, d)
    BY <1>5, <1>8, <1>15, <2>2, <2>3 DEF Owner
  <2>5. Owner(k, d)'
    BY <1>10, <1>13, <2>2, <2>3 DEF Owner
  <2>6. ASSUME ~gds'[k].back, NEW n \in DOMAIN dispatched[d] PROVE dispatched'[d][n] <= 1
    <3>1. k \in 1 .. Len(gds') /\ gds'[k].ctx = c /\ c /= None
      BY <1>4, <1>10, <1>13, <2>3 DEF None
    <3>2. n \in DOMAIN dispatched'[d] /\ dispatched'[d][n] \in Nat
      BY <2>1
    <3>3. dispatched'[d][n] > 0 => dispatched'[d][n] = 1
      BY <1>22, <2>2, <2>6, <3>1, <3>2 DEF SeenRefused
    <3> QED BY <3>2, <3>3
  <2> QED BY <2>4, <2>5, <2>6
<1> QED BY <1>13, <1>14, <1>21, <1>22, <1>23, <1>24 DEF GoodStep, Safe, GssCacheSound

-----------------------------------------------------------------------------
(* What the window let through, left with its context or without: refusals *)
(* after the window moved, and RPCSEC_GSS_DESTROY.                         *)
LEMMA QuietRequest ==
  ASSUME Safe, NEW x \in Xprts, NEW s \in Nat, NEW w \in window(Enter(x).gd, s), NEW g \in Gd,
         g.freed = w.freed, g.ctx = w.ctx \/ g.ctx = None, g.established = w.established,
         g.seqlast = w.seqlast, g.seqmask = w.seqmask, g.back = w.back, g.rsvc = w.rsvc,
         NEW drop \in BOOLEAN, Leave(x, Enter(x), g, drop),
         UNCHANGED <<now, conn, nconn, ctxs, dispatched>>
  PROVE  GoodStep
<1> DEFINE h == Enter(x).gd
<1>1. h \in Gd /\ ~h.freed
  BY EnterFinds DEF EnterSound
<1>2. w \in window(h, s)
  OBVIOUS
<1> HIDE DEF h
<1>3. /\ w = [h EXCEPT !.seqlast = w.seqlast, !.seqmask = w.seqmask, !.back = w.back]
      /\ WindowKept(h, w)
  BY <1>2, <1>1, WindowMoves, ZenonT(30)
<1>4. w.freed = h.freed /\ w.ctx = h.ctx /\ w.established = h.established /\ w.rsvc = h.rsvc
  BY <1>1, <1>3 DEF Gd
<1>5. WindowKept(h, g)
  BY <1>3 DEF WindowKept, Forward, Spent, Refuses
<1>6. ~g.freed /\ Evolves(h, g) /\ KeepsService(h, g)
  BY <1>1, <1>4, <1>5 DEF Evolves, KeepsService
<1> QED BY <1>6, QuietStep DEF h

(* A request that changes nothing of the data it found.                    *)
LEMMA RejectedStep ==
  ASSUME Safe, NEW x \in Xprts, Rejected(x, Enter(x), Enter(x).gd)
  PROVE  GoodStep
<1> DEFINE h == Enter(x).gd
<1>1. h \in Gd /\ ~h.freed
  BY EnterFinds DEF EnterSound
<1>2. Leave(x, Enter(x), h, FALSE) /\ UNCHANGED <<now, conn, nconn, ctxs, dispatched>>
  BY DEF Rejected
<1>3. Evolves(h, h) /\ KeepsService(h, h)
  <2>1. h.seqlast \in Nat
    BY <1>1 DEF Gd
  <2> QED BY <2>1 DEF Evolves, KeepsService, WindowKept, Forward
<1> HIDE DEF h
<1> QED BY <1>1, <1>2, <1>3, QuietStep DEF h

(* RPCSEC_GSS_INIT that the GSS-API refuses, with or without the context   *)
(* that had been begun.                                                    *)
LEMMA InitFailsStep ==
  ASSUME Safe, NEW x \in Xprts, NEW r \in InitReq, InitFails(x, r)
  PROVE  GoodStep
<1>1. r.seq \in Nat
  BY DEF InitReq
<1>2. PICK w \in window(Enter(x).gd, r.seq) :
        \/ Rejected(x, Enter(x), w)
        \/ Rejected(x, Enter(x), [w EXCEPT !.ctx = None, !.complete = FALSE])
  BY DEF InitFails
<1>3. w \in Gd
  BY <1>1, EnterFinds, WindowMoves DEF EnterSound
<1>4. CASE Rejected(x, Enter(x), w)
  BY <1>1, <1>3, <1>4, QuietRequest DEF Rejected
<1>5. CASE Rejected(x, Enter(x), [w EXCEPT !.ctx = None, !.complete = FALSE])
  <2> DEFINE g == [w EXCEPT !.ctx = None, !.complete = FALSE]
  <2>1. /\ g \in Gd /\ g.freed = w.freed /\ g.ctx = None /\ g.established = w.established
        /\ g.seqlast = w.seqlast /\ g.seqmask = w.seqmask /\ g.back = w.back /\ g.rsvc = w.rsvc
    BY <1>3 DEF Gd, None
  <2>2. Leave(x, Enter(x), g, FALSE) /\ UNCHANGED <<now, conn, nconn, ctxs, dispatched>>
    BY <1>5 DEF Rejected
  <2> HIDE DEF g
  <2> QED BY <1>1, <2>1, <2>2, QuietRequest
<1> QED BY <1>2, <1>4, <1>5

(* RPCSEC_GSS_DATA with a checksum or a service that is refused, or        *)
(* refused by the callback, and RPCSEC_GSS_DESTROY.                        *)
LEMMA DataRefusedStep ==
  ASSUME Safe, NEW x \in Xprts, NEW r \in DataReq, NEW c \in Known(x),
         DataInvalid(x, r, c) \/ DataRefused(x, r, c) \/ Destroy(x, r, c)
  PROVE  GoodStep
<1>1. r.seq \in Nat
  BY GssAssumption DEF DataReq
<1>2. ASSUME NEW w \in window(Enter(x).gd, r.seq) PROVE w \in Gd
  BY <1>1, EnterFinds, WindowMoves DEF EnterSound
<1>3. CASE DataInvalid(x, r, c)
  <2>1. PICK w \in window(Enter(x).gd, r.seq) : Rejected(x, Enter(x), w)
    BY <1>3 DEF DataInvalid
  <2> QED BY <1>1, <1>2, <2>1, QuietRequest DEF Rejected
<1>4. CASE Destroy(x, r, c)
  <2>1. PICK w \in window(Enter(x).gd, r.seq) :
          Leave(x, Enter(x), w, TRUE) /\ UNCHANGED <<now, conn, nconn, ctxs, dispatched>>
    BY <1>4 DEF Destroy
  <2> QED BY <1>1, <1>2, <2>1, QuietRequest
<1>5. CASE DataRefused(x, r, c)
  <2>1. PICK w \in window(Enter(x).gd, r.seq), ok \in BOOLEAN, lock \in BOOLEAN :
          Rejected(x, Enter(x), callback_done_on(w, ok, lock))
    BY <1>5 DEF DataRefused
  <2> DEFINE g == callback_done_on(w, ok, lock)
  <2>2. w \in Gd
    BY <1>2
  <2>3. /\ g \in Gd /\ g.freed = w.freed /\ g.ctx = w.ctx /\ g.established = w.established
        /\ g.seqlast = w.seqlast /\ g.seqmask = w.seqmask /\ g.back = w.back /\ g.rsvc = w.rsvc
    <3>1. CASE w.callback_done
      BY <2>2, <3>1 DEF callback_done_on
    <3>2. CASE ~w.callback_done
      <4>1. PICK b \in BOOLEAN, l \in BOOLEAN :
              g = [w EXCEPT !.callback_done = TRUE, !.rejected = b, !.locked = l]
        <5>1. w.locked \in BOOLEAN
          BY <2>2 DEF Gd
        <5>2. g = [w EXCEPT !.callback_done = TRUE, !.rejected = ~ok,
                            !.locked = IF ok THEN lock ELSE w.locked]
          BY <3>2 DEF callback_done_on
        <5> QED BY <5>1, <5>2
      <4> HIDE DEF g
      <4> QED BY <2>2, <4>1 DEF Gd
    <3> QED BY <3>1, <3>2
  <2>4. Leave(x, Enter(x), g, FALSE) /\ UNCHANGED <<now, conn, nconn, ctxs, dispatched>>
    BY <2>1 DEF Rejected
  <2> HIDE DEF g
  <2> QED BY <1>1, <2>3, <2>4, QuietRequest
<1> QED BY <1>3, <1>4, <1>5

(* RPCSEC_GSS_INIT that makes a context, finished or to be continued; its  *)
(* reply may not be sent.                                                  *)
LEMMA InitAcceptsStep ==
  ASSUME Safe, NEW x \in Xprts, NEW r \in InitReq, NEW answered \in BOOLEAN,
         InitContinues(x, r) \/ InitCompletes(x, r, answered)
  PROVE  GoodStep
<1>1. r.seq \in Nat /\ r.svc \in Svcs
  BY DEF InitReq
<1>2. Enter(x).gd \in Gd /\ ~Enter(x).gd.freed
  BY EnterFinds DEF EnterSound
<1>3. ASSUME NEW w \in window(Enter(x).gd, r.seq)
      PROVE  w \in Gd /\ ~w.freed /\ Forward(Enter(x).gd, w)
  <2>1. /\ w \in Gd
        /\ w = [Enter(x).gd EXCEPT !.seqlast = w.seqlast, !.seqmask = w.seqmask, !.back = w.back]
        /\ WindowKept(Enter(x).gd, w)
    BY <1>1, <1>2, WindowMoves
  <2> HIDE DEF Enter
  <2> QED BY <1>2, <2>1 DEF Gd, WindowKept
<1>4. Len(ctxs) + 1 \in Nat
  BY LenProperties DEF Safe, TypeOK
<1>5. CASE InitContinues(x, r)
  <2>1. PICK w \in window(Enter(x).gd, r.seq) :
          Leave(x, Enter(x), [accept(w, r) EXCEPT !.complete = FALSE], FALSE)
    BY <1>5 DEF InitContinues
  <2>2. /\ Len(ctxs) < MaxCtx /\ ctxs' = Append(ctxs, [conn |-> conn[x], known |-> FALSE])
        /\ UNCHANGED <<now, conn, nconn, dispatched>>
    BY <1>5 DEF InitContinues
  <2> DEFINE g == [accept(w, r) EXCEPT !.complete = FALSE]
  <2>3. /\ g \in Gd /\ ~g.freed /\ g.ctx = Len(ctxs) + 1 /\ ~g.callback_done
        /\ g.seqlast = w.seqlast
    BY <1>1, <1>3, <1>4 DEF accept, Gd
  <2>4. Leave(x, Enter(x), g, FALSE)
    BY <2>1
  <2> HIDE DEF g
  <2>5. Forward(Enter(x).gd, g)
    BY <1>3, <2>3 DEF Forward
  <2> QED BY <2>2, <2>3, <2>4, <2>5, AcceptStep
<1>6. CASE InitCompletes(x, r, answered)
  <2>1. PICK w \in window(Enter(x).gd, r.seq) :
          Leave(x, Enter(x), [accept(w, r) EXCEPT !.established = @ \/ answered], FALSE)
    BY <1>6 DEF InitCompletes
  <2>2. /\ Len(ctxs) < MaxCtx /\ ctxs' = Append(ctxs, [conn |-> conn[x], known |-> answered])
        /\ UNCHANGED <<now, conn, nconn, dispatched>>
    BY <1>6 DEF InitCompletes
  <2> DEFINE a == accept(w, r)
             g == [a EXCEPT !.established = @ \/ answered]
  <2>3. /\ a \in Gd /\ ~a.freed /\ a.ctx = Len(ctxs) + 1 /\ ~a.callback_done
        /\ a.seqlast = w.seqlast
    BY <1>1, <1>3, <1>4 DEF accept, Gd
  <2>4. Leave(x, Enter(x), g, FALSE)
    BY <2>1
  <2> HIDE DEF a
  <2>5. /\ g \in Gd /\ ~g.freed /\ g.ctx = Len(ctxs) + 1 /\ ~g.callback_done
        /\ g.seqlast = w.seqlast
    BY <2>3 DEF Gd
  <2>6. answered => g.established
    BY <2>3 DEF Gd
  <2> HIDE DEF g
  <2>7. Forward(Enter(x).gd, g)
    BY <1>3, <2>5 DEF Forward
  <2> QED BY <2>2, <2>4, <2>5, <2>6, <2>7, AcceptStep
<1> QED BY <1>5, <1>6

-----------------------------------------------------------------------------
(* Steps that leave the cache alone: transports open and close, time goes  *)
(* by.                                                                     *)
LEMMA OutsideStep ==
  ASSUME Safe, UNCHANGED <<svcauth_gss_cache, gds, ctxs, dispatched>>,
         now' \in Nat, now' >= now, conn' \in [Xprts -> Nat], nconn' \in Nat,
         svc_ah_private' \in [Xprts -> Nat]
  PROVE  GoodStep
<1>1. TypeOK /\ CacheSound /\ ColdAtTheEnd /\ ContextsOwned /\ SeenRefused
  BY DEF Safe, GssCacheSound
<1>2. TypeOK'
  BY <1>1 DEF TypeOK
<1>3. CacheSound' /\ ContextsOwned' /\ SeenRefused'
  <2>1. CacheSound'
    BY <1>1 DEF CacheSound
  <2>2. ContextsOwned'
    BY <1>1 DEF ContextsOwned
  <2>3. SeenRefused'
    BY <1>1 DEF SeenRefused
  <2> QED BY <2>1, <2>2, <2>3
<1>4. ColdAtTheEnd'
  <2>1. ASSUME NEW k \in 1 .. Len(svcauth_gss_cache)
        PROVE  svcauth_gss_cache[k].time_to_die <= now' + Life
    <3>1. svcauth_gss_cache[k].time_to_die \in Nat
      <4>1. svcauth_gss_cache[k] \in Entry
        BY <1>1, ElementOfSeq DEF TypeOK
      <4> QED BY <4>1 DEF Entry
    <3>2. svcauth_gss_cache[k].time_to_die <= now + Life /\ now \in Nat
      BY <1>1 DEF ColdAtTheEnd, TypeOK
    <3> QED BY <3>1, <3>2, GssAssumption
  <2>2. \A j, k \in 1 .. Len(svcauth_gss_cache) :
          j < k => svcauth_gss_cache[j].time_to_die >= svcauth_gss_cache[k].time_to_die
    BY <1>1 DEF ColdAtTheEnd
  <2> QED BY <2>1, <2>2 DEF ColdAtTheEnd
<1>5. GivenOnce
  BY <1>1, NothingGiven
<1>6. ServiceHeld /\ WindowHeld
  <2>1. ASSUME NEW k \in 1 .. Len(gds) PROVE gds[k].seqlast \in Nat
    <3>1. gds[k] \in Gd
      BY <1>1, ElementOfSeq DEF TypeOK
    <3> QED BY <3>1 DEF Gd
  <2> QED BY <2>1 DEF ServiceHeld, WindowHeld, Forward
<1> QED BY <1>2, <1>3, <1>4, <1>5, <1>6 DEF GoodStep, Safe, GssCacheSound

(* The server starts without contexts and with an empty cache.             *)
LEMMA GssInit ==
  ASSUME Init
  PROVE  Safe
<1>1. TypeOK
  <2>1. dispatched \in [1 .. MaxCtx -> [Seqs -> Nat]]
    BY DEF Init
  <2>2. Len(ctxs) = 0 /\ 0 <= MaxCtx
    BY GssAssumption DEF Init
  <2>3. /\ svcauth_gss_cache \in Seq(Entry) /\ gds \in Seq(Gd)
        /\ ctxs \in Seq([conn : Nat, known : BOOLEAN])
    BY DEF Init
  <2>4. /\ now \in Nat /\ conn \in [Xprts -> Nat] /\ nconn \in Nat
        /\ svc_ah_private \in [Xprts -> Nat]
    BY DEF Init, None
  <2> QED BY <2>1, <2>2, <2>3, <2>4 DEF TypeOK
<1>2. 1 .. Len(svcauth_gss_cache) = {} /\ 1 .. Len(gds) = {}
  BY DEF Init
<1>3. SeenRefused
  <2>1. ASSUME NEW c \in DOMAIN dispatched, NEW s \in DOMAIN dispatched[c]
        PROVE  dispatched[c][s] = 0
    BY DEF Init
  <2> QED BY <1>2, <2>1 DEF SeenRefused
<1> QED BY <1>1, <1>2, <1>3 DEF Safe, GssCacheSound, CacheSound, ColdAtTheEnd, ContextsOwned

(* Every request, connection and tick keeps the cache, the contexts and    *)
(* the windows sound and gives no request to the service twice.            *)
LEMMA GssNext ==
  ASSUME Safe, [Next]_vars
  PROVE  GoodStep
<1>1. TypeOK
  BY DEF Safe
<1>2. CASE UNCHANGED vars
  <2>1. UNCHANGED <<now, conn, nconn, svcauth_gss_cache, gds, svc_ah_private, ctxs, dispatched>>
    BY <1>2 DEF vars, cachevars
  <2> QED BY <1>1, <2>1, OutsideStep DEF TypeOK
<1>3. CASE Tick
  <2>1. now' = now + 1 /\ now \in Nat
    BY <1>1, <1>3 DEF Tick, TypeOK
  <2> QED BY <1>1, <1>3, <2>1, OutsideStep DEF Tick, TypeOK, cachevars
<1>4. ASSUME NEW x \in Xprts, Open(x) PROVE GoodStep
  BY <1>1, <1>4, OutsideStep DEF Open, TypeOK, None
<1>5. ASSUME NEW x \in Xprts, Close(x) PROVE GoodStep
  BY <1>1, <1>5, OutsideStep DEF Close, TypeOK, cachevars
<1>6. ASSUME NEW x \in Xprts, NEW r \in InitReq,
             \/ BadCred(x) \/ OutsideWindow(x, r) \/ InitFails(x, r) \/ InitContinues(x, r)
             \/ \E answered \in BOOLEAN : InitCompletes(x, r, answered)
      PROVE  GoodStep
  <2>1. CASE BadCred(x)
    BY <2>1, RejectedStep DEF BadCred
  <2>2. CASE OutsideWindow(x, r)
    BY <2>2, RejectedStep DEF OutsideWindow
  <2>3. CASE InitFails(x, r)
    BY <2>3, InitFailsStep
  <2>4. CASE InitContinues(x, r)
    BY <2>4, InitAcceptsStep
  <2>5. ASSUME NEW answered \in BOOLEAN, InitCompletes(x, r, answered) PROVE GoodStep
    BY <2>5, InitAcceptsStep
  <2> QED BY <1>6, <2>1, <2>2, <2>3, <2>4, <2>5
<1>7. ASSUME NEW x \in Xprts, NEW c \in Known(x), NEW r \in DataReq,
             \/ OutsideWindow(x, r) \/ DataInvalid(x, r, c) \/ DataRefused(x, r, c)
             \/ Data(x, r, c) \/ Destroy(x, r, c)
      PROVE  GoodStep
  <2>1. CASE OutsideWindow(x, r)
    BY <2>1, RejectedStep DEF OutsideWindow
  <2>2. CASE Data(x, r, c)
    BY <2>2, DataStep
  <2>3. CASE DataInvalid(x, r, c) \/ DataRefused(x, r, c) \/ Destroy(x, r, c)
    BY <2>3, DataRefusedStep
  <2> QED BY <1>7, <2>1, <2>2, <2>3
<1> QED BY <1>2, <1>3, <1>4, <1>5, <1>6, <1>7 DEF Next

(* For every window, mask width, lifetime and set of transports: types are *)
(* kept by _svcauth_gss and what it calls.                                 *)
THEOREM GssTypes == Spec => []TypeOK
<1>1. Init => Safe
  BY GssInit
<1>2. Safe /\ [Next]_vars => Safe'
  BY GssNext DEF GoodStep
<1>3. Safe => TypeOK
  BY DEF Safe
<1> QED BY <1>1, <1>2, <1>3, PTL DEF Spec

(* For every window, mask width, lifetime and set of transports: the cache *)
(* of svc_auth_gss.c has one entry for a transport, none with freed data,  *)
(* in the order of their expiry; every context has one owner, established  *)
(* if the client knows it; the window refuses what the service was given   *)
(* until it moves back.                                                    *)
THEOREM GssCache == Spec => []GssCacheSound
<1>1. Init => Safe
  BY GssInit
<1>2. Safe /\ [Next]_vars => Safe'
  BY GssNext DEF GoodStep
<1>3. Safe => GssCacheSound
  BY DEF Safe
<1> QED BY <1>1, <1>2, <1>3, PTL DEF Spec

(* For every window, mask width, lifetime and set of transports: a request *)
(* reaches the service while its context is that of live data, and once    *)
(* until the window moves back, which it does only from MAXSEQ to 0; and a *)
(* locked context serves one service (_svcauth_gss in svc_auth_gss.c).     *)
THEOREM GssRequests == Spec => GssRequestsOnce
<1>1. Init => Safe
  BY GssInit
<1>2. Safe /\ [Next]_vars => Safe'
  BY GssNext DEF GoodStep
<1>3. Safe /\ [Next]_vars => [GivenOnce]_vars /\ [ServiceHeld]_vars /\ [WindowHeld]_vars
  BY GssNext DEF GoodStep
<1> QED BY <1>1, <1>2, <1>3, PTL DEF Spec, GssRequestsOnce, NoReplay, LockKept, WindowForward

-----------------------------------------------------------------------------
(* A client's context (AuthGss).                                           *)
Signed == {"DATA", "DESTROY"}

ContextTyped ==
  /\ ag_auth \in {"none", "live", "failed", "freed"} /\ established \in BOOLEAN
  /\ pc \in {"idle", "init", "null_call", "verify", "reply", "destroy", "destroy_reply", "tail"}
  /\ gc_proc \in {"INIT", "CONTINUE_INIT", "DATA", "DESTROY"} /\ gc_seq \in 0 .. MaxSeq
  /\ nctx \in 0 .. MaxBegun /\ nhandle \in 0 .. MaxHandle /\ ctx \in 0 .. nctx /\ gc_ctx \in 0 .. nhandle
  /\ deleted \in [1 .. MaxBegun -> Nat] /\ released \in [1 .. MaxHandle -> Nat]
  /\ \A m \in sent : m[1] \in 1 .. nctx /\ m[3] \in Nat
  /\ \A e \in exported : e[1] \in 0 .. nctx /\ e[2] \in 0 .. nhandle

(* How far a context is: one that is negotiated has signed nothing, and of *)
(* one that the caller may use the number of the last request is known.    *)
Stages ==
  /\ pc \in {"init", "null_call", "verify"} => ag_auth = "live" /\ ~established /\ gc_proc \in {"INIT", "CONTINUE_INIT"}
  /\ ag_auth = "none" => ~established /\ gc_proc = "INIT" /\ pc = "idle"
  /\ pc \in {"idle", "reply"} /\ ag_auth = "live" => gc_proc = "DATA"
  /\ pc \in {"idle", "reply", "destroy", "destroy_reply"} /\ ag_auth = "live" /\ ctx /= 0 => established
  /\ pc \in {"reply", "destroy", "destroy_reply", "tail"} => ag_auth = "live"
  /\ established => gc_proc \in Signed
  /\ \A m \in sent : m[1] = ctx /\ m[2] \in Signed => established /\ m[3] <= gc_seq /\ (m[2] = "DESTROY" => gc_proc = "DESTROY")

(* What is held is not freed, and what there has not been yet neither.     *)
Held ==
  /\ \A c \in 1 .. MaxBegun : deleted[c] <= 1 /\ (c = ctx \/ c > nctx => deleted[c] = 0)
  /\ \A h \in 1 .. MaxHandle : released[h] <= 1 /\ (h = gc_ctx \/ h > nhandle => released[h] = 0)

(* What was given away is held no more.                                    *)
GivenAway ==
  \A e \in exported :
    /\ e[1] /= 0 => e[1] /= ctx /\ deleted[e[1]] = 0 /\ \A m \in sent : m[1] = e[1] => m[2] /= "DESTROY"
    /\ e[2] /= 0 => e[2] /= gc_ctx /\ released[e[2]] = 0

ContextInv == ContextTyped /\ Stages /\ Held /\ Context!SeqFresh /\ GivenAway

LEMMA ContextInit == ASSUME Context!AuthGssAssumption PROVE Context!Init => ContextInv
<1> SUFFICES ASSUME Context!Init PROVE ContextInv
  OBVIOUS
<1>1. {MaxSeq, MaxBegun, MaxHandle} \subseteq Nat
  BY DEF Context!AuthGssAssumption
<1>2. ContextTyped
  <2>1. deleted = [c \in 1 .. MaxBegun |-> 0] /\ released = [h \in 1 .. MaxHandle |-> 0]
    BY DEF Context!Init, Context!Ctxs
  <2>2. deleted \in [1 .. MaxBegun -> Nat] /\ released \in [1 .. MaxHandle -> Nat]
    BY <2>1
  <2>3. gc_seq = 0 /\ nctx = 0 /\ nhandle = 0 /\ ctx = 0 /\ gc_ctx = 0
    BY DEF Context!Init, Context!GSS_C_NO_CONTEXT
  <2>4. 0 \in 0 .. MaxSeq /\ 0 \in 0 .. MaxBegun /\ 0 \in 0 .. MaxHandle /\ 0 \in 0 .. 0
    BY <1>1
  <2>5. ag_auth = "none" /\ established = FALSE /\ pc = "idle" /\ gc_proc = "INIT" /\ sent = {} /\ exported = {}
    BY DEF Context!Init
  <2> QED BY <2>2, <2>3, <2>4, <2>5 DEF ContextTyped
<1>3. Stages /\ Context!SeqFresh /\ GivenAway
  BY DEF Context!Init, Stages, Context!SeqFresh, GivenAway
<1>4. Held
  BY <1>1 DEF Context!Init, Context!Ctxs, Context!GSS_C_NO_CONTEXT, Held
<1> QED BY <1>2, <1>3, <1>4 DEF ContextInv

(* authgss_destroy_context frees what is held, once.                       *)
LEMMA DestroyContext ==
  ASSUME Context!AuthGssAssumption, ContextInv, Context!destroy_context, UNCHANGED <<nctx, nhandle, sent, exported>>,
         ag_auth' \in {"none", "live", "failed", "freed"}, gc_proc' = gc_proc, gc_seq' \in 0 .. MaxSeq,
         pc' \in {"idle", "tail"},
         ag_auth' = "live" /\ pc' = "idle" => gc_proc = "DATA",
         pc' = "tail" => ag_auth' = "live", ag_auth' /= "none"
  PROVE  ContextInv'
<1>1. {MaxSeq, MaxBegun, MaxHandle} \subseteq Nat
  BY DEF Context!AuthGssAssumption
<1>2. /\ released' = IF gc_ctx /= 0 THEN [released EXCEPT ![gc_ctx] = @ + 1] ELSE released
      /\ deleted' = IF ctx /= 0 THEN [deleted EXCEPT ![ctx] = @ + 1] ELSE deleted
      /\ gc_ctx' = 0 /\ ctx' = 0 /\ established' = FALSE
  BY DEF Context!destroy_context, Context!GSS_C_NO_CONTEXT
<1>3. ContextTyped /\ Stages /\ Held /\ Context!SeqFresh /\ GivenAway
  BY DEF ContextInv
<1>4. (ctx /= 0 => ctx \in 1 .. MaxBegun) /\ (gc_ctx /= 0 => gc_ctx \in 1 .. MaxHandle) /\ nctx \in Nat /\ nhandle \in Nat
  BY <1>1, <1>3 DEF ContextTyped
<1>5. ContextTyped'
  <2>1. deleted' \in [1 .. MaxBegun -> Nat] /\ released' \in [1 .. MaxHandle -> Nat]
    BY <1>2, <1>3, <1>4 DEF ContextTyped
  <2>2. ctx' \in 0 .. nctx' /\ gc_ctx' \in 0 .. nhandle'
    BY <1>2, <1>4
  <2>3. established' \in BOOLEAN
    BY <1>2
  <2> QED BY <1>3, <2>1, <2>2, <2>3 DEF ContextTyped
<1>6. Stages'
  BY <1>2, <1>3 DEF Stages, ContextTyped, Signed
<1>7. Held'
  <2>1. \A c \in 1 .. MaxBegun : deleted'[c] = IF c = ctx THEN deleted[c] + 1 ELSE deleted[c]
    BY <1>2, <1>3, <1>4 DEF ContextTyped
  <2>2. \A h \in 1 .. MaxHandle : released'[h] = IF h = gc_ctx THEN released[h] + 1 ELSE released[h]
    BY <1>2, <1>3, <1>4 DEF ContextTyped
  <2>3. ctx <= nctx /\ gc_ctx <= nhandle
    BY <1>3 DEF ContextTyped
  <2> QED BY <1>2, <1>3, <1>4, <2>1, <2>2, <2>3 DEF Held, ContextTyped
<1>8. Context!SeqFresh'
  BY <1>3 DEF Context!SeqFresh
<1>9. GivenAway'
  <2>1. ASSUME NEW e \in exported, e[1] /= 0 PROVE deleted'[e[1]] = deleted[e[1]]
    BY <1>2, <1>3, <1>4, <2>1 DEF ContextTyped, GivenAway
  <2>2. ASSUME NEW e \in exported, e[2] /= 0 PROVE released'[e[2]] = released[e[2]]
    BY <1>2, <1>3, <1>4, <2>2 DEF ContextTyped, GivenAway
  <2> QED BY <1>2, <1>3, <2>1, <2>2 DEF GivenAway
<1> QED BY <1>5, <1>6, <1>7, <1>8, <1>9 DEF ContextInv

(* A step that frees, sends and gives away nothing.                        *)
LEMMA NothingFreed ==
  ASSUME ContextInv, UNCHANGED <<nctx, nhandle, ctx, gc_ctx, sent, deleted, released, exported>>,
         ag_auth' \in {"none", "live", "failed", "freed"}, established' \in BOOLEAN, gc_seq' \in 0 .. MaxSeq,
         pc' \in {"idle", "init", "null_call", "verify", "reply", "destroy", "destroy_reply", "tail"},
         gc_proc' \in {"INIT", "CONTINUE_INIT", "DATA", "DESTROY"}, Stages'
  PROVE  ContextInv'
<1>1. ContextTyped /\ Stages /\ Held /\ Context!SeqFresh /\ GivenAway
  BY DEF ContextInv
<1>2. ContextTyped'
  BY <1>1 DEF ContextTyped
<1>3. Held' /\ Context!SeqFresh' /\ GivenAway'
  BY <1>1 DEF Held, Context!SeqFresh, GivenAway
<1> QED BY <1>2, <1>3 DEF ContextInv

LEMMA QuietSafe ==
  ASSUME ContextInv, \/ \E flags \in {"default", "other"} : Context!authgss_create(flags) \/ Context!rpc_gss_seccreate(flags)
                     \/ Context!InitSecContextFails \/ Context!NullCallFails \/ Context!VerifyFails(FALSE)
  PROVE  ContextInv'
<1>1. ContextTyped /\ Stages
  BY DEF ContextInv
<1>2. CASE \E flags \in {"default", "other"} : Context!authgss_create(flags) \/ Context!rpc_gss_seccreate(flags)
  <2>1. /\ ag_auth = "none" /\ ag_auth' = "live" /\ pc' = "init"
        /\ UNCHANGED <<nctx, nhandle, ctx, gc_ctx, sent, deleted, released, exported, established, gc_proc, gc_seq>>
    BY <1>2 DEF Context!authgss_create, Context!rpc_gss_seccreate, Context!gd, Context!heap
  <2>2. Stages'
    BY <1>1, <2>1 DEF Stages, Signed
  <2> QED BY <1>1, <2>1, <2>2, NothingFreed DEF ContextTyped
<1>3. CASE Context!InitSecContextFails \/ Context!NullCallFails \/ Context!VerifyFails(FALSE)
  <2>1. /\ pc \in {"init", "null_call", "verify"} /\ ag_auth' = "failed" /\ pc' = "idle"
        /\ UNCHANGED <<nctx, nhandle, ctx, gc_ctx, sent, deleted, released, exported, established, gc_proc, gc_seq>>
    BY <1>3 DEF Context!InitSecContextFails, Context!NullCallFails, Context!VerifyFails, Context!GiveUp, Context!gd, Context!heap
  <2>2. Stages'
    BY <1>1, <2>1 DEF Stages, Signed
  <2> QED BY <1>1, <2>1, <2>2, NothingFreed DEF ContextTyped
<1> QED BY <1>2, <1>3

LEMMA EstablishedSafe ==
  ASSUME Context!AuthGssAssumption, ContextInv, Context!Established PROVE ContextInv'
<1>1. ContextTyped /\ Stages
  BY DEF ContextInv
<1>2. /\ pc = "verify" /\ established' = TRUE /\ gc_proc' = "DATA" /\ gc_seq' = 0 /\ pc' = "idle"
      /\ UNCHANGED <<ag_auth, nctx, nhandle, ctx, gc_ctx, sent, deleted, released, exported>>
  BY DEF Context!Established, Context!heap
<1>3. Stages'
  BY <1>1, <1>2 DEF Stages, Signed
<1>4. gc_seq' \in 0 .. MaxSeq
  BY <1>2 DEF Context!AuthGssAssumption
<1> QED BY <1>1, <1>2, <1>3, <1>4, NothingFreed DEF ContextTyped

LEMMA DestroySafe == ASSUME ContextInv, Context!Destroy PROVE ContextInv'
<1>1. ContextTyped /\ Stages
  BY DEF ContextInv
<1>2. /\ ag_auth = "live" /\ pc = "idle"
      /\ \/ gc_proc' = "DESTROY" /\ pc' = "destroy"
         \/ gc_proc' = gc_proc /\ pc' \in {"tail", "idle"}
      /\ UNCHANGED <<ag_auth, nctx, nhandle, ctx, gc_ctx, sent, deleted, released, exported, established, gc_seq>>
  BY DEF Context!Destroy, Context!heap
<1>3. Stages'
  BY <1>1, <1>2 DEF Stages, Signed
<1> QED BY <1>1, <1>2, <1>3, NothingFreed DEF ContextTyped

LEMMA ReplySafe ==
  ASSUME Context!AuthGssAssumption, ContextInv, Context!Reply \/ Context!DestroyReply PROVE ContextInv'
<1>1. ContextTyped /\ Stages
  BY DEF ContextInv
<1>2. /\ \/ pc = "reply" /\ pc' = "idle"
         \/ pc = "destroy_reply" /\ pc' = "tail"
      /\ UNCHANGED <<ag_auth, gc_proc, gc_seq, nctx, nhandle, sent, exported>>
      /\ \/ UNCHANGED <<established, gc_ctx, ctx, released, deleted>>
         \/ Context!destroy_context
  BY DEF Context!Reply, Context!DestroyReply, Context!Validate
<1>3. CASE UNCHANGED <<established, gc_ctx, ctx, released, deleted>>
  <2>1. Stages'
    BY <1>1, <1>2, <1>3 DEF Stages, Signed
  <2> QED BY <1>1, <1>2, <1>3, <2>1, NothingFreed DEF ContextTyped
<1>4. CASE Context!destroy_context
  BY <1>1, <1>2, <1>4, DestroyContext DEF ContextTyped, Stages
<1> QED BY <1>2, <1>3, <1>4

LEMMA FreeSafe ==
  ASSUME Context!AuthGssAssumption, ContextInv, Context!Tail \/ Context!VerifyFails(TRUE) PROVE ContextInv'
<1>1. ContextTyped /\ Stages
  BY DEF ContextInv
<1>2. /\ pc' = "idle" /\ ag_auth' \in {"freed", "failed"} /\ Context!destroy_context
      /\ UNCHANGED <<gc_proc, gc_seq, nctx, nhandle, sent, exported>>
  BY DEF Context!Tail, Context!VerifyFails, Context!GiveUp
<1> QED BY <1>1, <1>2, DestroyContext DEF ContextTyped

LEMMA AgainSafe == ASSUME Context!AuthGssAssumption, ContextInv, Context!Again PROVE ContextInv'
<1>1. ContextTyped /\ Stages /\ Held /\ Context!SeqFresh /\ GivenAway
  BY DEF ContextInv
<1>2. /\ ag_auth' = "none" /\ established' = FALSE /\ gc_proc' = "INIT" /\ gc_seq' = 0 /\ pc = "idle"
      /\ gc_ctx' = 0 /\ ctx' = 0 /\ UNCHANGED <<nctx, nhandle, pc, sent, deleted, released, exported>>
  BY DEF Context!Again, Context!GSS_C_NO_CONTEXT, Context!heap
<1>3. 0 \in 0 .. MaxSeq /\ 0 \in 0 .. nctx /\ 0 \in 0 .. nhandle
  BY <1>1 DEF Context!AuthGssAssumption, ContextTyped
<1>4. ContextTyped'
  BY <1>1, <1>2, <1>3 DEF ContextTyped
<1>5. Stages'
  BY <1>1, <1>2 DEF Stages, ContextTyped, Signed
<1>6. Held'
  BY <1>1, <1>2 DEF Held
<1>7. Context!SeqFresh' /\ GivenAway'
  BY <1>1, <1>2 DEF Context!SeqFresh, GivenAway
<1> QED BY <1>4, <1>5, <1>6, <1>7 DEF ContextInv

LEMMA GiveAwaySafe == ASSUME Context!AuthGssAssumption, ContextInv, Context!authgss_get_private_data PROVE ContextInv'
<1>1. ContextTyped /\ Stages /\ Held /\ Context!SeqFresh /\ GivenAway
  BY DEF ContextInv
<1>2. /\ ag_auth = "live" /\ pc = "idle" /\ established /\ exported' = exported \cup {<<ctx, gc_ctx>>}
      /\ ctx' = 0 /\ gc_ctx' = 0
      /\ UNCHANGED <<ag_auth, established, gc_proc, gc_seq, nctx, nhandle, pc, sent, deleted, released>>
  BY DEF Context!authgss_get_private_data, Context!GSS_C_NO_CONTEXT
<1>3. 0 \in 0 .. nctx /\ 0 \in 0 .. nhandle /\ nctx \in 0 .. MaxBegun /\ nhandle \in 0 .. MaxHandle
  BY <1>1 DEF ContextTyped
<1>4. ContextTyped'
  BY <1>1, <1>2, <1>3 DEF ContextTyped
<1>5. Stages'
  BY <1>1, <1>2 DEF Stages, ContextTyped, Signed
<1>6. Held'
  BY <1>1, <1>2 DEF Held
<1>7. Context!SeqFresh'
  BY <1>1, <1>2 DEF Context!SeqFresh
<1>8. GivenAway'
  <2>0. (ctx /= 0 => ctx \in 1 .. MaxBegun) /\ (gc_ctx /= 0 => gc_ctx \in 1 .. MaxHandle)
    BY <1>1, <1>3 DEF ContextTyped, Context!AuthGssAssumption
  <2>1. ctx /= 0 => deleted[ctx] = 0
    BY <1>1, <2>0 DEF Held
  <2>2. gc_ctx /= 0 => released[gc_ctx] = 0
    BY <1>1, <2>0 DEF Held
  <2>3. \A m \in sent : m[1] = ctx => m[2] /= "DESTROY"
    BY <1>1, <1>2 DEF Stages, Signed
  <2> QED BY <1>1, <1>2, <2>1, <2>2, <2>3 DEF GivenAway
<1> QED BY <1>4, <1>5, <1>6, <1>7, <1>8 DEF ContextInv

(* A step that sends a request with the context of the AUTH.               *)
LEMMA SendSafe ==
  ASSUME Context!AuthGssAssumption, ContextInv, NEW p, NEW q \in Nat, NEW k,
         sent' = sent \cup {<<ctx', p, q, k>>}, UNCHANGED <<ag_auth, gc_proc, gc_ctx, nhandle, released, deleted, exported, established>>,
         nctx' \in 0 .. MaxBegun, nctx' >= nctx, ctx' \in 1 .. nctx', gc_seq' \in 0 .. MaxSeq,
         pc' \in {"idle", "init", "null_call", "verify", "reply", "destroy", "destroy_reply", "tail"},
         \/ ctx' = ctx /\ nctx' = nctx
         \/ ctx' > nctx /\ nctx' = ctx',
         p \in Signed => p = gc_proc /\ q = gc_seq' /\ q > gc_seq /\ established /\ ctx' = ctx,
         gc_seq' >= gc_seq, p = "DESTROY" => gc_proc = "DESTROY",
         pc' \in {"init", "null_call", "verify"} => ag_auth = "live" /\ ~established /\ gc_proc \in {"INIT", "CONTINUE_INIT"},
         ag_auth = "none" => pc' = "idle",
         pc' \in {"idle", "reply"} /\ ag_auth = "live" => gc_proc = "DATA",
         pc' \in {"idle", "reply", "destroy", "destroy_reply"} /\ ag_auth = "live" => established,
         pc' \in {"reply", "destroy", "destroy_reply", "tail"} => ag_auth = "live"
  PROVE  ContextInv'
<1>1. ContextTyped /\ Stages /\ Held /\ Context!SeqFresh /\ GivenAway
  BY DEF ContextInv
<1> DEFINE new == <<ctx', p, q, k>>
<1>2. new[1] = ctx' /\ new[2] = p /\ new[3] = q
  OBVIOUS
<1>3. /\ {MaxSeq, MaxBegun, MaxHandle, nctx, nctx', nhandle, gc_seq, gc_seq', ctx, ctx'} \subseteq Nat /\ ctx <= nctx
      /\ \A m \in sent : m[1] \in 1 .. nctx /\ m[3] \in Nat
      /\ \A e \in exported : e[1] \in 0 .. nctx /\ e[2] \in 0 .. nhandle
  BY <1>1 DEF ContextTyped, Context!AuthGssAssumption
<1> HIDE DEF new
<1>4. sent' = sent \cup {new}
  BY DEF new
<1>5. \A m \in sent : m[1] = ctx' => ctx' = ctx
  BY <1>3
<1>6. ContextTyped'
  <2>1. \A m \in sent' : m[1] \in 1 .. nctx' /\ m[3] \in Nat
    BY <1>2, <1>3, <1>4
  <2>2. \A e \in exported : e[1] \in 0 .. nctx'
    BY <1>3
  <2>3. ctx' \in 0 .. nctx'
    BY <1>3
  <2> QED BY <1>1, <2>1, <2>2, <2>3 DEF ContextTyped
<1>7. \A m \in sent' : m[1] = ctx' /\ m[2] \in Signed => established /\ m[3] <= gc_seq' /\ (m[2] = "DESTROY" => gc_proc = "DESTROY")
  <2>1. ASSUME NEW m \in sent, m[1] = ctx', m[2] \in Signed
        PROVE  established /\ m[3] <= gc_seq' /\ (m[2] = "DESTROY" => gc_proc = "DESTROY")
    <3>1. m[1] = ctx
      BY <1>5, <2>1
    <3>2. established /\ m[3] <= gc_seq /\ (m[2] = "DESTROY" => gc_proc = "DESTROY")
      BY <1>1, <2>1, <3>1 DEF Stages
    <3>3. m[3] \in Nat /\ m[3] <= gc_seq'
      BY <1>3, <3>2
    <3> QED BY <3>2, <3>3
  <2>2. ASSUME p \in Signed PROVE established /\ q <= gc_seq'
    BY <1>3, <2>2
  <2> QED BY <1>2, <1>4, <2>1, <2>2
<1>8. Stages'
  BY <1>1, <1>7 DEF Stages
<1>9. Held'
  <2>1. ASSUME NEW c \in 1 .. MaxBegun, c = ctx' \/ c > nctx' PROVE deleted[c] = 0
    <3>1. c = ctx \/ c > nctx
      BY <1>3, <2>1
    <3> QED BY <1>1, <3>1 DEF Held
  <2> QED BY <1>1, <2>1 DEF Held
<1>10. Context!SeqFresh'
  <2>1. ASSUME NEW m \in sent, m[1] = ctx', m[2] \in Signed, p \in Signed PROVE m[3] < q
    <3>1. m[3] <= gc_seq /\ m[3] \in Nat
      BY <1>1, <1>3, <1>5, <2>1 DEF Stages
    <3> QED BY <1>3, <2>1, <3>1
  <2>2. ASSUME NEW m \in sent, m[1] = new[1], m[2] \in Signed, new[2] \in Signed PROVE m[3] /= new[3]
    <3>1. m[3] < q /\ m[3] \in Nat
      BY <1>2, <1>3, <2>1, <2>2
    <3> QED BY <1>2, <3>1
  <2>3. \A m, n \in sent : m[1] = n[1] /\ m[2] \in Signed /\ n[2] \in Signed /\ m[3] = n[3] => m = n
    BY <1>1 DEF Context!SeqFresh, Signed
  <2>4. \A m, n \in sent' : m[1] = n[1] /\ m[2] \in Signed /\ n[2] \in Signed /\ m[3] = n[3] => m = n
    BY <1>4, <2>2, <2>3
  <2> QED BY <2>4 DEF Context!SeqFresh, Signed
<1>11. GivenAway'
  <2>1. ASSUME NEW e \in exported, e[1] /= 0 PROVE e[1] /= ctx'
    BY <1>1, <1>3, <2>1 DEF GivenAway
  <2> QED BY <1>1, <1>2, <1>4, <2>1 DEF GivenAway
<1> QED BY <1>6, <1>8, <1>9, <1>10, <1>11 DEF ContextInv

LEMMA InitSecContextSafe ==
  ASSUME Context!AuthGssAssumption, ContextInv, Context!InitSecContext PROVE ContextInv'
<1>1. ContextTyped /\ Stages /\ Held /\ Context!SeqFresh /\ GivenAway
  BY DEF ContextInv
<1>2. /\ pc = "init" /\ (ctx = 0 => nctx < MaxBegun)
      /\ IF ctx = 0 THEN nctx' = nctx + 1 /\ ctx' = nctx + 1 ELSE UNCHANGED <<nctx, ctx>>
      /\ \/ pc' = "null_call" /\ sent' = sent \cup {<<ctx', gc_proc, 0, 1>>}
         \/ pc' = "verify" /\ UNCHANGED sent
      /\ UNCHANGED <<ag_auth, gc_proc, gc_seq, gc_ctx, nhandle, released, deleted, exported, established>>
  BY DEF Context!InitSecContext, Context!GSS_C_NO_CONTEXT, Context!heap
<1>3. {MaxSeq, MaxBegun, MaxHandle, nctx, gc_seq, ctx} \subseteq Nat /\ ctx <= nctx /\ nctx <= MaxBegun /\ gc_seq \in 0 .. MaxSeq
  BY <1>1 DEF ContextTyped, Context!AuthGssAssumption
<1>4. /\ nctx' \in 0 .. MaxBegun /\ nctx' >= nctx /\ ctx' \in 1 .. nctx' /\ gc_seq' \in 0 .. MaxSeq /\ gc_seq' >= gc_seq
      /\ \/ ctx' = ctx /\ nctx' = nctx
         \/ ctx' > nctx /\ nctx' = ctx'
  BY <1>2, <1>3
<1>5. ag_auth = "live" /\ ~established /\ gc_proc \in {"INIT", "CONTINUE_INIT"} /\ 0 \in Nat
  BY <1>1, <1>2 DEF Stages
<1>6. CASE pc' = "null_call" /\ sent' = sent \cup {<<ctx', gc_proc, 0, 1>>}
  BY <1>1, <1>2, <1>4, <1>5, <1>6, SendSafe DEF Signed
<1>7. CASE pc' = "verify" /\ UNCHANGED sent
  <2>1. /\ \A m \in sent : m[1] \in 1 .. nctx /\ m[1] \in 1 .. nctx' /\ m[3] \in Nat
        /\ \A e \in exported : e[1] \in 0 .. nctx /\ e[1] \in 0 .. nctx' /\ e[2] \in 0 .. nhandle
    BY <1>1, <1>3, <1>4 DEF ContextTyped
  <2>2. ContextTyped'
    <3>1. ctx' \in 0 .. nctx'
      BY <1>4
    <3> QED BY <1>1, <1>2, <1>4, <1>7, <2>1, <3>1 DEF ContextTyped
  <2>3. \A m \in sent : m[1] = ctx' => ctx' = ctx
    BY <1>3, <1>4, <2>1
  <2>4. Stages'
    BY <1>1, <1>2, <1>5, <1>7, <2>3 DEF Stages
  <2>5. Held'
    <3>1. ASSUME NEW c \in 1 .. MaxBegun, c = ctx' \/ c > nctx' PROVE c = ctx \/ c > nctx
      BY <1>3, <1>4, <3>1
    <3> QED BY <1>1, <1>2, <3>1 DEF Held
  <2>6. Context!SeqFresh'
    BY <1>1, <1>7 DEF Context!SeqFresh
  <2>7. GivenAway'
    <3>1. ASSUME NEW e \in exported, e[1] /= 0, e[1] = ctx' PROVE e[1] = ctx
      BY <1>3, <1>4, <2>1, <3>1
    <3> QED BY <1>1, <1>2, <1>7, <3>1 DEF GivenAway
  <2> QED BY <2>2, <2>4, <2>5, <2>6, <2>7 DEF ContextInv
<1> QED BY <1>2, <1>6, <1>7

LEMMA NullCallSafe ==
  ASSUME Context!AuthGssAssumption, ContextInv, NEW token \in BOOLEAN, Context!NullCall(token) PROVE ContextInv'
<1>1. ContextTyped /\ Stages /\ Held /\ Context!SeqFresh /\ GivenAway
  BY DEF ContextInv
<1>2. /\ pc = "null_call"
      /\ \/ /\ nhandle < MaxHandle /\ nhandle' = nhandle + 1 /\ gc_ctx' = nhandle + 1
            /\ released' = IF gc_ctx /= 0 THEN [released EXCEPT ![gc_ctx] = @ + 1] ELSE released
         \/ UNCHANGED <<nhandle, gc_ctx, released>>
      /\ UNCHANGED <<established, gc_seq, ctx, nctx, sent, deleted, exported>>
  BY DEF Context!NullCall
<1>3. \/ ag_auth' = "failed" /\ pc' = "idle" /\ gc_proc' = gc_proc
      \/ ag_auth' = ag_auth /\ pc' \in {"verify", "init"} /\ gc_proc' = "CONTINUE_INIT"
  BY DEF Context!NullCall, Context!GiveUp
<1>4. ag_auth = "live" /\ ~established /\ gc_proc \in {"INIT", "CONTINUE_INIT"}
  BY <1>1, <1>2 DEF Stages
<1>5. {MaxHandle, nhandle, gc_ctx} \subseteq Nat /\ gc_ctx <= nhandle /\ nhandle <= MaxHandle
      /\ (gc_ctx /= 0 => gc_ctx \in 1 .. MaxHandle)
  BY <1>1 DEF ContextTyped, Context!AuthGssAssumption
<1>6. Stages'
  BY <1>1, <1>2, <1>3, <1>4 DEF Stages, Signed
<1>7. /\ \A h \in 1 .. MaxHandle : released'[h] = released[h] \/ (h = gc_ctx /\ released'[h] = released[h] + 1 /\ gc_ctx' = nhandle + 1)
      /\ released' \in [1 .. MaxHandle -> Nat]
  <2>1. released \in [1 .. MaxHandle -> Nat]
    BY <1>1 DEF ContextTyped
  <2>2. CASE gc_ctx' = nhandle + 1 /\ released' = IF gc_ctx /= 0 THEN [released EXCEPT ![gc_ctx] = @ + 1] ELSE released
    <3>1. CASE gc_ctx = 0
      BY <2>1, <2>2, <3>1
    <3>2. CASE gc_ctx /= 0
      <4>1. gc_ctx \in 1 .. MaxHandle /\ released[gc_ctx] \in Nat
        BY <1>5, <2>1, <3>2
      <4> QED BY <2>1, <2>2, <3>2, <4>1
    <3> QED BY <3>1, <3>2
  <2>3. CASE UNCHANGED released
    BY <2>1, <2>3
  <2> QED BY <1>2, <2>2, <2>3
<1>8. /\ nhandle' \in 0 .. MaxHandle /\ gc_ctx' \in 0 .. nhandle' /\ nhandle' >= nhandle
      /\ \/ gc_ctx' = gc_ctx /\ nhandle' = nhandle
         \/ gc_ctx' = nhandle + 1 /\ nhandle' = nhandle + 1
  <2>1. gc_ctx \in 0 .. nhandle /\ nhandle + 1 \in 0 .. nhandle + 1
    BY <1>5
  <2>2. CASE nhandle < MaxHandle /\ nhandle' = nhandle + 1 /\ gc_ctx' = nhandle + 1
    BY <1>5, <2>1, <2>2
  <2>3. CASE UNCHANGED <<nhandle, gc_ctx>>
    BY <1>5, <2>1, <2>3
  <2> QED BY <1>2, <2>2, <2>3
<1>9. ContextTyped'
  <2>1. \A e \in exported : e[1] \in 0 .. nctx /\ e[2] \in 0 .. nhandle'
    BY <1>1, <1>5, <1>8 DEF ContextTyped
  <2> QED BY <1>1, <1>2, <1>3, <1>7, <1>8, <2>1 DEF ContextTyped
<1>10. Held'
  <2>1. ASSUME NEW h \in 1 .. MaxHandle
        PROVE  released'[h] <= 1 /\ (h = gc_ctx' \/ h > nhandle' => released'[h] = 0)
    <3>1. released[h] \in Nat /\ released[h] <= 1 /\ (h = gc_ctx \/ h > nhandle => released[h] = 0)
      BY <1>1 DEF Held, ContextTyped
    <3> QED BY <1>5, <1>7, <1>8, <3>1
  <2> QED BY <1>1, <1>2, <2>1 DEF Held
<1>11. Context!SeqFresh'
  BY <1>1, <1>2 DEF Context!SeqFresh
<1>12. GivenAway'
  <2>1. ASSUME NEW e \in exported, e[2] /= 0 PROVE e[2] /= gc_ctx' /\ released'[e[2]] = 0
    <3>1. e[2] \in 1 .. MaxHandle /\ e[2] <= nhandle /\ e[2] /= gc_ctx /\ released[e[2]] = 0
      BY <1>1, <1>5, <2>1 DEF ContextTyped, GivenAway
    <3> QED BY <1>5, <1>7, <1>8, <3>1
  <2> QED BY <1>1, <1>2, <2>1 DEF GivenAway
<1> QED BY <1>6, <1>9, <1>10, <1>11, <1>12 DEF ContextInv

LEMMA MarshalSafe ==
  ASSUME Context!AuthGssAssumption, ContextInv, Context!Call \/ Context!MarshalDestroy PROVE ContextInv'
<1>1. ContextTyped /\ Stages
  BY DEF ContextInv
<1> DEFINE k == Context!Times(ctx, gc_proc, gc_seq') + 1
<1>2. /\ \/ ag_auth = "live" /\ pc = "idle" /\ pc' \in {"reply", "idle"}
         \/ pc = "destroy" /\ pc' \in {"destroy_reply", "tail"}
      /\ gc_seq < MaxSeq /\ gc_seq' = (IF established THEN gc_seq + 1 ELSE gc_seq)
      /\ UNCHANGED <<ag_auth, gc_proc, nctx, nhandle, exported>>
      /\ \/ /\ ctx /= 0 /\ pc' \in {"reply", "destroy_reply"}
            /\ sent' = sent \cup {<<ctx, gc_proc, gc_seq', k>>} /\ UNCHANGED <<established, gc_ctx, ctx, released, deleted>>
         \/ pc' \in {"idle", "tail"} /\ UNCHANGED <<sent, established, gc_ctx, ctx, released, deleted>>
         \/ pc' \in {"idle", "tail"} /\ Context!destroy_context /\ UNCHANGED sent
  BY DEF Context!Call, Context!MarshalDestroy, Context!Marshal, Context!GSS_C_NO_CONTEXT
<1> HIDE DEF k
<1>3. {MaxSeq, MaxBegun, nctx, gc_seq, ctx} \subseteq Nat /\ ctx <= nctx /\ nctx \in 0 .. MaxBegun
  BY <1>1 DEF ContextTyped, Context!AuthGssAssumption
<1>4. gc_seq' \in 0 .. MaxSeq /\ gc_seq' >= gc_seq /\ gc_seq' \in Nat /\ (established => gc_seq' > gc_seq)
  BY <1>2, <1>3
<1>5. ag_auth = "live" /\ (ctx /= 0 => established) /\ (pc = "idle" => gc_proc = "DATA")
  BY <1>1, <1>2 DEF Stages
<1>6. CASE /\ ctx /= 0 /\ pc' \in {"reply", "destroy_reply"}
           /\ sent' = sent \cup {<<ctx, gc_proc, gc_seq', k>>} /\ UNCHANGED <<established, gc_ctx, ctx, released, deleted>>
  <2>1. established /\ ctx' \in 1 .. nctx' /\ nctx' >= nctx /\ nctx' \in 0 .. MaxBegun /\ ctx' = ctx /\ nctx' = nctx
    BY <1>2, <1>3, <1>5, <1>6
  <2>2. sent' = sent \cup {<<ctx', gc_proc, gc_seq', k>>}
    BY <1>6
  <2>3. pc' = "reply" => gc_proc = "DATA"
    BY <1>2, <1>5
  <2> QED BY <1>2, <1>4, <1>5, <1>6, <2>1, <2>2, <2>3, SendSafe
<1>7. CASE pc' \in {"idle", "tail"} /\ UNCHANGED <<sent, established, gc_ctx, ctx, released, deleted>>
  <2>1. ASSUME NEW m \in sent, m[1] = ctx, m[2] \in Signed
        PROVE  established /\ m[3] <= gc_seq' /\ (m[2] = "DESTROY" => gc_proc = "DESTROY")
    <3>1. established /\ m[3] <= gc_seq /\ (m[2] = "DESTROY" => gc_proc = "DESTROY") /\ m[3] \in Nat
      BY <1>1, <2>1 DEF Stages, ContextTyped
    <3> QED BY <1>3, <1>4, <3>1
  <2>2. Stages'
    BY <1>1, <1>2, <1>5, <1>7, <2>1 DEF Stages
  <2> QED BY <1>1, <1>2, <1>4, <1>7, <2>2, NothingFreed DEF ContextTyped
<1>8. CASE pc' \in {"idle", "tail"} /\ Context!destroy_context /\ UNCHANGED sent
  BY <1>1, <1>2, <1>4, <1>5, <1>8, DestroyContext DEF ContextTyped
<1> QED BY <1>2, <1>6, <1>7, <1>8

LEMMA ContextNext ==
  ASSUME Context!AuthGssAssumption PROVE ContextInv /\ [Context!Next]_Context!vars => ContextInv'
<1> SUFFICES ASSUME ContextInv, [Context!Next]_Context!vars PROVE ContextInv'
  OBVIOUS
<1>1. CASE UNCHANGED Context!vars
  <2>1. UNCHANGED <<ag_auth, established, gc_proc, gc_seq, gc_ctx, nhandle, ctx, nctx, pc, sent, deleted, released, exported>>
    BY <1>1 DEF Context!vars, Context!gd, Context!heap
  <2>2. Stages'
    BY <2>1 DEF ContextInv, Stages
  <2> QED BY <2>1, <2>2, NothingFreed DEF ContextInv, ContextTyped
<1>2. ASSUME NEW b \in BOOLEAN, Context!VerifyFails(b) PROVE ContextInv'
  <2>1. CASE b = TRUE
    BY <1>2, <2>1, FreeSafe
  <2>2. CASE b = FALSE
    BY <1>2, <2>2, QuietSafe
  <2> QED BY <2>1, <2>2
<1> QED BY <1>1, <1>2, QuietSafe, EstablishedSafe, DestroySafe, ReplySafe, FreeSafe, AgainSafe, GiveAwaySafe,
           InitSecContextSafe, NullCallSafe, MarshalSafe DEF Context!Next

(* A client's RPCSEC_GSS contexts, for any number of contexts, requests    *)
(* and handles: none is deleted and no handle released twice, although one *)
(* may expire in the call that destroys it, no two signed requests of a    *)
(* context have one number, and what authgss_get_private_data gave away is *)
(* neither freed nor destroyed at the server (auth_gss.c).                 *)
THEOREM ClientContexts == Context!Spec => []ClientContextsSound
<1>1. Context!Init => ContextInv
  BY ContextAssumption, ContextInit
<1>2. ContextInv /\ [Context!Next]_Context!vars => ContextInv'
  BY ContextAssumption, ContextNext
<1>3. ContextInv => ClientContextsSound
  <2> SUFFICES ASSUME ContextInv PROVE Context!ClientContextsSound
    BY DEF ClientContextsSound
  <2>1. Context!TypeOK
    BY DEF ContextInv, ContextTyped, Stages, Signed, Context!TypeOK
  <2>2. Context!FreedOnce
    BY DEF ContextInv, Held, Context!FreedOnce, Context!Ctxs
  <2>3. Context!ExportedKept
    BY DEF ContextInv, GivenAway, Context!ExportedKept
  <2> QED BY <2>1, <2>2, <2>3 DEF ContextInv, Context!ClientContextsSound
<1> QED BY <1>1, <1>2, <1>3, PTL DEF Context!Spec

-----------------------------------------------------------------------------
(* The handlers of credentials on a server (SvcAuth), with and without     *)
(* AUTH_DES.                                                               *)
Accepted ==
  /\ Auths \in [NewFlavors -> Handlers \cup {"none"}]
  /\ served.read \in Nat /\ WithDes!OwnBytes /\ WithDes!InArea

(* The end of the credential _svcauth_unix reads, whatever its lengths.    *)
LEMMA UnixRead ==
  ASSUME NEW n \in Nat, NEW str \in Nat, NEW gids \in Nat
  PROVE  LET r == WithDes!_svcauth_unix(n, str, gids) IN
         /\ r.read \in 0 .. 400
         /\ r.stat = "AUTH_OK" => r.read <= n /\ str <= 255 /\ gids <= 16
<1> DEFINE rnd == WithDes!RNDUP(str)
           fixed == 20 + rnd
<1>1. rnd \in Nat /\ (str <= 255 => rnd <= 256)
  BY DEF WithDes!RNDUP
<1>2. WithDes!_svcauth_unix(n, str, gids) =
        IF str > 255 THEN WithDes!bad(8)
        ELSE IF gids > 16 THEN WithDes!bad(fixed)
        ELSE IF fixed + 4 * gids > n THEN WithDes!bad(fixed + 4 * gids)
        ELSE [stat |-> "AUTH_OK", read |-> fixed + 4 * gids]
  BY DEF WithDes!_svcauth_unix, WithDes!MAX_MACHINE_NAME, WithDes!NGRPS
<1>3. \A k : WithDes!bad(k).read = k /\ WithDes!bad(k).stat = "AUTH_BADCRED"
  BY DEF WithDes!bad
<1> HIDE DEF rnd
<1>4. CASE str > 255
  BY <1>2, <1>3, <1>4
<1>5. CASE ~(str > 255) /\ gids > 16
  BY <1>1, <1>2, <1>3, <1>5
<1>6. CASE ~(str > 255) /\ ~(gids > 16)
  <2> DEFINE e == fixed + 4 * gids
  <2>1. e \in 0 .. 400 /\ str <= 255 /\ gids <= 16
    BY <1>1, <1>6
  <2>2. WithDes!_svcauth_unix(n, str, gids) =
          IF e > n THEN WithDes!bad(e) ELSE [stat |-> "AUTH_OK", read |-> e]
    BY <1>2, <1>6
  <2> HIDE DEF e, fixed
  <2> QED BY <1>3, <2>1, <2>2
<1> QED BY <1>4, <1>5, <1>6

(* A request is answered: by _svcauth_unix, or without reading the area.   *)
LEMMA RequestAnswered ==
  ASSUME HandlersAssumption, Accepted, WithDes!request \/ NoDes!request
  PROVE  Accepted'
<1>1. PICK f \in WithDes!Builtin \cup NewFlavors, n \in AuthLens,
            sl \in StrLens, g \in GidLens :
        /\ UNCHANGED Auths
        /\ \/ /\ f = "AUTH_SYS"
              /\ served' = [flavor |-> f, stat |-> WithDes!_svcauth_unix(n, sl, g).stat, by |-> "none",
                   auth_len |-> n, read |-> WithDes!_svcauth_unix(n, sl, g).read, str |-> sl, gids |-> g]
           \/ f /= "AUTH_SYS" /\ served'.flavor = f /\ served'.read = 0
  <2>1. CASE WithDes!request
    <3>1. PICK f \in WithDes!Builtin \cup NewFlavors, n \in AuthLens,
            sl \in StrLens, g \in GidLens :
            UNCHANGED Auths /\ WithDes!_gss_authenticate(f, n, sl, g)
      BY <2>1 DEF WithDes!request
    <3>2. CASE f = "AUTH_SYS"
      BY <3>1, <3>2 DEF WithDes!_gss_authenticate, WithDes!answer, WithDes!Builtin, WithDes!None
    <3>3. CASE f /= "AUTH_SYS"
      <4>1. served'.flavor = f /\ served'.read = 0
        BY <3>1, <3>3 DEF WithDes!_gss_authenticate, WithDes!answer
      <4> QED BY <3>1, <3>3, <4>1
    <3> QED BY <3>2, <3>3
  <2>2. CASE NoDes!request
    <3>1. PICK f \in WithDes!Builtin \cup NewFlavors, n \in AuthLens,
            sl \in StrLens, g \in GidLens :
            UNCHANGED Auths /\ NoDes!_gss_authenticate(f, n, sl, g)
      BY <2>2 DEF NoDes!request, NoDes!Builtin, WithDes!Builtin
    <3>2. NoDes!_svcauth_unix(n, sl, g) = WithDes!_svcauth_unix(n, sl, g)
      BY DEF NoDes!_svcauth_unix, WithDes!_svcauth_unix, NoDes!RNDUP, WithDes!RNDUP, NoDes!bad,
        WithDes!bad, NoDes!MAX_MACHINE_NAME, WithDes!MAX_MACHINE_NAME, NoDes!NGRPS, WithDes!NGRPS
    <3>3. CASE f = "AUTH_SYS"
      BY <3>1, <3>2, <3>3 DEF NoDes!_gss_authenticate, NoDes!answer, NoDes!Builtin, NoDes!None
    <3>4. CASE f /= "AUTH_SYS"
      <4>1. served'.flavor = f /\ served'.read = 0
        BY <3>1, <3>4 DEF NoDes!_gss_authenticate, NoDes!answer
      <4> QED BY <3>1, <3>4, <4>1
    <3> QED BY <3>3, <3>4
  <2> QED BY <2>1, <2>2
<1>2. n \in Nat /\ sl \in Nat /\ g \in Nat
  BY HandlersAssumption DEF WithDes!SvcAuthAssumption
<1>3. CASE f = "AUTH_SYS"
  <2> DEFINE r == WithDes!_svcauth_unix(n, sl, g)
  <2>1. /\ r.read \in 0 .. 400
        /\ r.stat = "AUTH_OK" => r.read <= n /\ sl <= 255 /\ g <= 16
    BY <1>2, UnixRead
  <2>2. /\ served'.read = r.read /\ served'.stat = r.stat /\ served'.auth_len = n
        /\ served'.str = sl /\ served'.gids = g
    BY <1>1, <1>3
  <2> HIDE DEF r
  <2> QED BY <1>1, <2>1, <2>2 DEF Accepted, WithDes!OwnBytes, WithDes!InArea,
    WithDes!MAX_AUTH_BYTES, WithDes!MAX_MACHINE_NAME, WithDes!NGRPS
<1>4. CASE f /= "AUTH_SYS"
  <2>1. served'.flavor /= "AUTH_SYS" /\ served'.read = 0
    BY <1>1, <1>4
  <2> QED BY <1>1, <2>1 DEF Accepted, WithDes!OwnBytes, WithDes!InArea, WithDes!MAX_AUTH_BYTES
<1> QED BY <1>3, <1>4

(* A flavor is registered: the handler it has stays.                       *)
LEMMA FlavorRegistered ==
  ASSUME Accepted, WithDes!register \/ NoDes!register
  PROVE  Accepted' /\ \A f \in NewFlavors : Auths[f] /= "none" => Auths'[f] = Auths[f]
<1>1. PICK f \in WithDes!Builtin \cup NewFlavors, h \in Handlers :
        Auths' = Auths \/ (Auths[f] = "none" /\ Auths' = [Auths EXCEPT ![f] = h])
  <2>1. CASE WithDes!register
    <3>1. PICK f \in WithDes!Builtin \cup NewFlavors, h \in Handlers : WithDes!svc_auth_reg(f, h)
      BY <2>1 DEF WithDes!register
    <3>2. Auths' = Auths \/ (Auths[f] = "none" /\ Auths' = [Auths EXCEPT ![f] = h])
      <4>1. CASE f \in WithDes!Builtin \/ Auths[f] /= "none"
        BY <3>1, <4>1 DEF WithDes!svc_auth_reg, WithDes!None
      <4>2. CASE ~(f \in WithDes!Builtin \/ Auths[f] /= "none")
        BY <3>1, <4>2 DEF WithDes!svc_auth_reg, WithDes!None
      <4> QED BY <4>1, <4>2
    <3> QED BY <3>2
  <2>2. CASE NoDes!register
    <3>1. PICK f \in WithDes!Builtin \cup NewFlavors, h \in Handlers : NoDes!svc_auth_reg(f, h)
      BY <2>2 DEF NoDes!register, NoDes!Builtin, WithDes!Builtin
    <3>2. Auths' = Auths \/ (Auths[f] = "none" /\ Auths' = [Auths EXCEPT ![f] = h])
      <4>1. CASE f \in NoDes!Builtin \/ Auths[f] /= "none"
        BY <3>1, <4>1 DEF NoDes!svc_auth_reg, NoDes!None
      <4>2. CASE ~(f \in NoDes!Builtin \/ Auths[f] /= "none")
        BY <3>1, <4>2 DEF NoDes!svc_auth_reg, NoDes!None
      <4> QED BY <4>1, <4>2
    <3> QED BY <3>2
  <2> QED BY <2>1, <2>2
<1>2. served' = served
  BY DEF WithDes!register, NoDes!register
<1>3. Auths' \in [NewFlavors -> Handlers \cup {"none"}]
  BY <1>1 DEF Accepted
<1>4. \A g \in NewFlavors : Auths[g] /= "none" => Auths'[g] = Auths[g]
  BY <1>1 DEF Accepted
<1> QED BY <1>2, <1>3, <1>4 DEF Accepted, WithDes!OwnBytes, WithDes!InArea

(* A server's handlers of credentials (_gss_authenticate, _svcauth_unix,   *)
(* svc_auth_reg), for any lengths, flavors and handlers: what is accepted  *)
(* was decoded from the bytes of its own request and inside the area, and  *)
(* no handler is replaced; with AUTH_DES a second registration is told so. *)
THEOREM Credentials ==
  WithDes!Spec \/ (NoDes!Spec /\ [](part /= "handlers")) => CredentialsDecoded
<1>1. WithDes!Init \/ NoDes!Init => Accepted
  <2> SUFFICES ASSUME WithDes!Init \/ NoDes!Init PROVE Accepted
    OBVIOUS
  <2>1. /\ Auths = [f \in NewFlavors |-> "none"]
        /\ served.flavor = "AUTH_NONE" /\ served.read = 0
    BY DEF WithDes!Init, NoDes!Init, WithDes!None, NoDes!None
  <2> QED BY <2>1 DEF Accepted, WithDes!OwnBytes, WithDes!InArea, WithDes!MAX_AUTH_BYTES
<1>2. ASSUME Accepted, WithDes!Next \/ NoDes!Next \/ UNCHANGED WithDes!authvars
      PROVE  Accepted' /\ \A f \in NewFlavors : Auths[f] /= "none" => Auths'[f] = Auths[f]
  <2>1. CASE WithDes!request \/ NoDes!request
    <3>1. Accepted'
      BY <1>2, <2>1, HandlersAssumption, RequestAnswered
    <3>2. Auths' = Auths
      BY <2>1 DEF WithDes!request, NoDes!request
    <3> QED BY <3>1, <3>2
  <2>2. CASE WithDes!register \/ NoDes!register
    BY <1>2, <2>2, FlavorRegistered
  <2>3. CASE UNCHANGED WithDes!authvars
    BY <1>2, <2>3 DEF Accepted, WithDes!OwnBytes, WithDes!InArea, WithDes!authvars
  <2> QED BY <1>2, <2>1, <2>2, <2>3 DEF WithDes!Next, NoDes!Next
<1>3. Accepted /\ [WithDes!Next]_WithDes!authvars =>
        /\ Accepted'
        /\ [\A f \in NewFlavors : Auths[f] /= WithDes!None => Auths'[f] = Auths[f]]_WithDes!authvars
  BY <1>2 DEF WithDes!None
<1>4. Accepted /\ [NoDes!Next]_NoDes!authvars =>
        /\ Accepted'
        /\ [\A f \in NewFlavors : Auths[f] /= WithDes!None => Auths'[f] = Auths[f]]_WithDes!authvars
  BY <1>2 DEF WithDes!None, WithDes!authvars, NoDes!authvars
<1>5. WithDes!Init => WithDes!RegisteredBefore
  BY DEF WithDes!Init, WithDes!RegisteredBefore
<1>6. WithDes!RegisteredBefore /\ [WithDes!Next]_WithDes!authvars => WithDes!RegisteredBefore'
  <2> SUFFICES ASSUME WithDes!RegisteredBefore, [WithDes!Next]_WithDes!authvars
               PROVE  WithDes!RegisteredBefore'
    OBVIOUS
  <2>1. CASE WithDes!register
    <3>1. PICK f \in WithDes!Builtin \cup NewFlavors, h \in Handlers : WithDes!svc_auth_reg(f, h)
      BY <2>1 DEF WithDes!register
    <3> QED BY <3>1 DEF WithDes!svc_auth_reg, WithDes!RegisteredBefore
  <2>2. CASE UNCHANGED registered
    BY <2>2 DEF WithDes!RegisteredBefore
  <2> QED BY <2>1, <2>2 DEF WithDes!Next, WithDes!request, WithDes!authvars
<1>7. Accepted => WithDes!OwnBytes /\ WithDes!InArea
  BY DEF Accepted
<1>8. WithDes!Spec => []Accepted /\ WithDes!HandlerKept
  BY <1>1, <1>3, PTL DEF WithDes!Spec, WithDes!HandlerKept
<1>9. NoDes!Spec => []Accepted /\ WithDes!HandlerKept
  BY <1>1, <1>4, PTL DEF NoDes!Spec, WithDes!HandlerKept
<1>10. WithDes!Spec => []WithDes!RegisteredBefore
  BY <1>5, <1>6, PTL DEF WithDes!Spec
<1>11. WithDes!RegisteredBefore => (part = "handlers" => WithDes!RegisteredBefore)
  OBVIOUS
<1>12. part /= "handlers" => (part = "handlers" => WithDes!RegisteredBefore)
  OBVIOUS
<1> QED
  BY <1>7, <1>8, <1>9, <1>10, <1>11, <1>12, PTL DEF CredentialsDecoded
=============================================================================
