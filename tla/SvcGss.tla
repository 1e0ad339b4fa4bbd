-------------------------------- MODULE SvcGss -------------------------------
(***************************************************************************)
(* RPCSEC_GSS on the server (svc_auth_gss.c): the cache of security        *)
(* contexts, one per transport, by the transport's address and with an     *)
(* expiry; the window of sequence numbers; the control procedures; the     *)
(* callback that accepts a context.  The GSS-API is external: a checksum   *)
(* verifies if it was made with the same complete context.  One quality of *)
(* protection.  Requests arrive in any order and any number of times.      *)
(***************************************************************************)
EXTENDS Integers, Sequences, FiniteSets

CONSTANTS Xprts,      \* addresses of transports; an address is used again
          Win, Width, \* gr_win, and the bits of seqmask
          MAXSEQ,     \* 2^31: the largest number, and minus it the least int
          Seqs,       \* numbers that requests of clients carry
          Svcs,       \* services
          Life,       \* how long an unused context lives
          MaxTime, MaxGd, MaxConn, MaxCtx, MaxTimes   \* bounds

ASSUME GssAssumption ==
  /\ Win \in Nat \ {0} /\ Width \in Nat /\ Win < Width
  /\ MAXSEQ \in Nat \ {0} /\ Seqs \subseteq Nat /\ Life \in Nat
  /\ MaxTime \in Nat /\ MaxGd \in Nat /\ MaxConn \in Nat /\ MaxCtx \in Nat
  /\ MaxTimes \in Nat

None == 0

VARIABLES
  now,
  conn,          \* connection at each address, 0 when the transport is destroyed
  nconn,
  svcauth_gss_cache,
  gds,           \* every svc_rpc_gss_data allocated
  svc_ah_private,
  ctxs,          \* contexts made: [conn, known]: known to the client
  dispatched     \* how often each number of a context was given to the service

cachevars == <<svcauth_gss_cache, gds, svc_ah_private>>
vars == <<now, conn, nconn, cachevars, ctxs, dispatched>>

NewGd(k) == [freed |-> FALSE, conn |-> k, ctx |-> None, complete |-> FALSE,
             established |-> FALSE, locked |-> FALSE, svc |-> "none", rsvc |-> "none",
             seqlast |-> 0, seqmask |-> {}, back |-> FALSE, callback_done |-> FALSE,
             rejected |-> FALSE]
Init ==
  /\ now = 0 /\ conn = [x \in Xprts |-> 0] /\ nconn = 0
  /\ svcauth_gss_cache = <<>> /\ gds = <<>> /\ svc_ah_private = [x \in Xprts |-> None]
  /\ ctxs = <<>> /\ dispatched = [c \in 1 .. MaxCtx |-> [s \in Seqs |-> 0]]

-----------------------------------------------------------------------------
(* lookup_cache_entry, use_cache_entry and destroy_cold_cache_entries: the *)
(* entry of the transport moves to the front, and the first entry whose    *)
(* time has come is destroyed with all behind it.                          *)
First(S) == CHOOSE k \in S : \A j \in S : k <= j
unlink(c, S) ==
  IF S = {} THEN c ELSE [j \in 1 .. Len(c) - 1 |-> IF j < First(S) THEN c[j] ELSE c[j + 1]]
lookup_cache_entry(x) == {k \in 1 .. Len(svcauth_gss_cache) : svcauth_gss_cache[k].xprt = x}
use_cache_entry(x, id) ==
  <<[xprt |-> x, gd |-> id, time_to_die |-> now + Life]>>
    \o unlink(svcauth_gss_cache, lookup_cache_entry(x))
warm(c) ==
  LET cold == {k \in 1 .. Len(c) : now > c[k].time_to_die}
  IN IF cold = {} THEN Len(c) ELSE First(cold) - 1

(* The first part of _svcauth_gss: the data of this transport.             *)
Enter(x) ==
  LET ks == lookup_cache_entry(x)
      id == IF ks = {} THEN Len(gds) + 1 ELSE svcauth_gss_cache[First(ks)].gd
      c  == use_cache_entry(x, id)
  IN [id |-> id, new |-> ks = {}, gd |-> IF ks = {} THEN NewGd(conn[x]) ELSE gds[id],
      cache |-> SubSeq(c, 1, warm(c)), dead |-> {c[k].gd : k \in warm(c) + 1 .. Len(c)}]

(* destroy_gd, and what _svcauth_gss leaves behind.                        *)
Leave(x, e, g, drop) ==
  LET all == IF e.new THEN Append(gds, g) ELSE [gds EXCEPT ![e.id] = g]
      dead == e.dead \cup IF drop THEN {e.id} ELSE {}
  IN /\ gds' = [k \in 1 .. Len(all) |->
                 IF k \in dead THEN [all[k] EXCEPT !.freed = TRUE, !.ctx = None] ELSE all[k]]
     /\ svcauth_gss_cache' =
          IF drop THEN unlink(e.cache, {k \in 1 .. Len(e.cache) : e.cache[k].gd = e.id}) ELSE e.cache
     /\ svc_ah_private' = [svc_ah_private EXCEPT ![x] = IF drop THEN None ELSE e.id]

(* The sequence window.  The difference of two numbers is put in an int:   *)
(* MAXSEQ becomes the least int, which is negative and has no opposite.    *)
(* Shifting a word by that, or by its width or more, is undefined: zero, or*)
(* the shift by the remainder that the processor does, none for 2^31.      *)
(* "back": the window of this context moved back.                          *)
offset(last, s) == IF last - s = MAXSEQ THEN -MAXSEQ ELSE last - s
shifted(mask, n) == {b + n : b \in mask} \cap 0 .. Width - 1
seqmask_shift(mask, n) ==
  IF n = MAXSEQ THEN {{}, mask}
  ELSE IF n < Width THEN {shifted(mask, n)} ELSE {{}, shifted(mask, n % Width)}
window_no_mask(g, s) ==
  IF offset(g.seqlast, s) < 0 THEN {[g EXCEPT !.seqlast = s, !.seqmask = {0}]}
  ELSE IF offset(g.seqlast, s) >= Win THEN {} ELSE {g}
window(g, s) ==
  LET o == offset(g.seqlast, s) IN
  IF ~g.established THEN {g}
  ELSE IF s > MAXSEQ THEN {}
  ELSE IF o < 0
  THEN {[g EXCEPT !.seqlast = s, !.seqmask = m \cup {0},
                  !.back = @ \/ s < g.seqlast] : m \in seqmask_shift(g.seqmask, -o)}
  ELSE IF o >= Win \/ o \in g.seqmask THEN {}
  ELSE {[g EXCEPT !.seqmask = @ \cup {o}]}

Rejected(x, e, g) ==
  /\ Leave(x, e, g, FALSE)
  /\ UNCHANGED <<now, conn, nconn, ctxs, dispatched>>

-----------------------------------------------------------------------------
(* A credential that does not decode, or a number outside the window.      *)
BadCred(x) == LET e == Enter(x) IN Rejected(x, e, e.gd)
OutsideWindow(x, r) ==
  LET e == Enter(x) IN window(e.gd, r.seq) = {} /\ Rejected(x, e, e.gd)

(* RPCSEC_GSS_INIT and CONTINUE_INIT.  The GSS-API refuses a context that  *)
(* is already complete, and makes no checksum with one that is not.        *)
InitFails(x, r) ==
  LET e == Enter(x) IN \E g \in window(e.gd, r.seq) :
    \/ Rejected(x, e, g)
    \/ Rejected(x, e, [g EXCEPT !.ctx = None, !.complete = FALSE])
accept(g, r) ==
  [g EXCEPT !.ctx = Len(ctxs) + 1, !.complete = TRUE, !.svc = r.svc, !.rsvc = r.svc,
            !.callback_done = FALSE, !.rejected = FALSE, !.back = FALSE]
InitContinues(x, r) ==
  LET e == Enter(x) IN
  /\ ~e.gd.complete /\ Len(ctxs) < MaxCtx
  /\ \E g \in window(e.gd, r.seq) :
       Leave(x, e, [accept(g, r) EXCEPT !.complete = FALSE], FALSE)
  /\ ctxs' = Append(ctxs, [conn |-> conn[x], known |-> FALSE])
  /\ UNCHANGED <<now, conn, nconn, dispatched>>
InitCompletes(x, r, sent) ==
  LET e == Enter(x) IN
  /\ ~e.gd.complete /\ Len(ctxs) < MaxCtx
  /\ \E g \in window(e.gd, r.seq) :
       Leave(x, e, [accept(g, r) EXCEPT !.established = @ \/ sent], FALSE)
  /\ ctxs' = Append(ctxs, [conn |-> conn[x], known |-> sent])
  /\ UNCHANGED <<now, conn, nconn, dispatched>>

(* RPCSEC_GSS_DATA: validate, ask the callback the first time, keep to the *)
(* service if it was locked.                                               *)
svcauth_gss_validate(g, c) == g.complete /\ g.ctx = c
DataInvalid(x, r, c) ==
  LET e == Enter(x) IN \E g \in window(e.gd, r.seq) :
    ~svcauth_gss_validate(g, c) /\ Rejected(x, e, g)
callback_done_on(g, ok, lock) ==
  IF g.callback_done THEN g
  ELSE [g EXCEPT !.callback_done = TRUE, !.rejected = ~ok, !.locked = IF ok THEN lock ELSE @]
DataRefused(x, r, c) ==
  LET e == Enter(x) IN \E g \in window(e.gd, r.seq) :
    /\ svcauth_gss_validate(g, c)
    /\ \/ ~g.callback_done /\ Rejected(x, e, callback_done_on(g, FALSE, FALSE))
       \/ \E lock \in BOOLEAN : LET h == callback_done_on(g, TRUE, lock) IN
            h.locked /\ h.rsvc /= r.svc /\ Rejected(x, e, h)
Data(x, r, c) ==
  LET e == Enter(x) IN \E g \in window(e.gd, r.seq), lock \in BOOLEAN :
  LET h == callback_done_on(g, TRUE, lock) IN
    /\ svcauth_gss_validate(g, c) /\ (h.locked => h.rsvc = r.svc)
    /\ dispatched[c][r.seq] < MaxTimes
    /\ Leave(x, e, [h EXCEPT !.rsvc = r.svc], FALSE)
    /\ dispatched' = [dispatched EXCEPT ![c][r.seq] = @ + 1]
    /\ UNCHANGED <<now, conn, nconn, ctxs>>

(* RPCSEC_GSS_DESTROY, with svcauth_gss_destroy.                           *)
destroy_keeps_entry(x, r, c) ==
  LET e == Enter(x) IN \E g \in window(e.gd, r.seq) :
    /\ svcauth_gss_validate(g, c) /\ Leave(x, [e EXCEPT !.dead = @ \cup {e.id}], g, FALSE)
    /\ UNCHANGED <<now, conn, nconn, ctxs, dispatched>>
Destroy(x, r, c) ==
  LET e == Enter(x) IN \E g \in window(e.gd, r.seq) :
    /\ svcauth_gss_validate(g, c) /\ Leave(x, e, g, TRUE)
    /\ UNCHANGED <<now, conn, nconn, ctxs, dispatched>>

-----------------------------------------------------------------------------
(* Transports come and go; their destruction does not touch the cache, and *)
(* the next one may have the same address.                                 *)
Open(x) ==
  /\ conn[x] = 0 /\ nconn < MaxConn /\ nconn' = nconn + 1
  /\ conn' = [conn EXCEPT ![x] = nconn + 1]
  /\ svc_ah_private' = [svc_ah_private EXCEPT ![x] = None]
  /\ UNCHANGED <<now, svcauth_gss_cache, gds, ctxs, dispatched>>
Close(x) ==
  /\ conn[x] /= 0 /\ conn' = [conn EXCEPT ![x] = 0]
  /\ UNCHANGED <<now, nconn, cachevars, ctxs, dispatched>>
Tick ==
  /\ now < MaxTime /\ now' = now + 1
  /\ UNCHANGED <<conn, nconn, cachevars, ctxs, dispatched>>

Live(x)  == conn[x] /= 0 /\ (lookup_cache_entry(x) /= {} \/ Len(gds) < MaxGd)
Known(x) == {c \in 1 .. Len(ctxs) : ctxs[c].known /\ ctxs[c].conn = conn[x]}
InitReq  == [seq : {0}, svc : Svcs]
DataReq  == [seq : Seqs, svc : Svcs]

Next ==
  \/ Tick
  \/ \E x \in Xprts : Open(x) \/ Close(x)
  \/ \E x \in Xprts : Live(x) /\ \E r \in InitReq :
       \/ BadCred(x) \/ OutsideWindow(x, r) \/ InitFails(x, r) \/ InitContinues(x, r)
       \/ \E sent \in BOOLEAN : InitCompletes(x, r, sent)
  \/ \E x \in Xprts : Live(x) /\ \E c \in Known(x), r \in DataReq :
       \/ OutsideWindow(x, r) \/ DataInvalid(x, r, c) \/ DataRefused(x, r, c) \/ Data(x, r, c)
       \/ Destroy(x, r, c)

Spec == Init /\ [][Next]_vars

-----------------------------------------------------------------------------
(* Types.                                                                  *)
Entry == [xprt : Xprts, gd : Nat, time_to_die : Nat]
Gd == [freed : BOOLEAN, conn : Nat, ctx : Nat, complete : BOOLEAN, established : BOOLEAN,
       locked : BOOLEAN, svc : Svcs \cup {"none"}, rsvc : Svcs \cup {"none"},
       seqlast : 0 .. MAXSEQ, seqmask : SUBSET Nat, back : BOOLEAN, callback_done : BOOLEAN, rejected : BOOLEAN]
TypeOK ==
  /\ now \in Nat /\ conn \in [Xprts -> Nat] /\ nconn \in Nat
  /\ svcauth_gss_cache \in Seq(Entry) /\ gds \in Seq(Gd)
  /\ svc_ah_private \in [Xprts -> Nat]
  /\ ctxs \in Seq([conn : Nat, known : BOOLEAN]) /\ Len(ctxs) <= MaxCtx
  /\ dispatched \in [1 .. MaxCtx -> [Seqs -> Nat]]

(* A transport has one entry at most, no two share their data, and nothing *)
(* in the cache was freed.                                                 *)
CacheSound ==
  LET c == svcauth_gss_cache IN
  /\ \A k \in 1 .. Len(c) : c[k].xprt \in Xprts /\ c[k].gd \in 1 .. Len(gds)
  /\ \A j, k \in 1 .. Len(c) : j /= k => c[j].xprt /= c[k].xprt /\ c[j].gd /= c[k].gd
  /\ \A k \in 1 .. Len(c) : ~gds[c[k].gd].freed

(* The entries are in the order of their expiry, so that destroying all    *)
(* behind the first cold one destroys no context in use; none lives longer *)
(* than one used now.                                                      *)
ColdAtTheEnd ==
  LET c == svcauth_gss_cache IN
  /\ \A j, k \in 1 .. Len(c) : j < k => c[j].time_to_die >= c[k].time_to_die
  /\ \A k \in 1 .. Len(c) : c[k].time_to_die <= now + Life

(* A context belongs to the data it was made for and to no others, those   *)
(* are not freed, and they are established if the client knows it.         *)
ContextsOwned ==
  \A k \in 1 .. Len(gds) : gds[k].ctx /= None =>
    /\ ~gds[k].freed /\ gds[k].ctx \in 1 .. Len(ctxs)
    /\ ctxs[gds[k].ctx].known => gds[k].established
    /\ \A j \in 1 .. Len(gds) : gds[j].ctx = gds[k].ctx => j = k

(* A context whose window never moved back: each number was given to the   *)
(* service once at most, and those that were the window refuses, but for 0 *)
(* after MAXSEQ, which moves it back.                                      *)
Refuses(g, s) ==
  LET o == offset(g.seqlast, s) IN s > MAXSEQ \/ (o >= 0 /\ (o >= Win \/ o \in g.seqmask))
Spent(g, s) == Refuses(g, s) \/ g.seqlast - s = MAXSEQ
SeenRefused ==
  /\ \A k \in 1 .. Len(gds) : gds[k].ctx /= None /\ ~gds[k].back =>
       LET c == gds[k].ctx IN
       \A s \in DOMAIN dispatched[c] : dispatched[c][s] > 0 =>
         dispatched[c][s] = 1 /\ Spent(gds[k], s)
  /\ \A c \in DOMAIN dispatched : \A s \in DOMAIN dispatched[c] :
       dispatched[c][s] > 0 => c <= Len(ctxs)

(* As transports open, close and are reused and entries grow cold: a       *)
(* transport has one entry at most, no two share their data, no entry's    *)
(* data were freed, the entries stay in the order of their expiry, every   *)
(* context has one owner, and what the service was given the window        *)
(* refuses until it moves back (_svcauth_gss, svcauth_gss_destroy in       *)
(* svc_auth_gss.c).                                                        *)
GssCacheSound == CacheSound /\ ColdAtTheEnd /\ ContextsOwned /\ SeenRefused

Dispatched(c) == \E s \in DOMAIN dispatched[c] : dispatched'[c][s] > dispatched[c][s]
Owner(k, c)   == gds[k].ctx = c /\ ~gds[k].freed

(* A request is given to the service only while the context it was made    *)
(* with is the one of a live entry; and once, however often it arrives and *)
(* whatever transports, contexts and entries come and go, until the window *)
(* of its context moves back.                                              *)
GivenOnce ==
  \A c \in 1 .. MaxCtx : Dispatched(c) =>
    \E k \in 1 .. Len(gds) :
      /\ Owner(k, c) /\ Owner(k, c)'
      /\ gds'[k].back \/ \A s \in DOMAIN dispatched[c] : dispatched'[c][s] <= 1
NoReplay == [][GivenOnce]_vars

(* A locked context serves requests of one service only.                   *)
ServiceHeld ==
  \A k \in 1 .. Len(gds) :
    gds[k].locked /\ gds[k].callback_done /\ gds'[k].ctx = gds[k].ctx /\ gds'[k].callback_done
      => gds'[k].rsvc = gds[k].rsvc
LockKept == [][ServiceHeld]_vars

(* The window moves back in one case only: from the largest number to 0.   *)
Forward(h, g) == g.seqlast < h.seqlast => h.seqlast = MAXSEQ /\ g.seqlast = 0
WindowHeld == \A k \in 1 .. Len(gds) : Forward(gds[k], gds'[k])
WindowForward == [][WindowHeld]_vars

(* A request is given to the service once however often it arrives, while  *)
(* its context is that of a live entry, until number 0 arrives after MAXSEQ*)
(* and moves the window back, which nothing else does; and a locked context*)
(* serves one service only (_svcauth_gss: the sequence window and the      *)
(* callback).                                                              *)
GssRequestsOnce == NoReplay /\ WindowForward /\ LockKept

(* "has the opportunity of rejecting the request ... To accept the new     *)
(* security context, the callback should return TRUE" (rpc_gss_set_callback*)
(* .3t:49): no request is served on a context the callback did not accept. *)
CallbackRespected ==
  [][ \A c \in 1 .. MaxCtx, k \in 1 .. Len(gds) :
        Dispatched(c) /\ Owner(k, c) => ~gds[k].rejected ]_vars

(* "Modify an AUTH's service and QOP settings" (auth_gss.c:874): arguments *)
(* are unwrapped with the service the request was wrapped with.            *)
UnwrapsAsWrapped ==
  [][ \A c \in 1 .. MaxCtx, k \in 1 .. Len(gds) :
        Dispatched(c) /\ Owner(k, c) => gds'[k].rsvc = gds[k].svc ]_vars

(* "last sequence number" (svc_auth_gss.c:117): it is never followed by a *)
(* smaller one.                                                            *)
LastIsLargest == [][\A k \in 1 .. Len(gds) : gds'[k].seqlast >= gds[k].seqlast]_vars

(* "only one set of gss data per xprt" (svc_auth_gss.c:522): the data used *)
(* for a transport were made for it.                                       *)
DataOfTransport ==
  \A x \in Xprts : conn[x] /= 0 /\ svc_ah_private[x] /= None =>
    gds[svc_ah_private[x]].conn = conn[x]
=============================================================================
