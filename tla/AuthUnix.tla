------------------------------- MODULE AuthUnix ------------------------------
(***************************************************************************)
(* A client's AUTH_SYS handle (auth_unix.c) over its life: made from the   *)
(* groups of a process that changes them, used for calls to several        *)
(* servers, given a shorthand credential by one, refused with it by        *)
(* another, refreshed and destroyed.  A server is a service of this        *)
(* library, which rejects a shorthand (_svcauth_short), or one that issues *)
(* and forgets shorthands.  Blocks of memory are numbers, 0 is NULL.       *)
(***************************************************************************)
EXTENDS Integers, FiniteSets

CONSTANTS
  Library, Issuers,   \* servers
  ShortLens,          \* lengths of shorthands
  NameLen,            \* of the machine's name
  Counts,             \* numbers of groups the process may have
  MaxGroups,          \* bound on calls of setgroups
  MaxCalls, MaxTime   \* bounds on the calls, the clock

(* What the constants must satisfy; whoever instantiates them assumes it.  *)
AuthUnixAssumption ==
  /\ NameLen \in 0 .. 255 /\ MaxGroups \in Nat /\ Counts \subseteq Nat
  /\ \A n \in ShortLens : n \in 0 .. 392

MAX_AUTH_BYTES == 400
NGRPS == 16
Servers == Library \cup Issuers
RNDUP(n) == ((n + 3) \div 4) * 4

VARIABLES
  groups,    \* the process's groups: how many, and which call set them
  gl,        \* authunix_create_default
  auth,      \* the handle
  heap,      \* allocated blocks; -1 once a block is freed twice
  known,     \* shorthands each issuer still knows
  call, calls, time

vars == <<groups, gl, auth, heap, known, call, calls, time>>

Null == [flavor |-> "AUTH_NONE", base |-> 0, len |-> 0]
NoAuth == [live |-> FALSE, cred |-> Null, orig |-> Null, sh |-> Null, shof |-> 0,
           marshed |-> Null, mpos |-> 0, stamp |-> 0, gids |-> {}]
Idle == [pc |-> "idle", server |-> 0, refreshes |-> 0, sent |-> Null, stat |-> "", verf |-> "none", len |-> 0]
Init ==
  /\ \E n \in Counts : groups = [n |-> n, by |-> 0]
  /\ gl = [pc |-> "start", len |-> 0]
  /\ auth = NoAuth /\ heap = {} /\ known = [s \in Issuers |-> FALSE] /\ call = Idle /\ calls = 0 /\ time = 0

Fresh(h) == CHOOSE b \in 1 .. 3 : b \notin h
mem_free(h, b) == IF b \in h THEN h \ {b} ELSE h \cup {-1}

-----------------------------------------------------------------------------
(* marshal_new_auth: the credential and the null verifier, if both fit;    *)
(* otherwise au_mpos stays.  Of au_marshed the credential it starts with.  *)
marshalled(c) == 8 + RNDUP(c.len) + 8
marshal_new_auth(a) ==
  IF marshalled(a.cred) <= MAX_AUTH_BYTES
  THEN [a EXCEPT !.marshed = a.cred, !.mpos = marshalled(a.cred)]
  ELSE [a EXCEPT !.marshed = a.cred]

(* authunix_create_default: how many groups, then the groups; EINVAL when  *)
(* they no longer fit, but with room for none the call only counts.  A     *)
(* group is <<setter, index>>; <<-1, i>> lies behind the array.            *)
getgroups_count ==
  /\ gl.pc = "start" /\ gl' = [pc |-> "list", len |-> groups.n]
  /\ UNCHANGED <<groups, auth, heap, known, call, calls, time>>
authunix_create(gids) ==
  LET n == IF Cardinality(gids) > NGRPS THEN NGRPS ELSE Cardinality(gids)
      b == Fresh(heap)
      orig == [flavor |-> "AUTH_SYS", base |-> b, len |-> 20 + RNDUP(NameLen) + 4 * n]
  IN /\ heap' = heap \cup {b}
     /\ auth' = marshal_new_auth([NoAuth EXCEPT !.live = TRUE, !.orig = orig, !.cred = orig,
                                   !.stamp = time, !.gids = {g \in gids : g[2] <= n}])
getgroups ==
  /\ gl.pc = "list"
  /\ IF groups.n > gl.len /\ gl.len > 0
     THEN gl' = [gl EXCEPT !.pc = "start"] /\ UNCHANGED <<auth, heap>>
     ELSE /\ gl' = [pc |-> "made", len |-> groups.n]
          /\ authunix_create({<<IF gl.len = 0 THEN -1 ELSE groups.by, i>> : i \in 1 .. groups.n})
  /\ UNCHANGED <<groups, known, call, calls, time>>
setgroups ==       \* another part of the process
  /\ groups.by < MaxGroups /\ gl.pc /= "made"
  /\ \E n \in Counts : groups' = [n |-> n, by |-> groups.by + 1]
  /\ UNCHANGED <<gl, auth, heap, known, call, calls, time>>

-----------------------------------------------------------------------------
(* A call: authunix_marshal, the server, then authunix_validate or         *)
(* authunix_refresh and the call again.                                    *)
authunix_marshal(s, n) ==
  call' = [Idle EXCEPT !.pc = "sent", !.server = s, !.refreshes = n, !.sent = auth.marshed]
begin ==
  /\ auth.live /\ call.pc = "idle" /\ calls < MaxCalls /\ calls' = calls + 1
  /\ \E s \in Servers : authunix_marshal(s, 2)
  /\ UNCHANGED <<groups, gl, auth, heap, known, time>>
accepts ==
  /\ call.pc = "sent" /\ call.sent.flavor = "AUTH_SYS"
  /\ \/ /\ call' = [call EXCEPT !.pc = "ok"] /\ UNCHANGED known
     \/ /\ call.server \in Issuers /\ known' = [known EXCEPT ![call.server] = TRUE]
        /\ \E n \in ShortLens : call' = [call EXCEPT !.pc = "ok", !.verf = "short", !.len = n]
     \/ /\ call.server \in Issuers /\ UNCHANGED known
        /\ call' = [call EXCEPT !.pc = "ok", !.verf = "truncated"]
  /\ UNCHANGED <<groups, gl, auth, heap, calls, time>>
accepts_short ==
  /\ call.pc = "sent" /\ call.sent.flavor = "AUTH_SHORT"
  /\ call.server \in Issuers /\ auth.shof = call.server /\ known[call.server]
  /\ \/ \E v \in {"none", "truncated"} : call' = [call EXCEPT !.pc = "ok", !.verf = v]
     \/ \E n \in ShortLens : call' = [call EXCEPT !.pc = "ok", !.verf = "short", !.len = n]
  /\ UNCHANGED <<groups, gl, auth, heap, known, calls, time>>
rejects ==
  /\ call.pc = "sent" /\ call.sent.flavor = "AUTH_SHORT"
  /\ IF call.server \in Library THEN TRUE ELSE auth.shof /= call.server \/ ~known[call.server]
  /\ call' = [call EXCEPT !.pc = "error", !.stat = "AUTH_REJECTEDCRED"]
  /\ UNCHANGED <<groups, gl, auth, heap, known, calls, time>>
too_weak ==        \* a server that refuses AUTH_SYS at all
  /\ call.pc = "sent" /\ call.sent.flavor = "AUTH_SYS" /\ call.server \in Issuers
  /\ call' = [call EXCEPT !.pc = "error", !.stat = "AUTH_TOOWEAK"]
  /\ UNCHANGED <<groups, gl, auth, heap, known, calls, time>>
forget(s) ==
  /\ known[s] /\ known' = [known EXCEPT ![s] = FALSE]
  /\ UNCHANGED <<groups, gl, auth, heap, call, calls, time>>

authunix_validate_keeps ==
  /\ call.pc = "ok"
  /\ IF call.verf = "none" THEN UNCHANGED <<auth, heap>>
     ELSE LET h  == IF auth.sh.base = 0 THEN heap ELSE mem_free(heap, auth.sh.base)
              sh == IF call.verf = "truncated" THEN Null
                    ELSE [flavor |-> "AUTH_SHORT", base |-> IF call.len = 0 THEN 0 ELSE Fresh(h), len |-> call.len]
          IN /\ heap' = (h \cup {sh.base}) \ {0}
             /\ auth' = IF call.verf = "truncated" THEN [auth EXCEPT !.sh = sh]
                        ELSE marshal_new_auth([auth EXCEPT !.sh = sh, !.shof = call.server, !.cred = sh])
  /\ call' = Idle
  /\ UNCHANGED <<groups, gl, known, calls, time>>
authunix_validate ==
  /\ call.pc = "ok"
  /\ IF call.verf = "none" THEN UNCHANGED <<auth, heap>>
     ELSE LET h  == IF auth.sh.base = 0 THEN heap ELSE mem_free(heap, auth.sh.base)
              sh == IF call.verf = "truncated" THEN Null
                    ELSE [flavor |-> "AUTH_SHORT", base |-> IF call.len = 0 THEN 0 ELSE Fresh(h), len |-> call.len]
          IN /\ heap' = (h \cup {sh.base}) \ {0}
             /\ auth' = marshal_new_auth([auth EXCEPT !.sh = sh, !.shof = call.server,
                           !.cred = IF call.verf = "truncated" THEN auth.orig ELSE sh])
  /\ call' = Idle
  /\ UNCHANGED <<groups, gl, known, calls, time>>

(* No hope with the original credential; else its time is brought up to    *)
(* date and it is the credential again.                                    *)
refreshed == marshal_new_auth([auth EXCEPT !.stamp = time, !.cred = auth.orig])
hopeless == auth.cred.base = auth.orig.base
authunix_refresh ==
  /\ call.pc = "error"
  /\ IF call.refreshes > 0 /\ ~hopeless
     THEN auth' = refreshed /\ call' = [call EXCEPT !.pc = "again", !.refreshes = @ - 1]
     ELSE UNCHANGED auth /\ call' = [call EXCEPT !.pc = "failed"]
  /\ UNCHANGED <<groups, gl, heap, known, calls, time>>
call_again ==
  /\ call.pc = "again" /\ authunix_marshal(call.server, call.refreshes)
  /\ UNCHANGED <<groups, gl, auth, heap, known, calls, time>>
fails ==
  /\ call.pc = "failed" /\ call' = Idle
  /\ UNCHANGED <<groups, gl, auth, heap, known, calls, time>>

freed(h) == IF auth.sh.base = 0 THEN h ELSE mem_free(h, auth.sh.base)
authunix_destroy ==
  /\ auth.live /\ call.pc = "idle"
  /\ heap' = freed(mem_free(heap, auth.orig.base)) /\ auth' = NoAuth
  /\ UNCHANGED <<groups, gl, known, call, calls, time>>
tick == time < MaxTime /\ time' = time + 1 /\ UNCHANGED <<groups, gl, auth, heap, known, call, calls>>

Step == \/ getgroups_count \/ getgroups
        \/ begin \/ accepts \/ accepts_short \/ rejects \/ too_weak \/ authunix_validate
        \/ authunix_refresh \/ call_again \/ fails
Next == Step \/ setgroups \/ (\E s \in Issuers : forget(s)) \/ authunix_destroy \/ tick
Spec == Init /\ [][Next]_vars /\ WF_vars(Step)

-----------------------------------------------------------------------------
(* Each block of a handle is freed once: what is allocated is what the     *)
(* handle owns, and nothing once it is destroyed.                          *)
HeapExact == heap = {auth.orig.base, auth.sh.base} \ {0}
(* The credential in use is the original one or the shorthand the handle   *)
(* owns: never one that was freed under it.                                *)
CredOwned == auth.live => auth.cred \in {auth.orig, auth.sh}
(* "sets private data, au_marshed and au_mpos" (auth_unix.c:376): what a   *)
(* call sends is the credential in use.                                    *)
MarshalledIsCred == auth.live => auth.marshed = auth.cred /\ auth.mpos = marshalled(auth.cred)
(* A call fails for its credential only when it was refused with the       *)
(* original one: a shorthand nobody knows any more costs a retry.          *)
RefusedOriginal == call.pc = "failed" => call.sent = auth.orig
(* The groups of a credential are those the process had at one time,       *)
(* although another part of it changes them (auth_unix.c:201-203).         *)
GroupsAtOnce == \A g, h \in auth.gids : g[1] = h[1] /\ g[1] /= -1
(* Every call ends, however often servers forget.                          *)
CallEnds == []<>(call.pc = "idle")
=============================================================================
