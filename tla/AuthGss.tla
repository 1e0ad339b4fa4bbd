-------------------------------- MODULE AuthGss ------------------------------
(***************************************************************************)
(* RPCSEC_GSS on the client (auth_gss.c): an AUTH is created by negotiating*)
(* a context, signs every call with the next sequence number, may find its *)
(* context expired, may give its context away, and destroys it with a last *)
(* call.  That call and every other runs through the same marshalling and  *)
(* validating code, so a context may expire while it is being destroyed.   *)
(* The GSS-API and the server are external: any answer.                    *)
(***************************************************************************)
EXTENDS Integers, FiniteSets

CONSTANTS MaxSeq,   \* bound on the sequence numbers of a context
          MaxCtx,   \* bound on the contexts begun
          MaxHandle \* bound on the handles received

(* What the constants must satisfy; whoever instantiates them assumes it.  *)
AuthGssAssumption ==
  {MaxSeq, MaxCtx, MaxHandle} \subseteq Nat

GSS_C_NO_CONTEXT == 0

VARIABLES
  auth,                  \* "none", "live", "failed" (creation failed) or "freed"
  refcnt, established, gc_proc, gc_seq,
  gc_ctx, nhandle,       \* the buffer with the server's handle, how many there were
  ctx, nctx,
  maj_stat,
  options_req, sec_flags,   \* what the caller asked for, what the negotiation uses
  pc,
  sent,                  \* <<ctx, proc, seq>> of every request, and how often
  deleted, released,     \* how often a context was deleted, a handle released
  exported               \* <<context, handle>> given away by authgss_get_private_data

gd   == <<refcnt, established, gc_proc, gc_seq, gc_ctx, nhandle, ctx, nctx, maj_stat>>
req  == <<options_req, sec_flags>>
heap == <<deleted, released, exported>>
vars == <<auth, gd, req, pc, sent, heap>>

Ctxs == 1 .. MaxCtx
Init ==
  /\ auth = "none" /\ refcnt = 0 /\ established = FALSE /\ gc_proc = "INIT" /\ gc_seq = 0
  /\ gc_ctx = 0 /\ nhandle = 0 /\ ctx = GSS_C_NO_CONTEXT /\ nctx = 0 /\ maj_stat = "none" /\ pc = "idle"
  /\ sent = {} /\ exported = {} /\ options_req = "none" /\ sec_flags = "none"
  /\ deleted = [c \in Ctxs |-> 0] /\ released = [h \in 1 .. MaxHandle |-> 0]

-----------------------------------------------------------------------------
(* What is left of authgss_destroy_context once no request is to be sent.  *)
destroy_context ==
  /\ released' = IF gc_ctx /= 0 THEN [released EXCEPT ![gc_ctx] = @ + 1] ELSE released
  /\ deleted' = IF ctx /= GSS_C_NO_CONTEXT THEN [deleted EXCEPT ![ctx] = @ + 1] ELSE deleted
  /\ gc_ctx' = 0 /\ ctx' = GSS_C_NO_CONTEXT /\ established' = FALSE

(* authgss_create, rpc_gss_seccreate: the negotiation of _rpc_gss_refresh. *)
authgss_create(flags) ==
  /\ auth = "none" /\ auth' = "live" /\ pc' = "init"
  /\ options_req' = flags /\ sec_flags' = flags
  /\ UNCHANGED <<gd, sent, heap>>
rpc_gss_seccreate(flags) ==
  /\ auth = "none" /\ auth' = "live" /\ pc' = "init"
  /\ options_req' = flags /\ sec_flags' = "default"
  /\ UNCHANGED <<gd, sent, heap>>
GiveUp ==
  /\ auth' = "failed" /\ pc' = "idle" /\ UNCHANGED req

(* gss_init_sec_context, then the NULL call if there is a token to send.   *)
(* authgss_destroy after an error.                                         *)
InitSecContext ==
  /\ pc = "init" /\ (ctx = GSS_C_NO_CONTEXT => nctx < MaxCtx)
  /\ maj_stat' \in {"COMPLETE", "CONTINUE_NEEDED"}
  /\ IF ctx = GSS_C_NO_CONTEXT THEN nctx' = nctx + 1 /\ ctx' = nctx + 1 ELSE UNCHANGED <<nctx, ctx>>
  /\ \/ /\ pc' = "null_call" /\ sent' = sent \cup {<<ctx', gc_proc, 0, 1>>}
     \/ maj_stat' = "COMPLETE" /\ gc_proc = "CONTINUE_INIT" /\ pc' = "verify" /\ UNCHANGED sent
  /\ UNCHANGED <<req, auth, refcnt, established, gc_proc, gc_seq, gc_ctx, nhandle, heap>>
InitSecContextFails ==
  /\ pc = "init" /\ refcnt' = refcnt - 1 /\ GiveUp
  /\ UNCHANGED <<established, gc_proc, gc_seq, gc_ctx, ctx, nctx, nhandle, maj_stat, sent, heap>>
NullCallFails ==
  /\ pc = "null_call" /\ GiveUp
  /\ UNCHANGED <<gd, sent, heap>>
NullCall(token) ==
  /\ pc = "null_call"
  /\ \/ /\ nhandle < MaxHandle /\ nhandle' = nhandle + 1 /\ gc_ctx' = nhandle + 1
        /\ released' = IF gc_ctx /= 0 THEN [released EXCEPT ![gc_ctx] = @ + 1] ELSE released
     \/ UNCHANGED <<nhandle, gc_ctx, released>>
  /\ IF token /\ maj_stat /= "CONTINUE_NEEDED"
     THEN refcnt' = refcnt - 1 /\ GiveUp /\ UNCHANGED gc_proc
     ELSE /\ gc_proc' = "CONTINUE_INIT"
          /\ pc' = IF maj_stat = "COMPLETE" THEN "verify" ELSE "init"
          /\ UNCHANGED <<refcnt, auth, req>>
  /\ UNCHANGED <<established, gc_seq, ctx, nctx, maj_stat, sent, deleted, exported>>
Established ==
  /\ pc = "verify" /\ established' = TRUE /\ gc_proc' = "DATA" /\ gc_seq' = 0
  /\ refcnt' = refcnt + 1 /\ pc' = "idle"
  /\ UNCHANGED <<req, auth, gc_ctx, ctx, nctx, nhandle, maj_stat, sent, heap>>
VerifyFails(expired) ==
  /\ pc = "verify" /\ GiveUp
  /\ IF expired THEN destroy_context ELSE UNCHANGED <<released, deleted, gc_ctx, ctx, established>>
  /\ UNCHANGED <<refcnt, gc_proc, gc_seq, nctx, nhandle, maj_stat, sent, exported>>

-----------------------------------------------------------------------------
(* authgss_marshal of a data or the destroying call: the number goes up    *)
(* whether or not the call is then sent.                                   *)
Times(c, p, s) == Cardinality({m \in sent : m[1] = c /\ m[2] = p /\ m[3] = s})
Marshal(from, to, back, step) ==
  /\ pc = from /\ gc_seq < MaxSeq
  /\ gc_seq' = IF established THEN gc_seq + step ELSE gc_seq
  /\ \/ /\ ctx /= GSS_C_NO_CONTEXT /\ pc' = to
        /\ sent' = sent \cup {<<ctx, gc_proc, gc_seq', Times(ctx, gc_proc, gc_seq') + 1>>}
        /\ UNCHANGED <<established, gc_ctx, ctx, released, deleted>>
     \/ pc' = back /\ UNCHANGED <<sent, established, gc_ctx, ctx, released, deleted>>
     \/ /\ ctx /= GSS_C_NO_CONTEXT /\ pc' = back /\ destroy_context /\ UNCHANGED sent
  /\ UNCHANGED <<req, auth, refcnt, gc_proc, nctx, nhandle, maj_stat, exported>>
marshal_same_seq == auth = "live" /\ Marshal("idle", "reply", "idle", 0)
Call == auth = "live" /\ Marshal("idle", "reply", "idle", 1)

(* authgss_validate of the reply, if there is one.                         *)
Validate(from, back) ==
  /\ pc = from /\ pc' = back
  /\ \/ UNCHANGED <<established, gc_ctx, ctx, released, deleted>>
     \/ destroy_context
  /\ UNCHANGED <<req, auth, refcnt, gc_proc, gc_seq, nctx, nhandle, maj_stat, sent, exported>>
Reply == Validate("reply", "idle")

(* authgss_get_private_data gives the context away.                        *)
authgss_get_private_data ==
  /\ auth = "live" /\ pc = "idle" /\ established /\ exported' = exported \cup {<<ctx, gc_ctx>>}
  /\ ctx' = GSS_C_NO_CONTEXT /\ gc_ctx' = 0
  /\ UNCHANGED <<req, auth, refcnt, established, gc_proc, gc_seq, nctx, nhandle, maj_stat, pc, sent, deleted, released>>

(* authgss_destroy by the caller: the last call, then the tail.            *)
Destroy ==
  /\ auth = "live" /\ pc = "idle" /\ refcnt' = refcnt - 1
  /\ IF refcnt' = 0 /\ gc_ctx /= 0 /\ established
     THEN gc_proc' = "DESTROY" /\ pc' = "destroy"
     ELSE pc' = (IF refcnt' = 0 THEN "tail" ELSE "idle") /\ UNCHANGED gc_proc
  /\ UNCHANGED <<req, auth, established, gc_seq, gc_ctx, ctx, nctx, nhandle, maj_stat, sent, heap>>
MarshalDestroy == Marshal("destroy", "destroy_reply", "tail", 1)
DestroyReply   == Validate("destroy_reply", "tail")
Tail ==
  /\ pc = "tail" /\ destroy_context /\ auth' = "freed" /\ pc' = "idle"
  /\ UNCHANGED <<req, refcnt, gc_proc, gc_seq, nctx, nhandle, maj_stat, sent, exported>>

(* The application makes another AUTH.                                     *)
Again ==
  /\ auth \in {"failed", "freed"} /\ pc = "idle" /\ nctx < MaxCtx
  /\ auth' = "none" /\ refcnt' = 0 /\ established' = FALSE /\ gc_proc' = "INIT" /\ gc_seq' = 0
  /\ gc_ctx' = 0 /\ ctx' = GSS_C_NO_CONTEXT /\ maj_stat' = "none"
  /\ options_req' = "none" /\ sec_flags' = "none"
  /\ UNCHANGED <<nctx, nhandle, pc, sent, heap>>

Next ==
  \/ \E flags \in {"default", "other"} : authgss_create(flags) \/ rpc_gss_seccreate(flags)
  \/ InitSecContext \/ InitSecContextFails \/ NullCallFails \/ Established
  \/ \E b \in BOOLEAN : NullCall(b) \/ VerifyFails(b)
  \/ Call \/ Reply \/ authgss_get_private_data \/ Destroy \/ MarshalDestroy \/ DestroyReply
  \/ Tail \/ Again
Spec == Init /\ [][Next]_vars

-----------------------------------------------------------------------------
(* Types; only a complete context signs calls.                             *)
TypeOK ==
  /\ auth \in {"none", "live", "failed", "freed"} /\ ctx \in 0 .. nctx /\ gc_ctx \in 0 .. nhandle
  /\ gc_seq \in 0 .. MaxSeq
  /\ established => gc_proc \in {"DATA", "DESTROY"}

(* No context is deleted and no handle released twice, although a context  *)
(* may expire in the call that is to destroy it.                           *)
FreedOnce == (\A c \in Ctxs : deleted[c] <= 1) /\ (\A h \in 1 .. MaxHandle : released[h] <= 1)

(* Every signed request of a context has a number of its own: the server   *)
(* drops repeated ones.                                                    *)
SeqFresh ==
  \A m, n \in sent : m[1] = n[1] /\ m[2] \in {"DATA", "DESTROY"} /\ n[2] \in {"DATA", "DESTROY"}
    /\ m[3] = n[3] => m = n

(* "This also ensures that authgss_destroy_context() won't try to send an  *)
(* RPCSEC_GSS_DESTROY request" (auth_gss.c:298): a context given away is   *)
(* neither deleted nor destroyed at the server, and signs nothing more.    *)
ExportedKept ==
  \A e \in exported :
    /\ e[1] /= 0 => deleted[e[1]] = 0 /\ \A m \in sent : m[1] = e[1] => m[2] /= "DESTROY"
    /\ e[2] /= 0 => released[e[2]] = 0

ClientContextsSound == TypeOK /\ FreedOnce /\ SeqFresh /\ ExportedKept

(* "reference count gss AUTHs" (auth_gss.c:152): the count does not fall   *)
(* below zero, where authgss_destroy no longer frees.                      *)
RefcountRight == refcnt >= 0

(* "Extra security context options to be passed to the underlying GSS-API  *)
(* mechanism" (rpc_gss_seccreate.3t:78): the negotiation asks for them.    *)
OptionsPassed == pc \in {"init", "null_call", "verify"} => sec_flags = options_req
=============================================================================
