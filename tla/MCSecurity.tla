----------------------------- MODULE MCSecurity -----------------------------
(***************************************************************************)
(* Authentication: the cache of RPCSEC_GSS contexts of a server (SvcGss:   *)
(* the coming and going of transports, and replayed requests on one), the  *)
(* life of a client's context (AuthGss), a server's handlers of            *)
(* credentials (SvcAuth, with and without AUTH_DES) and a client's         *)
(* AUTH_SYS credential and its shorthand (AuthUnix: calls, and groups that *)
(* change). They share no state, so one behaviour moves one of them.       *)
(***************************************************************************)
EXTENDS SvcGss

CONSTANTS
  MaxSeq, MaxBegun, MaxHandle,  \* AuthGss
  NewFlavors, Handlers, AuthLens, StrLens, GidLens  \* SvcAuth

Replay == INSTANCE SvcGss WITH
  Xprts <- {"x1"}, Win <- Win, Width <- Width, MAXSEQ <- MAXSEQ,
  Seqs <- {0, 1, 3, 4, 5},
  Svcs <- {"integrity", "privacy"}, Life <- 1, MaxTime <- 0, MaxGd <- 2,
  MaxConn <- 1, MaxCtx <- 1

VARIABLES part,  \* the component that moves in this behaviour
  ag_auth, refcnt, established, gc_proc, gc_seq, gc_ctx, nhandle, ctx, nctx,
  maj_stat, options_req, sec_flags, pc, sent, deleted, released, exported,  \* AuthGss
  Auths, served, registered,  \* SvcAuth
  groups, gl, ux_auth, heap, known, call, calls, time  \* AuthUnix

Context == INSTANCE AuthGss WITH auth <- ag_auth, MaxCtx <- MaxBegun
ContextVars ==
  <<ag_auth, refcnt, established, gc_proc, gc_seq, gc_ctx, nhandle, ctx,
     nctx, maj_stat, options_req, sec_flags, pc, sent, deleted, released,
     exported>>

WithDes == INSTANCE SvcAuth WITH AuthdesSupport <- TRUE
NoDes == INSTANCE SvcAuth WITH AuthdesSupport <- FALSE
HandlerVars ==
  <<Auths, served, registered>>

Unix == INSTANCE AuthUnix WITH
  auth <- ux_auth, Library <- {1}, Issuers <- {2, 3},
  ShortLens <- {0, 8, 384}, NameLen <- 255, Counts <- {1, 17},
  MaxGroups <- 1, MaxCalls <- 4, MaxTime <- 1
Groups == INSTANCE AuthUnix WITH
  auth <- ux_auth, Library <- {1}, Issuers <- {2, 3}, ShortLens <- {8},
  NameLen <- 255, Counts <- {1, 2, 16, 17}, MaxGroups <- 3, MaxCalls <- 1,
  MaxTime <- 1
UnixVars ==
  <<groups, gl, ux_auth, heap, known, call, calls, time>>

allVars == <<part, vars, ContextVars, HandlerVars, UnixVars>>

MCInit ==
  /\ part \in {"cache", "replay", "context", "handlers", "nodes", "unix", "groups"}
  /\ IF part = "replay" THEN Replay!Init ELSE Init
  /\ Context!Init
  /\ IF part = "nodes" THEN NoDes!Init ELSE WithDes!Init
  /\ IF part = "groups" THEN Groups!Init ELSE Unix!Init
  /\ part \notin {"unix", "groups"} => groups.n = 1

(* Each component takes its own steps; the others stay as they start.      *)
GssStep ==
  /\ \/ part = "cache" /\ Next
     \/ part = "replay" /\ Replay!Next
  /\ UNCHANGED <<part, ContextVars, HandlerVars, UnixVars>>
ContextStep ==
  /\ part = "context" /\ Context!Next
  /\ UNCHANGED <<part, vars, HandlerVars, UnixVars>>
HandlerStep ==
  /\ \/ part = "handlers" /\ WithDes!Next
     \/ part = "nodes" /\ NoDes!Next
  /\ UNCHANGED <<part, vars, ContextVars, UnixVars>>
UnixStep ==
  /\ \/ part = "unix" /\ Unix!Next
     \/ part = "groups" /\ Groups!Next
  /\ UNCHANGED <<part, vars, ContextVars, HandlerVars>>

MCNext == GssStep \/ ContextStep \/ HandlerStep \/ UnixStep

(* The fairness of each component, as its module states it.                *)
MCSpec ==
  /\ MCInit /\ [][MCNext]_allVars
  /\ WF_UnixVars(part = "unix" /\ Unix!Step)
  /\ WF_UnixVars(part = "groups" /\ Groups!Step)

-----------------------------------------------------------------------------
ASSUME ContextAssumption == Context!AuthGssAssumption
ASSUME HandlersAssumption == WithDes!SvcAuthAssumption /\ NoDes!SvcAuthAssumption
ASSUME /\ Unix!AuthUnixAssumption /\ Groups!AuthUnixAssumption

(* A client's context: none is deleted and no handle released twice, every *)
(* signed request has a number of its own, and a context given away is     *)
(* neither deleted nor used (authgss_refresh, authgss_destroy_context,     *)
(* authgss_get_private_data).                                              *)
ClientContextsSound == Context!ClientContextsSound

(* An accepted credential was decoded from the bytes of its own request    *)
(* and inside the area, whatever lengths it claims, and no handler is      *)
(* replaced; with AUTH_DES, a second registration is told so (_authenticate*)
(* _svcauth_unix, svc_auth_reg).                                           *)
CredentialsDecoded ==
  /\ [](WithDes!OwnBytes /\ WithDes!InArea)
  /\ [](part = "handlers" => WithDes!RegisteredBefore)
  /\ WithDes!HandlerKept

(* A client's AUTH_SYS handle owns exactly what is allocated and sends the *)
(* credential in use, a call fails for it only with the original one, the  *)
(* groups are those of one moment, and every call ends however often the   *)
(* servers forget shorthands (auth_unix.c).                                *)
UnixCredentialKept ==
  /\ [](/\ Unix!HeapExact /\ Unix!CredOwned /\ Unix!RefusedOriginal
        /\ part = "unix" => Unix!MarshalledIsCred
        /\ part = "groups" => Groups!GroupsAtOnce)
  /\ Unix!CallEnds
=============================================================================
