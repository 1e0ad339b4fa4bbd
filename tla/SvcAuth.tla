------------------------------- MODULE SvcAuth -------------------------------
(***************************************************************************)
(* Authentication of a request on the server (svc_auth.c, svc_auth_unix.c, *)
(* svc_auth_none.c): the switch over the flavors, the flavors a service    *)
(* registers, and the decoding of AUTH_SYS credentials in place.  The      *)
(* credentials of all requests arrive in one area of MAX_AUTH_BYTES; bytes *)
(* behind those of the request are what earlier requests left there.       *)
(* Lengths are in bytes; what a handler of the service answers is open.    *)
(***************************************************************************)
EXTENDS Integers, FiniteSets

CONSTANTS
  AuthdesSupport,   \* --enable-authdes; off by default
  NewFlavors,       \* flavors that are not built in
  Handlers,
  AuthLens, StrLens, GidLens   \* lengths in the requests: of the body, the name, the groups

(* What the constants must satisfy; whoever instantiates them assumes it.  *)
SvcAuthAssumption ==
  AuthdesSupport \in BOOLEAN /\ AuthLens \cup StrLens \cup GidLens \subseteq Nat

VARIABLES
  Auths,         \* handler of each flavor that is registered
  served,        \* the last request and what became of it
  registered     \* the last registration

authvars == <<Auths, served, registered>>
None == "none"
Init ==
  /\ Auths = [f \in NewFlavors |-> None]
  /\ served = [flavor |-> "AUTH_NONE", stat |-> "AUTH_OK", by |-> None, auth_len |-> 0, read |-> 0, str |-> 0, gids |-> 0]
  /\ registered = [flavor |-> None, rc |-> 0, had |-> FALSE]

MAX_AUTH_BYTES == 400
MAX_MACHINE_NAME == 255
NGRPS == 16
RNDUP(n) == ((n + 3) \div 4) * 4
Builtin == {"AUTH_NONE", "AUTH_SYS", "AUTH_SHORT", "AUTH_DES", "RPCSEC_GSS"}

(* _svcauth_unix: the status, and the end of what was read of the area.    *)
(* The lengths are those found in the area.                                *)
bad(n) == [stat |-> "AUTH_BADCRED", read |-> n]
_svcauth_unix_unchecked(auth_len, str_len, gid_len) ==
  IF str_len > MAX_MACHINE_NAME THEN bad(8)
  ELSE IF gid_len > NGRPS THEN bad(20 + RNDUP(str_len))
  ELSE [stat |-> "AUTH_OK", read |-> 20 + RNDUP(str_len) + 4 * gid_len]
_svcauth_unix(auth_len, str_len, gid_len) ==
  LET fixed == 20 + RNDUP(str_len)
      end   == fixed + 4 * gid_len
  IN IF str_len > MAX_MACHINE_NAME THEN bad(8)
     ELSE IF gid_len > NGRPS THEN bad(fixed)
     ELSE IF end > auth_len THEN bad(end)
     ELSE [stat |-> "AUTH_OK", read |-> end]
_svcauth_short == "AUTH_REJECTEDCRED"
_svcauth_none == "AUTH_OK"

(* _gss_authenticate.  RPCSEC_GSS is module SvcGss and AUTH_DES is not     *)
(* modelled: their answer is open here.                                    *)
Stats == {"AUTH_OK", "AUTH_REJECTEDCRED"}
answer(f, stat, by, n, read, sl, gids) ==
  served' = [flavor |-> f, stat |-> stat, by |-> by, auth_len |-> n, read |-> read, str |-> sl, gids |-> gids]
_gss_authenticate(f, auth_len, str_len, gid_len) ==
  \/ /\ f = "AUTH_NONE" /\ answer(f, _svcauth_none, None, auth_len, 0, 0, 0)
  \/ /\ f = "AUTH_SYS"
     /\ LET r == _svcauth_unix(auth_len, str_len, gid_len)
        IN answer(f, r.stat, None, auth_len, r.read, str_len, gid_len)
  \/ /\ f = "AUTH_SHORT" /\ answer(f, _svcauth_short, None, auth_len, 0, 0, 0)
  \/ /\ f = "AUTH_DES" /\ AuthdesSupport /\ \E s \in Stats : answer(f, s, None, auth_len, 0, 0, 0)
  \/ /\ f = "AUTH_DES" /\ ~AuthdesSupport /\ answer(f, "AUTH_FAILED", None, auth_len, 0, 0, 0)
  \/ /\ f = "RPCSEC_GSS" /\ \E s \in Stats : answer(f, s, None, auth_len, 0, 0, 0)
  \/ /\ f \notin Builtin /\ Auths[f] /= None
     /\ \E s \in Stats : answer(f, s, Auths[f], auth_len, 0, 0, 0)
  \/ /\ f \notin Builtin /\ Auths[f] = None
     /\ answer(f, "AUTH_REJECTEDCRED", None, auth_len, 0, 0, 0)
request ==
  /\ \E f \in Builtin \cup NewFlavors, n \in AuthLens, sl \in StrLens, gids \in GidLens :
       /\ f /= "AUTH_SYS" => n = 0 /\ sl = 0 /\ gids = 0
       /\ _gss_authenticate(f, n, sl, gids)
  /\ UNCHANGED <<Auths, registered>>

(* svc_auth_reg: 0, 1 or -1.  The #ifndef makes one return of all built-in *)
(* flavors up to AUTH_DES.                                                 *)
svc_auth_reg(f, h) ==
  LET had == f \in Builtin \/ Auths[f] /= None IN
  /\ registered' = [flavor |-> f, had |-> had,
       rc |-> IF f \in Builtin \ {"RPCSEC_GSS"} /\ ~AuthdesSupport THEN -1
              ELSE IF had THEN 1 ELSE 0]
  /\ Auths' = IF had THEN Auths ELSE [Auths EXCEPT ![f] = h]
register == (\E f \in Builtin \cup NewFlavors, h \in Handlers : svc_auth_reg(f, h)) /\ UNCHANGED served

Next == request \/ register
Spec == Init /\ [][Next]_authvars

-----------------------------------------------------------------------------
(* A credential that is accepted was decoded from the bytes of its own     *)
(* request, never from what an earlier one left in the area.               *)
OwnBytes == served.flavor = "AUTH_SYS" /\ served.stat = "AUTH_OK" => served.read <= served.auth_len
(* Whatever lengths are found there, the decoder stays in the area, and    *)
(* what it copies fits the name and the groups it copies to.               *)
InArea == /\ served.read <= MAX_AUTH_BYTES
          /\ served.flavor = "AUTH_SYS" /\ served.stat = "AUTH_OK"
               => served.str <= MAX_MACHINE_NAME /\ served.gids <= NGRPS
(* "There is no provision to change or delete an authentication handler    *)
(* once registered" (rpc_svc_reg.3t:143).                                  *)
HandlerKept == [][\A f \in NewFlavors : Auths[f] /= None => Auths'[f] = Auths[f]]_authvars
(* "1 if cred_flavor already has an authentication handler registered for  *)
(* it" (rpc_svc_reg.3t:149).                                               *)
RegisteredBefore == registered.had => registered.rc = 1
=============================================================================
