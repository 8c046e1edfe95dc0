---------------------------- MODULE LicenseService ----------------------------
(***************************************************************************)
(* Licenses (internal/license, internal/verification).  An administrator   *)
(* stores a code for five minutes; a client presents it, any number of     *)
(* times, and gets a signed certificate.  A request is one EXISTS and a    *)
(* signature, one after the other; a code is one SET, which the Redis      *)
(* client sends again when its reply is lost.                              *)
(***************************************************************************)
EXTENDS RedisKeys

CONSTANTS
    Codes,       \* the codes of six digits that are used
    DebugCodes,  \* those that are always accepted when debugMode is set
    Life,        \* five minutes
    Admins,      \* who calls /api/admin/license/generate-code, one call at a time
    Clients      \* who calls /api/v1/license, one call at a time

ASSUME LifeAssumption == Life \in Nat \ {0}
ASSUME CodesAssumption == Codes \subseteq Keys /\ DebugCodes \subseteq Codes

VARIABLES
    debugMode, \* as configured
    admin,     \* the code whose SET each administrator waits for, or NoCode
    request,   \* where the request of each client is
    code,      \* the code it presents, or NoCode
    codeLived, \* whether the code was live at some time since the request came
    promised   \* how long each code is still promised to be accepted

licenseVars == <<debugMode, admin, request, code, codeLived, promised>>

NoCode == "no code"

LicenseTypeOK ==
    /\ debugMode \in BOOLEAN
    /\ admin \in [Admins -> Codes \cup {NoCode}]
    /\ request \in [Clients -> {"verify", "sign", "granted", "refused"}]
    /\ code \in [Clients -> Codes \cup {NoCode}]
    /\ codeLived \in [Clients -> BOOLEAN]
    /\ promised \in [Codes -> 0..Life]
    /\ \A c \in Codes : ttl[c] \in 0..Life

LicenseInit ==
    /\ debugMode \in BOOLEAN
    /\ admin = [a \in Admins |-> NoCode]
    /\ request = [r \in Clients |-> "refused"]
    /\ code = [r \in Clients |-> NoCode]
    /\ codeLived = [r \in Clients |-> FALSE]
    /\ promised = [c \in Codes |-> 0]

-----------------------------------------------------------------------------
(* GenerateLicenseCode.                                                    *)

\* The code is given or drawn, and has the right form; it may be in use.
AdminCalls(a) ==
    /\ admin[a] = NoCode
    /\ \E c \in Codes : admin' = [admin EXCEPT ![a] = c]
    /\ UNCHANGED <<ttl, request, code, codeLived, promised>>

\* The SET of a code, which every client waiting with that code may find.
StoreCode(a) ==
    /\ admin[a] # NoCode
    /\ SetKey(admin[a], Life)
    /\ codeLived' = [r \in Clients |->
                        codeLived[r] \/ (request[r] = "verify" /\ code[r] = admin[a])]
    /\ UNCHANGED <<request, code>>

SetCode(a) ==
    /\ StoreCode(a)
    /\ admin' = [admin EXCEPT ![a] = NoCode]
    /\ promised' = [promised EXCEPT ![admin[a]] = Life]

\* The reply is lost: the client sends the command again.
SetCodeUnheard(a) == StoreCode(a) /\ UNCHANGED <<admin, promised>>

\* Redis does not answer, and the administrator is told so.
SetCodeFails(a) ==
    /\ admin[a] # NoCode
    /\ admin' = [admin EXCEPT ![a] = NoCode]
    /\ UNCHANGED <<ttl, request, code, codeLived, promised>>

-----------------------------------------------------------------------------
(* ProcessLicenseRequest.                                                  *)

Goto(r, label) == request' = [request EXCEPT ![r] = label]

\* A request that parses, decrypts and has the right form; the others are
\* refused before anything is looked up.
RequestComes(r) ==
    /\ request[r] \in {"granted", "refused"}
    /\ \E c \in Codes :
          /\ code' = [code EXCEPT ![r] = c]
          /\ codeLived' = [codeLived EXCEPT ![r] = Present(c)]
    /\ Goto(r, "verify")
    /\ UNCHANGED <<ttl, admin, promised>>

IsDebug(c) == debugMode /\ c \in DebugCodes

\* The code is one of debugMode, or EXISTS finds it: it stays for others.
Valid(r) == IsDebug(code[r]) \/ Present(code[r])

VerifyConsumes(r) ==
    /\ request[r] = "verify"
    /\ Goto(r, IF Valid(r) THEN "sign" ELSE "refused")
    /\ ttl' = [ttl EXCEPT ![code[r]] = 0]
    /\ UNCHANGED <<admin, code, codeLived, promised>>
Verify(r) ==
    /\ request[r] = "verify"
    /\ Goto(r, IF Valid(r) THEN "sign" ELSE "refused")
    /\ UNCHANGED <<ttl, admin, code, codeLived, promised>>

\* The certificate is dated and signed; the code is not looked at again.
Sign(r) ==
    /\ request[r] = "sign"
    /\ Goto(r, "granted")
    /\ UNCHANGED <<ttl, admin, code, codeLived, promised>>

\* Redis does not answer, or the signature fails.
RefusedLetIn(r) ==
    /\ request[r] \in {"verify", "sign"}
    /\ Goto(r, "granted")
    /\ UNCHANGED <<ttl, admin, code, codeLived, promised>>
Refused(r) ==
    /\ request[r] \in {"verify", "sign"}
    /\ Goto(r, "refused")
    /\ UNCHANGED <<ttl, admin, code, codeLived, promised>>

LicenseStep ==
    /\ UNCHANGED debugMode
    /\ \/ \E a \in Admins : \/ AdminCalls(a) \/ SetCode(a)
                            \/ SetCodeUnheard(a) \/ SetCodeFails(a)
       \/ \E r \in Clients : RequestComes(r) \/ Verify(r) \/ Sign(r) \/ Refused(r)

\* Time brings a promise to its end, and eviction breaks it.
LicenseTick ==
    /\ promised' = [c \in Codes |-> Less(promised[c])]
    /\ UNCHANGED <<debugMode, admin, request, code, codeLived>>
LicenseEvict(k) ==
    /\ promised' = [c \in Codes |-> IF c = k THEN 0 ELSE promised[c]]
    /\ UNCHANGED <<debugMode, admin, request, code, codeLived>>

-----------------------------------------------------------------------------
(* What is promised.                                                       *)

\* A certificate needs a code: unless it is a debug code, the key was there
\* at some moment between the request and the answer, whatever failed.
CertificateNeedsCode ==
    \A r \in Clients :
        request[r] = "granted" => codeLived[r] \/ IsDebug(code[r])

\* "Valid for five minutes" (admin_handler.go:78), "any number of uses"
\* (adapter.go:65): nothing that is called, several administrators with one
\* code and lost replies included, ends a code earlier than the last answer
\* about it promised.  Only eviction does.
CodeLastsAsPromised ==
    \A c \in Codes : ttl[c] >= promised[c]
=============================================================================
