---------------------------- MODULE RedisClients ------------------------------
(***************************************************************************)
(* The licenses and the access token live in one Redis.  Their keys differ *)
(* and the calls about the ones do not touch the others, but time passes   *)
(* and memory runs short for both.                                         *)
(***************************************************************************)
EXTENDS LicenseService, WechatService

vars == <<ttl, licenseVars, wechatVars>>

ASSUME KeysAssumption == Keys = Codes \cup {TokenKey} /\ TokenKey \notin Codes

TypeOK == KeysTypeOK /\ LicenseTypeOK /\ WechatTypeOK

Init == KeysInit /\ LicenseInit /\ WechatInit

Evict(k) == EvictKey(k) /\ LicenseEvict(k) /\ WechatEvict(k)

Tick == KeysTick /\ LicenseTick /\ WechatTick

Next ==
    \/ LicenseStep /\ UNCHANGED wechatVars
    \/ WechatStep /\ UNCHANGED licenseVars
    \/ \E k \in Keys : Evict(k)
    \/ Tick

Spec == Init /\ [][Next]_vars
=============================================================================
