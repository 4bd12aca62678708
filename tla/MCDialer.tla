----------------------------- MODULE MCDialer -----------------------------
(* The instances of Dialer that TLC checks. *)
EXTENDS Dialer, TLC

Two(addr, d1, d2) ==
  [d \in Dials |-> IF d = 1 THEN Decisions(addr, d1) ELSE Decisions(addr, d2)]

Key == [type |-> "api-key", payload |-> "key"]
WithKey == WithCredentials(Key, NoDialOptions)
WithExternal == WithExternalAuth("auth", "robot", WithKey)

\* every leg, against direct dialing alone
Race == Two("domain", NoDialOptions, WithForceDirectGRPC(NoDialOptions))
\* WebRTC, then direct dialing, where one call checks for TLS first
Fallback == Two("hostport", WithKey, WithAllowInsecureDowngrade(WithKey))
\* direct dialing with external authentication, once in the clear
External ==
  Two("ip", WithWebRTCOptions(TRUE, WithExternal),
      WithWebRTCOptions(TRUE, WithInsecure(WithExternal)))
\* mDNS, against WebRTC alone
NearBy ==
  Two("domain", WithWebRTCOptions(TRUE, WithAllowInsecureDowngrade(WithExternal)),
      WithDisableDirectGRPC(WithDialMulticastDNSOptions(TRUE, WithExternal)))
Socket ==
  Two("unix", WithDisableDirectGRPC(NoDialOptions), WithWebRTCOptions(TRUE, NoDialOptions))

TwoDials == {Race, Fallback, External, NearBy, Socket}
Closed == {External, Socket}
====
