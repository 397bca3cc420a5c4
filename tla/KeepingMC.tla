----------------------------- MODULE KeepingMC -----------------------------
(* What FleetPilot keeps: findings of the vulnerability scanner, speeds of fans, *)
(* failed attempts to sign in, second factors, the settings of notifications and *)
(* e-mail.  An execution is one of any of them.                               *)
EXTENDS VulnScan, FanControl, SignIn, TwoFactor, Notify
MCSpeeds == {-1, 80, 120, Profile}
VARIABLE part

MCInit == /\ VulnInit /\ FanInit /\ SignInInit /\ FactorInit /\ ChannelInit /\ MailInit
          /\ part \in {"scan", "fans", "signin", "factors", "channels", "mail"}
          \* Where the others start does not matter: one of their initial states is enough.
          /\ part # "scan" => listed = {} /\ mayAsk
          /\ part # "fans" => driver = "hid"
          /\ part # "signin" => userLimit = 2
InScan(A) == part = "scan" /\ A /\ UNCHANGED <<fanVars, signInVars, factorVars, channelVars, mailVars, part>>
InFans(A) == part = "fans" /\ A /\ UNCHANGED <<vulnVars, signInVars, factorVars, channelVars, mailVars, part>>
InSignin(A) == part = "signin" /\ A /\ UNCHANGED <<vulnVars, fanVars, factorVars, channelVars, mailVars, part>>
InFactors(A) == part = "factors" /\ A /\ UNCHANGED <<vulnVars, fanVars, signInVars, channelVars, mailVars, part>>
InChannels(A) == part = "channels" /\ A /\ UNCHANGED <<vulnVars, fanVars, signInVars, factorVars, mailVars, part>>
InMail(A) == part = "mail" /\ A /\ UNCHANGED <<vulnVars, fanVars, signInVars, factorVars, channelVars, part>>
MCNext == \/ InScan(VulnNext)
          \/ InFans(FanNext)
          \/ InSignin(SignInNext)
          \/ InFactors(FactorNext)
          \/ InChannels(ChannelNext)
          \/ InMail(MailNext)
MCVars == <<vulnVars, fanVars, signInVars, factorVars, channelVars, mailVars, part>>
MCFairness == \/ part = "scan" /\ VulnFairness
              \/ part = "fans"
              \/ part = "signin"
              \/ part = "factors"
              \/ part = "channels"
              \/ part = "mail"
MCSpec == MCInit /\ [][MCNext]_MCVars /\ MCFairness

(* The row of a host that is gone goes, while automatic scans are on and not offline. *)
MCGoneHostsGo == part = "scan" => GoneHostsGo
=============================================================================
