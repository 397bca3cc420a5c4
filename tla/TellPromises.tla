---------------------------- MODULE TellPromises ----------------------------
(* Promises of what FleetPilot tells others, parts that share the process and *)
(* no state: pages of fan controllers and of Commanders, monitoring systems,  *)
(* the disks of NAS systems, a new version, the routers.                      *)
EXTENDS FanSamples, Commander, Monitoring, StorageDisks, VersionCheck, RouterDrivers

(* Monitoring systems are told of the disks that fail and let in by the token *)
(* that is shown; rows of disks name disks that their NAS had; the notice of a*)
(* new version is of one that a check found; and what is said of a router, by *)
(* page or message, is what the router answered.                              *)
ToldIsTrue == TokensAreRight /\ FailuresAreTold /\ DisksAreTheirOwn /\ NoticesAreTrue /\ RoutersAreTold

(* The page of a fan controller, or of a Commander, shows its own device, and *)
(* nothing older than what it showed before.                                  *)
PagesStay == PagesStayTrue /\ CommanderPagesStay
=============================================================================
