----------------------------- MODULE Told_proofs -----------------------------
(***************************************************************************)
(* Proofs about what FleetPilot tells of others.  Fans: FanSetup           *)
(* (detection, test and reading fit together, and a percentage comes back  *)
(* as it was set), FanControl, FanSamples and Commander, for any hosts,    *)
(* devices, channels and number of requests.  Then VersionCheck,           *)
(* Monitoring, StorageDisks and RouterDrivers, for any requests, disks,    *)
(* endpoints, tokens and platforms in use.                                 *)
(***************************************************************************)
EXTENDS FanSetup, FanControl, FanSamples, Commander, TellPromises, FiniteSetTheorems, WellFoundedInduction, TLAPS

(* What the pages show of a speed is the percentage it was set to, although   *)
(* the register in between has a coarser scale and is rounded twice           *)
(* (_set_fan_pwm_sysfs() and _fetch_pwm_sysfs()).                             *)
THEOREM SpeedComesBack == \A percent \in 0..100 : PwmPercent(PwmValue(percent)) = percent
<1> SUFFICES ASSUME NEW p \in 0..100 PROVE PwmPercent(PwmValue(p)) = p
    OBVIOUS
<1> DEFINE v == (p * 255) \div 100
<1>1. v \in 0..255 /\ 100 * v <= 255 * p /\ 255 * p < 100 * v + 100
    BY SMT
<1>2. 510 * p <= 200 * v + 255 /\ 200 * v + 255 < 510 * p + 510
    BY <1>1, SMT
<1>3. (200 * v + 255) \div 510 = p
    BY <1>1, <1>2, SMT
<1> QED BY <1>3 DEF PwmPercent, PwmValue

-----------------------------------------------------------------------------
(* What a detection or a reading said fits the host as long as the host stays *)
(* as it is: a change of the host clears what was told.                       *)
SetupInv == fanHost \in FanHost /\ AnswersFit

LEMMA ReadingsFit ==
    ASSUME NEW h \in FanHost, NEW type, NEW pin, NEW s \in Fetch(type, h, pin)
    PROVE  /\ s.ok # s.error
           /\ s.ok /\ type \in {"arctic_usb", "rpi_gpio_fan"} => s.fans
<1>1. CASE s \in {NotRead, PartlyRead, Answered(TRUE)}
    BY <1>1 DEF NotRead, PartlyRead, Answered
<1>2. CASE s = Answered(FALSE) /\ type \notin {"arctic_usb", "rpi_gpio_fan"}
    BY <1>2 DEF Answered
<1>3. CASE type \in {"arctic_usb", "rpi_gpio_fan"}
    <2>1. s \in {NotRead, Answered(TRUE)}
        BY <1>3 DEF Fetch, ArcticReads, RpiReads
    <2> QED BY <2>1, <1>1
<1>4. CASE type \notin {"arctic_usb", "rpi_gpio_fan"}
    <2>1. s \in {NotRead, PartlyRead, Answered(TRUE), Answered(FALSE)}
        BY <1>4 DEF Fetch, LmSensorsReads, IpmiReads, NbfcReads, LiquidctlReads, SysfsReads, ToolReads, ToolsRead
    <2> QED BY <2>1, <1>1, <1>2, <1>4
<1> QED BY <1>3, <1>4

Hit(type, h) == \E status \in Fetch(type, h, 14) : status.ok /\ status.fans

LEMMA GoodReading == Answered(TRUE).ok /\ Answered(TRUE).fans
BY DEF Answered

(* What is put forward with high confidence is there.                          *)
LEMMA AdviceFits ==
    ASSUME NEW h \in FanHost, h.up, NEW s \in Suggestions(h) \cup SuggestedSensors(h), s[2] = "high"
    PROVE  /\ s[1] \in {"ipmi", "liquidctl"} => AptBrings(s[1]) \subseteq h.tools
           /\ s[1] = "lm_sensors" => "sensors" \in h.tools \/ "pwm" \in h.has
           /\ s[1] \in {"pwm_sysfs", "rpi_gpio_fan"} \/ (s[1] = "arctic_usb" /\ "python3" \in h.tools) => Hit(s[1], h)
<1>0. h.has \subseteq {"pwm", "bmc", "rpm", "cooler", "speeds"}
    BY DEF FanHost
<1>1. CASE s \in SuggestedSensors(h)
    BY <1>1 DEF SuggestedSensors, ConfidenceIf
<1>2. CASE s \in SuggestedRpi(h)
    <2>1. s[1] = "rpi_gpio_fan" /\ h.pi # "no"
        BY <1>2 DEF SuggestedRpi
    <2>2. Answered(TRUE) \in Fetch(s[1], h, 14)
        BY <2>1 DEF Fetch, RpiReads, PinError
    <2> QED BY <2>1, <2>2, GoodReading DEF Hit
<1>3. CASE s \in SuggestedLiquidctl(h)
    <2>1. s[1] = "liquidctl" /\ {"liquidctl", "cooler"} \subseteq h.tools \cup h.has
        BY <1>3 DEF SuggestedLiquidctl, ConfidenceIf
    <2> QED BY <1>0, <2>1 DEF AptBrings
<1>4. CASE s \in SuggestedSysfs(h)
    <2>1. s[1] = "pwm_sysfs" /\ "pwm" \in h.has
        BY <1>4 DEF SuggestedSysfs
    <2>2. Answered(TRUE) \in Fetch(s[1], h, 14)
        BY <2>1 DEF Fetch, SysfsReads, ToolReads
    <2> QED BY <2>1, <2>2, GoodReading DEF Hit
<1>5. CASE s \in SuggestedIpmi(h)
    <2>1. s[1] = "ipmi" /\ {"ipmitool", "bmc"} \subseteq h.tools \cup h.has
        BY <1>5 DEF SuggestedIpmi, ConfidenceIf
    <2> QED BY <1>0, <2>1 DEF AptBrings
<1>6. CASE s \in SuggestedNbfc(h)
    BY <1>6 DEF SuggestedNbfc
<1>7. CASE s \in SuggestedArctic(h)
    <2>1. s[1] = "arctic_usb" /\ h.arctic # "no" /\ (h.arctic = "driven" \/ {"python3", "hid"} \subseteq h.tools)
        BY <1>7 DEF SuggestedArctic, ConfidenceIf
    <2> SUFFICES ASSUME "python3" \in h.tools PROVE Hit(s[1], h)
        BY <2>1
    <2>2. TRUE \in ScriptChannels(h)
        BY <2>1 DEF ScriptChannels, FanHost
    <2>3. Answered(TRUE) \in Fetch(s[1], h, 14)
        BY <2>1, <2>2 DEF Fetch, ArcticReads
    <2> QED BY <2>3, GoodReading DEF Hit
<1> QED BY <1>1, <1>2, <1>3, <1>4, <1>5, <1>6, <1>7 DEF Suggestions

(* What the reading of a type shows was put forward.                           *)
LEMMA ToolHasNone == ASSUME NEW s \in ToolReads(FALSE) \cup ToolsRead(FALSE) PROVE ~s.fans
BY DEF ToolReads, ToolsRead, NotRead, Answered

LEMMA AdviceIsFull ==
    ASSUME NEW h \in FanHost, NEW type \in ControllerTypes \ {"lm_sensors", "rpi_gpio_fan"},
           NEW status \in Fetch(type, h, 14), status.fans
    PROVE  <<type, "high">> \in Suggestions(h)
<1>0. ~NotRead.fans
    BY DEF NotRead
<1>1. h.up
    BY <1>0 DEF Fetch
<1>2. CASE type = "ipmi"
    <2>1. {"ipmitool", "bmc", "rpm"} \subseteq h.tools \cup h.has
        <3>1. status \in IpmiReads(h)
            BY <1>1, <1>2 DEF Fetch
        <3> QED BY <3>1, ToolHasNone DEF IpmiReads
    <2> QED BY <1>2, <2>1 DEF Suggestions, SuggestedIpmi, ConfidenceIf
<1>3. CASE type = "liquidctl"
    <2>1. {"liquidctl", "cooler", "speeds"} \subseteq h.tools \cup h.has
        <3>1. status \in LiquidctlReads(h)
            BY <1>1, <1>3 DEF Fetch
        <3> QED BY <3>1, ToolHasNone DEF LiquidctlReads
    <2> QED BY <1>3, <2>1 DEF Suggestions, SuggestedLiquidctl, ConfidenceIf
<1>4. CASE type = "pwm_sysfs"
    <2>1. "pwm" \in h.has
        <3>1. status \in SysfsReads(h)
            BY <1>1, <1>4 DEF Fetch
        <3>2. "pwm" \notin h.has => SysfsReads(h) = {NotRead, Answered(FALSE)}
            BY DEF SysfsReads, ToolReads
        <3> QED BY <3>1, <3>2, <1>0 DEF Answered
    <2> QED BY <1>4, <2>1 DEF Suggestions, SuggestedSysfs
<1>5. CASE type = "nbfc"
    BY <1>5 DEF Suggestions, SuggestedNbfc
<1>6. CASE type = "arctic_usb"
    <2>1. TRUE \in ScriptChannels(h)
        BY <1>0, <1>1, <1>6 DEF Fetch, ArcticReads
    <2>2. h.arctic # "no" /\ (h.arctic = "driven" \/ {"python3", "hid"} \subseteq h.tools)
        BY <2>1 DEF ScriptChannels
    <2> QED BY <1>6, <2>2 DEF Suggestions, SuggestedArctic, ConfidenceIf
<1> QED BY <1>2, <1>3, <1>4, <1>5, <1>6 DEF ControllerTypes

LEMMA SetupStarts == FanSetupInit => SetupInv
BY HostsAssumption DEF FanSetupInit, SetupInv, AnswersFit, ReadingsSayWhy, AdviceIsSound, NothingIsMissed, NothingTold

LEMMA SetupSteps == SetupInv /\ [FanSetupNext]_setupVars => SetupInv'
<1> SUFFICES ASSUME SetupInv, [FanSetupNext]_setupVars PROVE SetupInv'
    OBVIOUS
<1> USE DEF SetupInv
<1>1. CASE DetectsControllers
    <2>1. PICK sensors \in SuggestedSensors(fanHost), ok \in {FALSE, fanHost.up} :
              LET suggested == IF ok THEN Suggestions(fanHost) \cup {sensors} ELSE {} IN
              told' = [kind |-> "advice", ok |-> ok, suggested |-> suggested, first |-> Foremost(suggested)]
        BY <1>1 DEF DetectsControllers
    <2>2. fanHost' = fanHost /\ told'.kind = "advice"
        BY <1>1, <2>1 DEF DetectsControllers
    <2>3. ASSUME NEW s \in told'.suggested PROVE fanHost.up /\ s \in Suggestions(fanHost) \cup SuggestedSensors(fanHost)
        BY <2>1, <2>3
    <2>4. AdviceIsSound'
        BY <2>2, <2>3, AdviceFits DEF AdviceIsSound, Hit
    <2>5. NothingIsMissed'
        <3>1. told'.ok => Suggestions(fanHost) \subseteq told'.suggested
            BY <2>1
        <3> QED BY <2>2, <3>1, AdviceIsFull DEF NothingIsMissed
    <2> QED BY <2>2, <2>4, <2>5 DEF AnswersFit, ReadingsSayWhy
<1>2. ASSUME NEW type \in ControllerTypes, NEW pin \in Pins(type), ReadsStatus(type, pin) PROVE SetupInv'
    <2>1. PICK s \in Fetch(type, fanHost, pin) : told' = [kind |-> "reading", type |-> type, status |-> s]
        BY <1>2 DEF ReadsStatus
    <2>2. s.ok # s.error /\ (s.ok /\ type \in {"arctic_usb", "rpi_gpio_fan"} => s.fans)
        BY ReadingsFit
    <2> QED BY <1>2, <2>1, <2>2 DEF ReadsStatus, AnswersFit, ReadingsSayWhy, AdviceIsSound, NothingIsMissed
<1>3. ASSUME NEW type \in ControllerTypes, TestsConnection(type) PROVE SetupInv'
    BY <1>3 DEF TestsConnection, AnswersFit, ReadingsSayWhy, AdviceIsSound, NothingIsMissed
<1>4. ASSUME NEW h \in FanHost, HostBecomes(h) PROVE SetupInv'
    BY <1>4 DEF HostBecomes, NothingTold, AnswersFit, ReadingsSayWhy, AdviceIsSound, NothingIsMissed
<1>5. ASSUME NEW tools \in SUBSET FanTools, Brings(tools) PROVE SetupInv'
    <2>1. [fanHost EXCEPT !.tools = @ \cup tools] \in FanHost
        BY DEF FanHost
    <2> QED BY <1>4, <1>5, <2>1 DEF Brings
<1>6. CASE HostChanges
    <2>1. [fanHost EXCEPT !.up = ~@] \in FanHost
        BY DEF FanHost
    <2>2. \A state \in {"no", "usb", "driven"} : [fanHost EXCEPT !.arctic = state] \in FanHost
        BY DEF FanHost
    <2>3. \A tool \in Others : [fanHost EXCEPT !.tools = SymDiff(@, {tool})] \in FanHost
        BY HostsAssumption DEF FanHost, SymDiff
    <2> QED BY <1>4, <1>6, <2>1, <2>2, <2>3 DEF HostChanges
<1>7. ASSUME NEW r \in Installers, InstallPackages(r) \/ InstallPips(r) PROVE SetupInv'
    <2>1. \A type : AptBrings(type) \in SUBSET FanTools /\ PipBrings(type) \in SUBSET FanTools
        BY DEF AptBrings, PipBrings, FanTools
    <2> QED BY <1>5, <1>7, <2>1 DEF InstallPackages, InstallPips
<1>8. CASE UNCHANGED <<fanHost, told>>
    BY <1>8 DEF AnswersFit, ReadingsSayWhy, AdviceIsSound, NothingIsMissed
<1>9. ASSUME NEW r \in Installers,
             \/ \E type \in ControllerTypes : InstallBegins(r, type)
             \/ InstallConnects(r) \/ InstallUpdates(r) \/ InstallVerifies(r) \/ InstallRaises(r) \/ InstallForgotten(r)
      PROVE  SetupInv'
    BY <1>8, <1>9 DEF InstallBegins, InstallConnects, InstallUpdates, InstallVerifies, InstallRaises, InstallForgotten
<1>10. CASE UNCHANGED setupVars
    BY <1>8, <1>10 DEF setupVars
<1> QED BY <1>1, <1>2, <1>3, <1>6, <1>7, <1>9, <1>10 DEF FanSetupNext

(* A reading says what it read or why it could not; what the detection is sure*)
(* of is there, and of the fans a reading would show it misses none, whatever *)
(* the host has and others do to it (detect_controllers(), fetch_status()).   *)
THEOREM AnswersAlwaysFit == FanSetupSpec => []AnswersFit
<1>1. FanSetupSpec => []SetupInv
    BY SetupStarts, SetupSteps, PTL DEF FanSetupSpec
<1>2. SetupInv => AnswersFit
    BY DEF SetupInv
<1> QED BY <1>1, <1>2, PTL

-----------------------------------------------------------------------------
(* Setting fans.  A command works on the row as it was read; what reaches an   *)
(* Arctic controller has passed the protection of its pumps.                   *)
FanRow == [type : FanTypes \cup {"none"}, pumps : SUBSET Pumps, marked : SUBSET Pumps]
FanOrder == [pc : {"none", "connects", "enables", "sets"}, dev : FanRow,
             channel : Channels \cup {All}, speed : Speeds \cup {0}]

FanShape ==
    /\ devices \in [1..MaxDevices -> FanRow] /\ command \in [FanRequests -> FanOrder]
    /\ fan = [t \in FanTypes |-> fan[t]]

Passed(q) == q.dev.type = "arctic_usb" => q.pc # "enables" /\ (q.pc = "sets" => ~PumpsProtected(q))

FanInv == FanShape /\ \A r \in FanRequests : Passed(command[r])

LEMMA NoCommandPassed == NoDevice \in FanRow /\ NoCommand \in FanOrder /\ Passed(NoCommand)
BY DEF NoDevice, FanRow, NoCommand, FanOrder, Passed

LEMMA FanTurns ==
    ASSUME FanInv, NEW r \in FanRequests, NEW q \in FanOrder, Passed(q),
           command' = [command EXCEPT ![r] = q], devices' = devices, fan' = [t \in FanTypes |-> fan'[t]]
    PROVE  FanInv'
<1>1. command' \in [FanRequests -> FanOrder] /\ \A s \in FanRequests : command'[s] = IF s = r THEN q ELSE command[s]
  BY DEF FanInv, FanShape
<1>2. \A s \in FanRequests : Passed(command'[s])
  BY <1>1 DEF FanInv
<1> QED
  BY <1>1, <1>2 DEF FanInv, FanShape

LEMMA FanKeepsShape ==
    ASSUME FanInv, NEW type, NEW channels, NEW state, Writes(type, channels, state) \/ UNCHANGED fan
    PROVE  fan' = [t \in FanTypes |-> fan'[t]]
BY DEF FanInv, FanShape, Writes

LEMMA FanCommandInv ==
    ASSUME FanInv, NEW r \in FanRequests, FanCommand(r)
    PROVE  FanInv'
<1> DEFINE q == command[r]
<1>0. q \in FanOrder /\ command \in [FanRequests -> FanOrder] /\ fan = [t \in FanTypes |-> fan[t]]
  BY DEF FanInv, FanShape
<1>1. CASE CommandDone(r) /\ devices' = devices /\ fan' = [t \in FanTypes |-> fan'[t]]
  BY <1>1, NoCommandPassed, FanTurns DEF CommandDone
<1>2. ASSUME NEW pc \in {"enables", "sets"}, CommandAt(r, pc), devices' = devices, fan' = [t \in FanTypes |-> fan'[t]],
             q.dev.type # "arctic_usb" \/ (pc = "sets" /\ ~PumpsProtected(q))
      PROVE  FanInv'
  <2> DEFINE n == [q EXCEPT !.pc = pc]
  <2>1. n \in FanOrder /\ n.pc = pc /\ n.dev = q.dev /\ n.channel = q.channel /\ n.speed = q.speed
    BY <1>0 DEF FanOrder
  <2>2. command' = [command EXCEPT ![r] = n]
    BY <1>0, <1>2 DEF CommandAt
  <2>3. Passed(n)
    BY <1>2, <2>1 DEF Passed, PumpsProtected
  <2> HIDE DEF n
  <2> QED
    BY <1>2, <2>1, <2>2, <2>3, FanTurns
<1>3. CASE Dispatches(r)
  BY <1>0, <1>1, <1>2, <1>3 DEF Dispatches
<1>4. CASE ConnectionLost(r)
  BY <1>0, <1>1, <1>4 DEF ConnectionLost
<1>5. CASE Enables(r)
  <2>1. q.pc = "enables" /\ CommandAt(r, "sets") /\ devices' = devices /\ fan' = [t \in FanTypes |-> fan'[t]]
    BY <1>5, FanKeepsShape DEF Enables
  <2>2. q.dev.type # "arctic_usb"
    BY <2>1 DEF FanInv, Passed
  <2> QED
    BY <1>2, <2>1, <2>2
<1>6. CASE ToolSets(r)
  BY <1>1, <1>6, FanKeepsShape DEF ToolSets
<1>7. CASE IpmiSets(r)
  BY <1>1, <1>7, FanKeepsShape DEF IpmiSets
<1>8. CASE ArcticSetsByKernel(r)
  BY <1>1, <1>8, FanKeepsShape DEF ArcticSetsByKernel
<1>9. CASE ArcticSetsByReport(r)
  <2>1. fan' = [t \in FanTypes |-> fan'[t]]
    BY <1>0, <1>9 DEF ArcticSetsByReport
  <2> QED
    BY <1>1, <1>9, <2>1 DEF ArcticSetsByReport
<1> QED
  BY <1>3, <1>4, <1>5, <1>6, <1>7, <1>8, <1>9 DEF FanCommand

LEMMA FanStepInv == FanInv /\ [FanNext]_fanVars => FanInv'
<1> SUFFICES ASSUME FanInv, [FanNext]_fanVars PROVE FanInv'
  OBVIOUS
<1>0. devices \in [1..MaxDevices -> FanRow] /\ command \in [FanRequests -> FanOrder] /\ fan = [t \in FanTypes |-> fan[t]]
  BY DEF FanInv, FanShape
<1>1. CASE UNCHANGED fanVars
  BY <1>1 DEF fanVars, FanInv, FanShape
<1>2. ASSUME NEW id \in DOMAIN devices, NEW row \in FanRow, devices' = [devices EXCEPT ![id] = row],
             UNCHANGED <<fan, command>>
      PROVE  FanInv'
  BY <1>0, <1>2 DEF FanInv, FanShape
<1>3. ASSUME NEW id \in DOMAIN devices, NEW type \in FanTypes, NEW marks \in SUBSET Pumps, AddsDevice(id, type, marks)
      PROVE  FanInv'
  <2> DEFINE pumps == IF type = "arctic_usb" THEN marks ELSE {}
  <2>1. [type |-> type, pumps |-> pumps, marked |-> pumps] \in FanRow
    BY DEF FanRow
  <2> QED
    BY <1>2, <1>3, <2>1 DEF AddsDevice
<1>4. ASSUME NEW id \in DOMAIN devices, DeletesDevice(id) PROVE FanInv'
  BY <1>2, <1>4, NoCommandPassed DEF DeletesDevice
<1>5. ASSUME NEW id \in DOMAIN devices, NEW type \in FanTypes, EditsDevice(id, type) PROVE FanInv'
  <2> DEFINE row == devices[id]
  <2>0. row \in FanRow
    BY <1>0
  <2>1. [row EXCEPT !.type = type, !.pumps = {}] \in FanRow
    <3> HIDE DEF row
    <3> QED BY <2>0 DEF FanRow
  <2>2. devices' = [devices EXCEPT ![id] = [devices[id] EXCEPT !.type = type, !.pumps = {}]]
    BY <1>0, <1>5 DEF EditsDevice
  <2> QED
    BY <1>2, <1>5, <2>1, <2>2 DEF EditsDevice
<1>6. ASSUME NEW id \in DOMAIN devices, NEW r \in FanRequests, NEW c \in Channels \cup {All}, NEW speed \in Speeds,
             AsksToSet(r, id, c, speed)
      PROVE  FanInv'
  <2> DEFINE q == [NoCommand EXCEPT !.pc = "connects", !.dev = devices[id], !.channel = c, !.speed = speed]
  <2>1. q \in FanOrder /\ q.pc = "connects"
    BY <1>0, NoCommandPassed DEF FanOrder
  <2>2. command' = [command EXCEPT ![r] = q] /\ devices' = devices /\ fan' = fan
    BY <1>6 DEF AsksToSet
  <2> HIDE DEF q
  <2> QED
    BY <1>0, <2>1, <2>2, FanTurns DEF Passed
<1>7. CASE FanRestart
  BY <1>0, <1>7, NoCommandPassed DEF FanRestart, FanInv, FanShape
<1> QED
  BY <1>1, <1>3, <1>4, <1>5, <1>6, <1>7, FanCommandInv DEF FanNext

(* The protection of pumps (_set_fan_arctic_usb() in fan_controller.py): with  *)
(* the kernel driver a command never slows a channel below 60 percent that is  *)
(* marked as a pump in the device it read, for any channels, pumps, devices    *)
(* and speeds, percentages, values of the register and curves alike, and       *)
(* whatever other requests do meanwhile.                                       *)
THEOREM PumpsAreSpared == FanSpec => PumpsSpared
<1>1. FanInit => FanInv
  BY NoCommandPassed DEF FanInit, FanInv, FanShape
<1>2. ASSUME FanInv, [FanNext]_fanVars, NEW r \in FanRequests, NEW c \in command[r].dev.pumps,
             command[r].pc = "sets", command'[r] = NoCommand, driver = "kernel"
      PROVE  ~LowersPump(c)
  <2> DEFINE q == command[r]
  <2>0. q \in FanOrder /\ command \in [FanRequests -> FanOrder] /\ fan = [t \in FanTypes |-> fan[t]] /\ c \in Channels
    BY <1>2, PumpsAreChannels DEF FanInv, FanShape, FanOrder, FanRow
  <2>1. command' # command
    BY <1>2 DEF NoCommand
  <2>2. CASE fan' = fan
    BY <2>2 DEF LowersPump
  <2>3. ASSUME NEW s \in FanRequests, FanCommand(s), s # r PROVE FALSE
    <3>1. command'[r] = command[r]
      BY <2>0, <2>3 DEF FanCommand, Dispatches, ConnectionLost, Enables, ToolSets, IpmiSets,
                        ArcticSetsByKernel, ArcticSetsByReport, CommandDone, CommandAt
    <3> QED
      BY <1>2, <3>1 DEF NoCommand
  <2>4. ASSUME NEW type, type # "arctic_usb", NEW channels, NEW state, Writes(type, channels, state)
        PROVE  ~LowersPump(c)
    <3>1. fan'["arctic_usb"] = fan["arctic_usb"]
      BY <2>0, <2>4 DEF Writes
    <3> QED
      BY <3>1 DEF LowersPump
  <2>5. CASE ToolSets(r)
    <3>1. q.dev.type # "arctic_usb" /\ (Writes(q.dev.type, Driven(q), Wanted(q)) \/ fan' = fan)
      BY <2>5 DEF ToolSets
    <3> QED
      BY <2>2, <2>4, <3>1
  <2>6. CASE IpmiSets(r)
    <3>1. Writes("ipmi", Channels, LmSensors(q)) \/ fan' = fan
      BY <2>6 DEF IpmiSets
    <3> QED
      BY <2>2, <2>4, <3>1
  <2>7. CASE ArcticSetsByKernel(r)
    <3>1. PICK written \in SUBSET Driven(q) : Writes("arctic_usb", written, Fixed(ArcticPercent(q.speed)))
      BY <2>7 DEF ArcticSetsByKernel
    <3>2. q.dev.type = "arctic_usb" /\ ~PumpsProtected(q)
      BY <1>2, <2>7 DEF ArcticSetsByKernel, FanInv, Passed
    <3>3. "arctic_usb" \in FanTypes
      BY <2>0, <3>2 DEF FanOrder, FanRow
    <3>4. fan'["arctic_usb"][c] = IF c \in written THEN Fixed(ArcticPercent(q.speed)) ELSE fan["arctic_usb"][c]
      BY <2>0, <3>1, <3>3 DEF Writes
    <3>5. CASE c \notin written
      BY <3>4, <3>5 DEF LowersPump
    <3>6. CASE c \in written
      <4>1. q.channel = All \/ q.channel = c
        BY <3>2, <3>6 DEF Driven
      <4>2. ~(ArcticPercent(q.speed) < 60)
        BY <1>2, <3>2, <4>1 DEF PumpsProtected
      <4>3. fan'["arctic_usb"][c].duty = ArcticPercent(q.speed)
        BY <3>4, <3>6 DEF Fixed
      <4> QED
        BY <4>2, <4>3 DEF LowersPump
    <3> QED
      BY <3>5, <3>6
  <2>8. CASE Dispatches(r) \/ ConnectionLost(r) \/ Enables(r)
    BY <1>2, <2>0, <2>2, <2>8 DEF Dispatches, ConnectionLost, Enables
  <2>9. CASE ArcticSetsByReport(r)
    BY <1>2, <2>9 DEF ArcticSetsByReport
  <2>10. CASE UNCHANGED fanVars
    BY <2>1, <2>10 DEF fanVars
  <2>11. CASE FanRestart
    BY <2>2, <2>11 DEF FanRestart
  <2>12. ASSUME UNCHANGED command PROVE FALSE
    BY <2>1, <2>12
  <2>13. ASSUME NEW id \in DOMAIN devices, NEW s \in FanRequests, NEW x \in Channels \cup {All}, NEW speed \in Speeds,
                AsksToSet(s, id, x, speed)
         PROVE  ~LowersPump(c)
    BY <2>2, <2>13 DEF AsksToSet
  <2> QED
    BY <1>2, <2>3, <2>5, <2>6, <2>7, <2>8, <2>9, <2>10, <2>11, <2>12, <2>13
       DEF FanNext, FanCommand, AddsDevice, DeletesDevice, EditsDevice
<1>3. FanInv /\ [FanNext]_fanVars =>
        [\A r \in FanRequests : command[r].pc = "sets" /\ command'[r] = NoCommand /\ driver = "kernel"
           => \A c \in command[r].dev.pumps : ~LowersPump(c)]_fanVars
  BY <1>2
<1> QED
  BY <1>1, <1>3, FanStepInv, PTL DEF FanSpec, PumpsSpared

-----------------------------------------------------------------------------
(* The readings.  A device's number is its own for good, so that what is read  *)
(* or stored under it is its own; and what is stored is never taken back.      *)
Sample == [nth : Nat, ts : Nat]
FanReading == [pc : {"none", "between", "reads"}, todo : SUBSET (1..MaxFans), id : Nat, nth : Nat, ts : Nat]

SampleTypes ==
    /\ added \in Nat /\ fanTime \in Nat /\ watched \subseteq 1..MaxFans
    /\ enrolled \in [1..MaxFans -> Nat] /\ reading \in [Readers -> FanReading]
    /\ samples \in [1..MaxFans -> Seq(Sample)]

HasNewest(stored) == stored # <<>> => \E s \in ToSet(stored) : \A t \in ToSet(stored) : t.ts <= s.ts

SamplesInv ==
    /\ SampleTypes
    /\ \A id \in Enrolled : enrolled[id] = id
    /\ \A x \in Readers : reading[x].pc = "reads" => reading[x].id \in 1..MaxFans /\ reading[x].nth = reading[x].id
    /\ \A id \in 1..MaxFans : HasNewest(samples[id]) /\ \A s \in ToSet(samples[id]) : s.nth = id

LEMMA Appended ==
    ASSUME NEW stored \in Seq(Sample), NEW s \in Sample
    PROVE  /\ ToSet(Append(stored, s)) = ToSet(stored) \cup {s} /\ Append(stored, s) # <<>>
           /\ Append(stored, s) \in Seq(Sample) /\ ToSet(stored) \subseteq Sample
<1>1. /\ Append(stored, s) \in Seq(Sample) /\ Len(Append(stored, s)) = Len(stored) + 1 /\ Len(stored) \in Nat
      /\ \A i \in 1..Len(stored) : Append(stored, s)[i] = stored[i]
      /\ Append(stored, s)[Len(stored) + 1] = s
  OBVIOUS
<1>2. DOMAIN Append(stored, s) = 1..(Len(stored) + 1) /\ DOMAIN stored = 1..Len(stored)
  BY <1>1
<1>3. 1..(Len(stored) + 1) = (1..Len(stored)) \cup {Len(stored) + 1}
  BY <1>1
<1>4. \A i \in 1..Len(stored) : stored[i] \in Sample
  OBVIOUS
<1> QED
  BY <1>1, <1>2, <1>3, <1>4 DEF ToSet

(* The newest of a device's samples is one of them, and not newer than it was. *)
LEMMA NewestStays ==
    ASSUME NEW stored \in Seq(Sample), NEW s \in Sample, HasNewest(stored)
    PROVE  /\ HasNewest(Append(stored, s))
           /\ stored # <<>> => Latest(Append(stored, s)).ts >= Latest(stored).ts
<1> DEFINE more == Append(stored, s)
<1>1. /\ ToSet(more) = ToSet(stored) \cup {s} /\ more # <<>> /\ ToSet(stored) \subseteq Sample
  BY Appended
<1>2. stored = <<>> => ToSet(stored) = {}
  BY DEF ToSet
<1>3. \A t \in Sample : t.ts \in Nat
  BY DEF Sample
<1> HIDE DEF more
<1>4. \E n \in ToSet(more) : \A t \in ToSet(more) : t.ts <= n.ts
  <2>1. CASE stored = <<>>
    BY <1>1, <1>2, <1>3, <2>1
  <2>2. CASE stored # <<>>
    <3>1. PICK n \in ToSet(stored) : \A t \in ToSet(stored) : t.ts <= n.ts
      BY <2>2 DEF HasNewest
    <3>2. n.ts \in Nat /\ s.ts \in Nat
      BY <1>1, <1>3
    <3>3. CASE s.ts <= n.ts
      BY <1>1, <3>1, <3>3
    <3>4. CASE n.ts <= s.ts
      BY <1>1, <1>3, <3>1, <3>2, <3>4
    <3> QED
      BY <3>2, <3>3, <3>4
  <2> QED
    BY <2>1, <2>2
<1>5. Latest(more) \in ToSet(more) /\ \A t \in ToSet(more) : t.ts <= Latest(more).ts
  BY <1>4 DEF Latest
<1>6. stored # <<>> => Latest(stored) \in ToSet(stored)
  BY DEF Latest, HasNewest
<1> QED
  BY <1>1, <1>4, <1>5, <1>6, <1>3 DEF HasNewest, more

LEMMA LatestIsStored ==
    ASSUME NEW stored, HasNewest(stored), stored # <<>>
    PROVE  Latest(stored) \in ToSet(stored)
BY DEF HasNewest, Latest

LEMMA ReaderTurns ==
    ASSUME SampleTypes, NEW x \in Readers, NEW r \in FanReading, Becomes(x, r)
    PROVE  reading' \in [Readers -> FanReading] /\ \A y \in Readers : reading'[y] = IF y = x THEN r ELSE reading[y]
BY DEF SampleTypes, Becomes

LEMMA ReadsType ==
    ASSUME SamplesInv, NEW id \in Enrolled, NEW todo \in SUBSET (1..MaxFans)
    PROVE  /\ Reads(id, todo) \in FanReading /\ Reads(id, todo).pc = "reads" /\ id \in 1..MaxFans
           /\ Reads(id, todo).id = id /\ Reads(id, todo).nth = id
<1>1. id \in 1..MaxFans /\ enrolled[id] \in Nat /\ fanTime \in Nat /\ enrolled[id] = id
  BY DEF SamplesInv, SampleTypes, Enrolled
<1> QED
  BY <1>1 DEF Reads, FanReading

LEMMA SamplesReading ==
    ASSUME SamplesInv, NEW x \in Readers, NEW r \in FanReading, Becomes(x, r),
           r.pc = "reads" => r.id \in 1..MaxFans /\ r.nth = r.id,
           UNCHANGED <<added, enrolled, watched, samples, fanTime>>
    PROVE  SamplesInv'
<1>1. reading' \in [Readers -> FanReading] /\ \A y \in Readers : reading'[y] = IF y = x THEN r ELSE reading[y]
  BY ReaderTurns DEF SamplesInv
<1>2. \A y \in Readers : reading'[y].pc = "reads" => reading'[y].id \in 1..MaxFans /\ reading'[y].nth = reading'[y].id
  BY <1>1 DEF SamplesInv
<1> QED
  BY <1>1, <1>2 DEF SamplesInv, SampleTypes, Enrolled

LEMMA SamplesStep == SamplesInv /\ [FanSamplesNext]_fanSampleVars => SamplesInv'
<1> SUFFICES ASSUME SamplesInv, [FanSamplesNext]_fanSampleVars PROVE SamplesInv'
  OBVIOUS
<1>0. SampleTypes /\ NoReading \in FanReading /\ NoReading.pc = "none" /\ Poller \in Readers
  BY DEF SamplesInv, NoReading, FanReading, Readers, Poller
<1>00. \A s \in SUBSET (1..MaxFans) :
          /\ [NoReading EXCEPT !.pc = "between", !.todo = s] \in FanReading
          /\ [NoReading EXCEPT !.pc = "between", !.todo = s].pc = "between"
  BY <1>0 DEF FanReading
<1>1. CASE UNCHANGED fanSampleVars
  BY <1>1 DEF fanSampleVars, SamplesInv, SampleTypes, Enrolled
<1>2. CASE AddsFan
  <2> DEFINE n == added + 1
  <2>1. /\ n \in 1..MaxFans /\ enrolled' = [enrolled EXCEPT ![n] = n] /\ watched' = watched \cup {n} /\ added' = n
        /\ UNCHANGED <<reading, samples, fanTime>>
    BY <1>0, <1>2, FansBound DEF AddsFan, RowId, SampleTypes
  <2> HIDE DEF n
  <2>2. SampleTypes'
    BY <1>0, <2>1 DEF SampleTypes
  <2>3. \A id \in Enrolled' : enrolled'[id] = id
    BY <1>0, <2>1 DEF SamplesInv, SampleTypes, Enrolled
  <2> QED
    BY <2>1, <2>2, <2>3 DEF SamplesInv
<1>3. ASSUME NEW id \in 1..MaxFans, SwitchesFan(id) PROVE SamplesInv'
  <2>1. SymDiff(watched, {id}) \subseteq 1..MaxFans
    BY <1>0 DEF SampleTypes, SymDiff
  <2> QED
    BY <1>3, <2>1 DEF SwitchesFan, SamplesInv, SampleTypes, Enrolled
<1>4. ASSUME NEW id \in 1..MaxFans, DeletesFan(id) PROVE SamplesInv'
  <2>1. SampleTypes'
    BY <1>0, <1>4 DEF DeletesFan, SampleTypes
  <2>2. \A i \in Enrolled' : enrolled'[i] = i
    BY <1>0, <1>4 DEF DeletesFan, SamplesInv, SampleTypes, Enrolled
  <2> QED
    BY <1>4, <2>1, <2>2 DEF DeletesFan, SamplesInv
<1>5. CASE StartsRound
  BY <1>0, <1>00, <1>5, SamplesReading DEF StartsRound, SampleTypes
<1>6. CASE RoundEnds
  BY <1>0, <1>6, SamplesReading DEF RoundEnds
<1>7. ASSUME NEW id \in 1..MaxFans, TakesNext(id) PROVE SamplesInv'
  <2> DEFINE rest == reading[Poller].todo \ {id}
  <2>1. rest \in SUBSET (1..MaxFans) /\ reading[Poller] \in FanReading /\ reading[Poller].pc = "between"
    BY <1>0, <1>7 DEF SampleTypes, FanReading, TakesNext
  <2>2. [reading[Poller] EXCEPT !.todo = rest] \in FanReading /\ [reading[Poller] EXCEPT !.todo = rest].pc = "between"
    BY <2>1 DEF FanReading
  <2>3. CASE id \in Enrolled
    <3>1. Becomes(Poller, Reads(id, rest)) /\ UNCHANGED <<added, enrolled, watched, samples, fanTime>>
      BY <1>7, <2>3 DEF TakesNext
    <3> QED
      BY <1>0, <2>1, <2>3, <3>1, ReadsType, SamplesReading
  <2>4. CASE id \notin Enrolled
    <3>1. Becomes(Poller, [reading[Poller] EXCEPT !.todo = rest]) /\ UNCHANGED <<added, enrolled, watched, samples, fanTime>>
      BY <1>7, <2>4 DEF TakesNext
    <3> QED
      BY <1>0, <2>2, <3>1, SamplesReading
  <2> QED
    BY <2>3, <2>4
<1>8. ASSUME NEW x \in Refreshers, NEW id \in 1..MaxFans, Refreshes(x, id) PROVE SamplesInv'
  <2>1. id \in Enrolled /\ Becomes(x, Reads(id, {})) /\ UNCHANGED <<added, enrolled, watched, samples, fanTime>> /\ x \in Readers
    BY <1>8 DEF Refreshes, Readers
  <2> QED
    BY <2>1, ReadsType, SamplesReading
<1>9. ASSUME NEW x \in Readers, StoresSample(x) PROVE SamplesInv'
  <2> DEFINE q == reading[x]
             s == [nth |-> q.nth, ts |-> q.ts]
             r == IF x = Poller THEN [NoReading EXCEPT !.pc = "between", !.todo = q.todo] ELSE NoReading
  <2>1. q \in FanReading /\ q.pc = "reads" /\ q.id \in 1..MaxFans /\ q.nth = q.id
    BY <1>0, <1>9 DEF StoresSample, SamplesInv, SampleTypes
  <2>2. s \in Sample /\ s.nth = q.id /\ r \in FanReading /\ r.pc # "reads"
    BY <1>0, <1>00, <2>1 DEF FanReading, Sample
  <2>3. /\ samples' = [samples EXCEPT ![q.id] = Append(samples[q.id], s)] /\ Becomes(x, r)
        /\ UNCHANGED <<added, enrolled, watched, fanTime>>
    BY <1>0, <1>9, <2>1 DEF StoresSample, SampleTypes
  <2> HIDE DEF r, s
  <2>4. samples[q.id] \in Seq(Sample) /\ HasNewest(samples[q.id])
    BY <1>0, <2>1 DEF SampleTypes, SamplesInv
  <2>5. /\ ToSet(Append(samples[q.id], s)) = ToSet(samples[q.id]) \cup {s}
        /\ Append(samples[q.id], s) \in Seq(Sample) /\ HasNewest(Append(samples[q.id], s))
    BY <2>2, <2>4, Appended, NewestStays
  <2>6. ASSUME NEW id \in 1..MaxFans
        PROVE  samples'[id] \in Seq(Sample) /\ HasNewest(samples'[id]) /\ \A t \in ToSet(samples'[id]) : t.nth = id
    <3>1. CASE id = q.id
      BY <1>0, <2>1, <2>2, <2>3, <2>5, <3>1 DEF SampleTypes, SamplesInv
    <3>2. CASE id # q.id
      BY <1>0, <2>3, <3>2 DEF SampleTypes, SamplesInv
    <3> QED
      BY <3>1, <3>2
  <2>7. reading' \in [Readers -> FanReading] /\ \A y \in Readers : reading'[y] = IF y = x THEN r ELSE reading[y]
    BY <1>0, <2>2, <2>3, ReaderTurns
  <2>8. samples' \in [1..MaxFans -> Seq(Sample)]
    BY <1>0, <2>3, <2>6 DEF SampleTypes
  <2>9. SampleTypes'
    BY <1>0, <2>3, <2>7, <2>8 DEF SampleTypes
  <2> QED
    BY <2>2, <2>3, <2>6, <2>7, <2>9 DEF SamplesInv, Enrolled
<1>10. ASSUME NEW x \in Readers, LosesSample(x) PROVE SamplesInv'
  <2> DEFINE r == IF x = Poller THEN [NoReading EXCEPT !.pc = "between", !.todo = reading[x].todo] ELSE NoReading
  <2>1. r \in FanReading /\ r.pc # "reads"
    BY <1>0, <1>00 DEF FanReading, SampleTypes
  <2>2. Becomes(x, r) /\ UNCHANGED <<added, enrolled, watched, samples, fanTime>>
    BY <1>10 DEF LosesSample
  <2> HIDE DEF r
  <2> QED
    BY <2>1, <2>2, SamplesReading
<1>11. CASE FanSecond
  BY <1>0, <1>11 DEF FanSecond, SamplesInv, SampleTypes, Enrolled
<1>12. CASE FanPollerRestart
  BY <1>0, <1>12 DEF FanPollerRestart, SamplesInv, SampleTypes, Enrolled
<1> QED
  BY <1>1, <1>2, <1>3, <1>4, <1>5, <1>6, <1>7, <1>8, <1>9, <1>10, <1>11, <1>12 DEF FanSamplesNext

(* Numbers of fc_devices are never given out twice, and get_latest() goes by   *)
(* the time of reading: the page of a device shows what was read from it, and  *)
(* never goes back to an older reading, in whatever order the poller and any   *)
(* number of refreshes store theirs.                                           *)
THEOREM FanPagesStay == FanSamplesSpec => PagesStayTrue
<1>1. FanSamplesInit => SamplesInv
  <2> SUFFICES ASSUME FanSamplesInit PROVE SamplesInv
    OBVIOUS
  <2>1. <<>> \in Seq(Sample) /\ ToSet(<<>>) = {}
    BY DEF ToSet
  <2>2. NoReading \in FanReading /\ NoReading.pc = "none"
    BY DEF NoReading, FanReading
  <2> QED
    BY <2>1, <2>2 DEF FanSamplesInit, SamplesInv, SampleTypes, HasNewest, Enrolled
<1>2. ASSUME SamplesInv, SamplesInv', [FanSamplesNext]_fanSampleVars, NEW id \in Enrolled', samples'[id] # <<>>
      PROVE  /\ Shown(id)'.nth = enrolled'[id]
             /\ samples[id] # <<>> => Shown(id)'.ts >= Shown(id).ts
  <2>1. id \in 1..MaxFans /\ enrolled'[id] = id
    BY <1>2 DEF SamplesInv, SampleTypes, Enrolled
  <2>2. Latest(samples'[id]) \in ToSet(samples'[id])
    BY <1>2, <2>1, LatestIsStored DEF SamplesInv
  <2>3. Shown(id)'.nth = enrolled'[id]
    BY <1>2, <2>1, <2>2 DEF SamplesInv, Shown
  <2>4. HasNewest(samples[id]) /\ samples[id] \in Seq(Sample)
    BY <1>2, <2>1 DEF SamplesInv, SampleTypes
  <2>5. samples'[id] = samples[id] \/ \E s \in Sample : samples'[id] = Append(samples[id], s)
    <3>1. CASE \E x \in Readers : StoresSample(x)
      <4>1. PICK x \in Readers : StoresSample(x)
        BY <3>1
      <4>2. [nth |-> reading[x].nth, ts |-> reading[x].ts] \in Sample
        BY <1>2 DEF SamplesInv, SampleTypes, FanReading, Sample
      <4> QED
        BY <1>2, <2>1, <4>1, <4>2 DEF StoresSample, SamplesInv, SampleTypes
    <3>2. CASE samples' = samples
      BY <3>2
    <3> QED
      BY <1>2, <3>1, <3>2 DEF FanSamplesNext, AddsFan, StartsRound, RoundEnds, FanSecond, FanPollerRestart, SwitchesFan,
           DeletesFan, TakesNext, Refreshes, LosesSample, fanSampleVars
  <2>6. samples[id] # <<>> => Latest(samples'[id]).ts >= Latest(samples[id]).ts
    <3>1. CASE samples'[id] = samples[id]
      <4>1. samples[id] # <<>> => Latest(samples[id]) \in Sample
        BY <2>4, LatestIsStored DEF ToSet
      <4> QED
        BY <3>1, <4>1 DEF Sample
    <3>2. CASE \E s \in Sample : samples'[id] = Append(samples[id], s)
      BY <2>4, <3>2, NewestStays
    <3> QED
      BY <2>5, <3>1, <3>2
  <2> QED
    BY <2>3, <2>6 DEF Shown
<1>3. SamplesInv /\ SamplesInv' /\ [FanSamplesNext]_fanSampleVars =>
        [\A id \in Enrolled' : samples'[id] # <<>> =>
           /\ Shown(id)'.nth = enrolled'[id]
           /\ samples[id] # <<>> => Shown(id)'.ts >= Shown(id).ts]_fanSampleVars
  BY <1>2
<1> QED
  BY <1>1, <1>3, SamplesStep, PTL DEF FanSamplesSpec, PagesStayTrue

-----------------------------------------------------------------------------
(* The page of a Commander. A set of samples that stores and pruning *)
(* filled has a newest one, and pruning by age leaves that one or nothing.    *)
CcReading == [pc : {"none", "between", "asks", "stores", "sets"}, todo : SUBSET CcIds,
              id : Nat, ts : Nat, ok : BOOLEAN]
CcSample == [ts : Nat, ok : BOOLEAN]

CommanderTypes ==
    /\ ccAdded \in 0..MaxCommanders /\ ccRows \subseteq 1..ccAdded /\ ccOn \subseteq ccRows
    /\ ccWork \in [CcWorkers -> CcReading]
    /\ ccSamples \in [CcIds -> SUBSET CcSample]
    /\ ccFan \in [CcIds -> CcSettings \cup {"own"}] /\ ccDay \in Nat

HasLatest(stored) == stored # {} => \E s \in stored : \A t \in stored : t.ts <= s.ts
CcBusyWithRow(w) == w.pc \in {"asks", "stores", "sets"} => w.id \in CcIds

CommanderInv ==
    /\ CommanderTypes
    /\ \A x \in CcWorkers : CcBusyWithRow(ccWork[x])
    /\ \A id \in CcIds : HasLatest(ccSamples[id])

LEMMA LatestOfSamples ==
    ASSUME NEW stored, HasLatest(stored), stored # {}
    PROVE  CcLatest(stored) \in stored /\ \A t \in stored : t.ts <= CcLatest(stored).ts
BY DEF HasLatest, CcLatest

LEMMA StoredHasLatest ==
    ASSUME NEW stored \in SUBSET CcSample, NEW s \in CcSample, HasLatest(stored)
    PROVE  /\ HasLatest(stored \cup {s}) /\ stored \cup {s} # {}
           /\ stored # {} => CcLatest(stored \cup {s}).ts >= CcLatest(stored).ts
<1>1. \A t \in CcSample : t.ts \in Nat
  BY DEF CcSample
<1>2. HasLatest(stored \cup {s})
  <2>1. CASE stored = {}
    BY <1>1, <2>1 DEF HasLatest
  <2>2. CASE stored # {}
    <3>1. PICK m \in stored : \A t \in stored : t.ts <= m.ts
      BY <2>2 DEF HasLatest
    <3>2. m.ts \in Nat /\ s.ts \in Nat /\ \A t \in stored : t.ts \in Nat
      BY <1>1
    <3>3. CASE s.ts <= m.ts
      BY <3>1, <3>2, <3>3 DEF HasLatest
    <3>4. CASE m.ts < s.ts
      <4>1. \A t \in stored \cup {s} : t.ts <= s.ts
        BY <3>1, <3>2, <3>4
      <4> QED
        BY <4>1 DEF HasLatest
    <3> QED
      BY <3>2, <3>3, <3>4
  <2> QED
    BY <2>1, <2>2
<1>3. stored # {} => CcLatest(stored) \in stored
  BY LatestOfSamples
<1>4. \A t \in stored \cup {s} : t.ts <= CcLatest(stored \cup {s}).ts
  BY <1>2, LatestOfSamples
<1>5. CcLatest(stored \cup {s}) \in CcSample
  BY <1>2, LatestOfSamples
<1> QED
  BY <1>1, <1>2, <1>3, <1>4, <1>5

(* Pruning keeps the newest sample unless that one is too old too.            *)
LEMMA PrunedHasLatest ==
    ASSUME NEW stored \in SUBSET CcSample, HasLatest(stored), ccDay \in Nat,
           NEW kept, kept = {s \in stored : CcKept(s)}
    PROVE  /\ HasLatest(kept)
           /\ stored # {} /\ kept = {} => CcLatest(stored).ts + KeepDays < ccDay
           /\ stored # {} /\ kept # {} => CcLatest(kept).ts >= CcLatest(stored).ts
<1>1. /\ \A t \in CcSample : t.ts \in Nat
      /\ KeepDays \in Nat
  BY CommanderAssumption DEF CcSample
<1>2. CASE stored = {}
  BY <1>2 DEF HasLatest
<1>3. CASE stored # {}
  <2> DEFINE m == CcLatest(stored)
  <2>1. m \in stored /\ \A t \in stored : t.ts <= m.ts
    BY <1>3, LatestOfSamples
  <2> HIDE DEF m
  <2>2. m.ts \in Nat /\ \A t \in stored : t.ts \in Nat
    BY <1>1, <2>1
  <2>3. CASE CcKept(m)
    <3>1. m \in kept /\ \A t \in kept : t.ts <= m.ts
      BY <2>1, <2>3
    <3>2. HasLatest(kept)
      BY <3>1 DEF HasLatest
    <3>3. m.ts <= CcLatest(kept).ts /\ CcLatest(kept) \in kept
      BY <3>1, <3>2, LatestOfSamples
    <3>4. CcLatest(kept).ts \in Nat
      BY <3>3, <2>2
    <3> QED
      BY <2>2, <3>1, <3>2, <3>3, <3>4 DEF m
  <2>4. CASE ~CcKept(m)
    <3>1. m.ts + KeepDays < ccDay
      BY <1>1, <2>2, <2>4 DEF CcKept
    <3>2. \A t \in stored : ~CcKept(t)
      BY <1>1, <2>1, <2>2, <3>1 DEF CcKept
    <3>3. kept = {}
      BY <3>2
    <3> QED
      BY <3>1, <3>3 DEF HasLatest, m
  <2> QED
    BY <2>3, <2>4
<1> QED
  BY <1>2, <1>3

LEMMA CommanderTurns ==
    ASSUME CommanderTypes, NEW x \in CcWorkers, NEW w \in CcReading, CcBecomes(x, w)
    PROVE  ccWork' \in [CcWorkers -> CcReading] /\ \A y \in CcWorkers : ccWork'[y] = IF y = x THEN w ELSE ccWork[y]
BY DEF CommanderTypes, CcBecomes

LEMMA CommanderWorking ==
    ASSUME CommanderInv, NEW x \in CcWorkers, NEW w \in CcReading, CcBusyWithRow(w), CcOnlyWork(x, w)
    PROVE  CommanderInv'
<1>1. ccWork' \in [CcWorkers -> CcReading] /\ \A y \in CcWorkers : ccWork'[y] = IF y = x THEN w ELSE ccWork[y]
  BY CommanderTurns DEF CommanderInv, CcOnlyWork
<1>2. UNCHANGED <<ccAdded, ccRows, ccOn, ccSamples, ccFan, ccDay>>
  BY DEF CcOnlyWork
<1>3. CommanderTypes'
  BY <1>1, <1>2 DEF CommanderInv, CommanderTypes
<1>4. \A y \in CcWorkers : CcBusyWithRow(ccWork'[y])
  BY <1>1 DEF CommanderInv
<1> QED
  BY <1>2, <1>3, <1>4 DEF CommanderInv, CcBusyWithRow

LEMMA CommanderStep ==
    ASSUME CommanderInv, [CommanderNext]_commanderVars
    PROVE  CommanderInv'
<1>0. CommanderTypes /\ CcPoller \in CcWorkers /\ MaxCommanders \in Nat
  BY CommanderAssumption DEF CommanderInv, CcWorkers
<1>00. \A x \in CcWorkers : ccWork[x] \in CcReading /\ CcBusyWithRow(ccWork[x])
  BY <1>0 DEF CommanderInv, CommanderTypes
<1>01. CcIdle \in CcReading /\ CcIdle.pc = "none" /\ ccRows \subseteq CcIds
  BY <1>0 DEF CcIdle, CcReading, CommanderTypes, CcIds
<1>1. CASE UNCHANGED commanderVars
  BY <1>0, <1>1 DEF commanderVars, CommanderInv, CommanderTypes, HasLatest, CcBusyWithRow, CcIds, CcWorkers
<1>2. CASE CcAdds \/ CcDayPasses \/ \E id \in CcIds : CcEdits(id) \/ CcDeletes(id) \/ CcPowers(id)
  <2>1. UNCHANGED <<ccWork, ccSamples>>
    BY <1>2 DEF CcAdds, CcDayPasses, CcEdits, CcDeletes, CcPowers
  <2> DEFINE RowsFit == /\ ccAdded' \in 0..MaxCommanders /\ ccRows' \subseteq 1..ccAdded' /\ ccOn' \subseteq ccRows'
                        /\ ccFan' \in [CcIds -> CcSettings \cup {"own"}] /\ ccDay' \in Nat
  <2>2. RowsFit
    <3>1. CASE CcAdds
      BY <1>0, <3>1 DEF CommanderTypes, CcAdds
    <3>2. CASE CcDayPasses
      BY <1>0, <3>2 DEF CommanderTypes, CcDayPasses
    <3>3. ASSUME NEW id \in CcIds, CcEdits(id) PROVE RowsFit
      BY <1>0, <3>3 DEF CommanderTypes, CcEdits, SymDiff
    <3>4. ASSUME NEW id \in CcIds, CcDeletes(id) PROVE RowsFit
      BY <1>0, <3>4 DEF CommanderTypes, CcDeletes
    <3>5. ASSUME NEW id \in CcIds, CcPowers(id) PROVE RowsFit
      BY <1>0, <3>5 DEF CommanderTypes, CcPowers
    <3> QED
      BY <1>2, <3>1, <3>2, <3>3, <3>4, <3>5
  <2> QED
    BY <1>0, <2>1, <2>2 DEF CommanderInv, CommanderTypes, HasLatest, CcBusyWithRow
<1>3. CASE CcRoundStarts
  <2> DEFINE w == [CcIdle EXCEPT !.pc = "between", !.todo = ccOn]
  <2>1. w \in CcReading /\ w.pc = "between"
    BY <1>0, <1>01 DEF CommanderTypes, CcReading, CcIdle
  <2>2. CcOnlyWork(CcPoller, w)
    BY <1>3 DEF CcRoundStarts
  <2> HIDE DEF w
  <2> QED
    BY <1>0, <2>1, <2>2, CommanderWorking DEF CcBusyWithRow
<1>4. ASSUME NEW id \in CcIds, CcTakes(id) PROVE CommanderInv'
  <2> DEFINE w == [ccWork[CcPoller] EXCEPT !.pc = "asks", !.todo = @ \ {id}, !.id = id, !.ts = ccDay]
  <2>0. ccWork[CcPoller] \in CcReading /\ ccDay \in Nat /\ id \in Nat
    BY <1>0, <1>00 DEF CommanderTypes, CcIds
  <2>1. w \in CcReading /\ w.id \in CcIds
    BY <2>0 DEF CcReading
  <2>2. CcOnlyWork(CcPoller, w)
    BY <1>4 DEF CcTakes
  <2> HIDE DEF w
  <2> QED
    BY <1>0, <2>1, <2>2, CommanderWorking DEF CcBusyWithRow
<1>5. ASSUME NEW x \in Visitors, NEW id \in CcIds, CcRefreshes(x, id) \/ CcAsksToSet(x, id) PROVE CommanderInv'
  <2> DEFINE w == IF CcRefreshes(x, id) THEN [CcIdle EXCEPT !.pc = "asks", !.id = id, !.ts = ccDay]
                  ELSE [CcIdle EXCEPT !.pc = "sets", !.id = id]
  <2>0. ccDay \in Nat /\ id \in Nat /\ x \in CcWorkers
    BY <1>0 DEF CommanderTypes, CcIds, CcWorkers
  <2>1. w \in CcReading /\ w.id \in CcIds
    BY <1>01, <2>0 DEF CcReading, CcIdle
  <2>2. CcOnlyWork(x, w)
    BY <1>5 DEF CcRefreshes, CcAsksToSet
  <2> HIDE DEF w
  <2> QED
    BY <2>0, <2>1, <2>2, CommanderWorking DEF CcBusyWithRow
<1>6. ASSUME NEW x \in CcWorkers, CcAnswered(x) PROVE CommanderInv'
  <2>1. PICK good \in BOOLEAN :
            CcOnlyWork(x, IF good \/ x = CcPoller THEN [ccWork[x] EXCEPT !.pc = "stores", !.ok = good] ELSE CcIdle)
    BY <1>6 DEF CcAnswered
  <2> DEFINE w == IF good \/ x = CcPoller THEN [ccWork[x] EXCEPT !.pc = "stores", !.ok = good] ELSE CcIdle
  <2>2. ccWork[x] \in CcReading /\ ccWork[x].id \in CcIds
    BY <1>00, <1>6 DEF CcAnswered, CcBusyWithRow
  <2>3. w \in CcReading /\ CcBusyWithRow(w)
    BY <1>01, <2>2 DEF CcReading, CcBusyWithRow
  <2>4. CcOnlyWork(x, w)
    BY <2>1
  <2> HIDE DEF w
  <2> QED
    BY <2>3, <2>4, CommanderWorking
<1>7. ASSUME NEW x \in CcWorkers, CcStores(x) PROVE CommanderInv'
  <2> DEFINE w == CcAfter(x)
             s == [ts |-> ccWork[x].ts, ok |-> ccWork[x].ok]
             n == ccWork[x].id
  <2>1. w \in CcReading /\ w.pc \in {"none", "between"}
    BY <1>00, <1>01 DEF CcAfter, CcReading, CcIdle
  <2>2. s \in CcSample /\ n \in CcIds
    BY <1>00, <1>7 DEF CcReading, CcSample, CcStores, CcBusyWithRow
  <2>3. /\ ccSamples' = [ccSamples EXCEPT ![n] = @ \cup {s}] /\ CcBecomes(x, w)
        /\ UNCHANGED <<ccAdded, ccRows, ccOn, ccFan, ccDay>>
    BY <1>7 DEF CcStores
  <2> HIDE DEF w, s, n
  <2>4. ccWork' \in [CcWorkers -> CcReading] /\ \A y \in CcWorkers : ccWork'[y] = IF y = x THEN w ELSE ccWork[y]
    BY <1>0, <2>1, <2>3, CommanderTurns
  <2>5. ASSUME NEW id \in CcIds
        PROVE  ccSamples'[id] \in SUBSET CcSample /\ HasLatest(ccSamples'[id])
    <3>1. ccSamples[id] \in SUBSET CcSample /\ HasLatest(ccSamples[id])
      BY <1>0 DEF CommanderTypes, CommanderInv
    <3>2. ccSamples'[id] = ccSamples[id] \/ ccSamples'[id] = ccSamples[id] \cup {s}
      BY <1>0, <2>2, <2>3 DEF CommanderTypes
    <3> QED
      BY <2>2, <3>1, <3>2, StoredHasLatest
  <2>6. CommanderTypes'
    BY <1>0, <2>3, <2>4, <2>5 DEF CommanderTypes
  <2>7. \A y \in CcWorkers : CcBusyWithRow(ccWork'[y])
    BY <1>00, <2>1, <2>4 DEF CcBusyWithRow
  <2> QED
    BY <2>5, <2>6, <2>7 DEF CommanderInv, HasLatest, CcBusyWithRow
<1>8. ASSUME NEW x \in CcWorkers, CcRaises(x) PROVE CommanderInv'
  BY <1>01, <1>8, CommanderWorking DEF CcRaises, CcBusyWithRow
<1>9. CASE CcPurges
  <2>1. /\ ccSamples' = [id \in CcIds |-> {s \in ccSamples[id] : CcKept(s)}] /\ CcBecomes(CcPoller, CcIdle)
        /\ UNCHANGED <<ccAdded, ccRows, ccOn, ccFan, ccDay>>
    BY <1>9 DEF CcPurges
  <2>2. /\ ccWork' \in [CcWorkers -> CcReading]
        /\ \A y \in CcWorkers : ccWork'[y] = IF y = CcPoller THEN CcIdle ELSE ccWork[y]
    BY <1>0, <1>01, <2>1, CommanderTurns
  <2>3. ASSUME NEW id \in CcIds
        PROVE  ccSamples'[id] \in SUBSET CcSample /\ HasLatest(ccSamples'[id])
    <3>1. ccSamples[id] \in SUBSET CcSample /\ HasLatest(ccSamples[id]) /\ ccDay \in Nat
      BY <1>0 DEF CommanderTypes, CommanderInv
    <3>2. ccSamples'[id] = {s \in ccSamples[id] : CcKept(s)}
      BY <2>1
    <3> QED
      BY <3>1, <3>2, PrunedHasLatest
  <2>4. CommanderTypes'
    BY <1>0, <2>1, <2>2, <2>3 DEF CommanderTypes
  <2>5. \A y \in CcWorkers : CcBusyWithRow(ccWork'[y])
    BY <1>00, <1>01, <2>2 DEF CcBusyWithRow
  <2> QED
    BY <2>3, <2>4, <2>5 DEF CommanderInv, HasLatest, CcBusyWithRow
<1>10. ASSUME NEW x \in Visitors, CcSets(x) PROVE CommanderInv'
  <2>1. /\ x \in CcWorkers /\ CcBecomes(x, CcIdle)
        /\ UNCHANGED <<ccAdded, ccRows, ccOn, ccSamples, ccDay>>
    BY <1>10 DEF CcSets, CcWorkers
  <2>2. ccWork' \in [CcWorkers -> CcReading] /\ \A y \in CcWorkers : ccWork'[y] = IF y = x THEN CcIdle ELSE ccWork[y]
    BY <1>0, <1>01, <2>1, CommanderTurns
  <2>3. ccFan' \in [CcIds -> CcSettings \cup {"own"}]
    BY <1>0, <1>10 DEF CcSets, CommanderTypes
  <2>4. CommanderTypes'
    BY <1>0, <2>1, <2>2, <2>3 DEF CommanderTypes
  <2>5. \A y \in CcWorkers : CcBusyWithRow(ccWork'[y])
    BY <1>00, <1>01, <2>2 DEF CcBusyWithRow
  <2> QED
    BY <2>1, <2>4, <2>5 DEF CommanderInv, HasLatest, CcBusyWithRow
<1>11. CASE CcRestart
  BY <1>0, <1>01, <1>11 DEF CcRestart, CommanderInv, CommanderTypes, HasLatest, CcBusyWithRow
<1> QED
  BY <1>1, <1>2, <1>3, <1>4, <1>5, <1>6, <1>7, <1>8, <1>9, <1>10, <1>11 DEF CommanderNext

(* For any number of devices, requests and days, in whatever order the poller *)
(* and the refreshes store what they read, and whenever _purge_old() runs: a  *)
(* page never goes back to an older reading, and is emptied only of one that  *)
(* is past its time.                                                          *)
THEOREM CommanderPagesAreKept == CommanderSpec => CommanderPagesStay
<1>1. CommanderInit => CommanderInv
  <2> SUFFICES ASSUME CommanderInit PROVE CommanderInv
    OBVIOUS
  <2>1. CcIdle \in CcReading /\ CcIdle.pc = "none" /\ MaxCommanders \in Nat
    BY CommanderAssumption DEF CcIdle, CcReading
  <2> QED
    BY <2>1 DEF CommanderInit, CommanderInv, CommanderTypes, HasLatest, CcBusyWithRow
<1>2. ASSUME CommanderInv, CommanderNext, NEW id \in ccRows, ccSamples[id] # {}
      PROVE  IF ccSamples'[id] = {} THEN CcLatest(ccSamples[id]).ts + KeepDays < ccDay
             ELSE CcLatest(ccSamples'[id]).ts >= CcLatest(ccSamples[id]).ts
  <2>1. /\ id \in CcIds /\ ccSamples[id] \in SUBSET CcSample /\ HasLatest(ccSamples[id]) /\ ccDay \in Nat
    BY <1>2, CommanderAssumption DEF CommanderInv, CommanderTypes, CcIds
  <2>2. CASE \E x \in CcWorkers : CcStores(x)
    <3>1. PICK x \in CcWorkers : CcStores(x)
      BY <2>2
    <3> DEFINE s == [ts |-> ccWork[x].ts, ok |-> ccWork[x].ok]
    <3>2. s \in CcSample
      BY <1>2 DEF CommanderInv, CommanderTypes, CcReading, CcSample
    <3>3. ccSamples' = [ccSamples EXCEPT ![ccWork[x].id] = @ \cup {s}]
      BY <3>1 DEF CcStores
    <3> HIDE DEF s
    <3>4. ccSamples'[id] = ccSamples[id] \/ ccSamples'[id] = ccSamples[id] \cup {s}
      BY <1>2, <2>1, <3>3 DEF CommanderInv, CommanderTypes
    <3>5. CcLatest(ccSamples[id]).ts \in Nat
      BY <1>2, <2>1, LatestOfSamples DEF CcSample
    <3> QED
      BY <1>2, <2>1, <3>2, <3>4, <3>5, StoredHasLatest
  <2>3. CASE CcPurges
    <3>1. ccSamples'[id] = {s \in ccSamples[id] : CcKept(s)}
      BY <2>1, <2>3 DEF CcPurges
    <3> QED
      BY <1>2, <2>1, <3>1, PrunedHasLatest
  <2>4. CASE ccSamples' = ccSamples
    <3>1. CcLatest(ccSamples[id]).ts \in Nat
      BY <1>2, <2>1, LatestOfSamples DEF CcSample
    <3> QED
      BY <1>2, <2>4, <3>1
  <2> QED
    BY <1>2, <2>2, <2>3, <2>4 DEF CommanderNext, CcAdds, CcRoundStarts, CcDayPasses, CcRestart, CcEdits, CcDeletes,
       CcTakes, CcPowers, CcAnswered, CcRaises, CcSets, CcRefreshes, CcAsksToSet, CcOnlyWork
<1>3. CommanderInv /\ [CommanderNext]_commanderVars =>
        [\A id \in ccRows : ccSamples[id] # {} =>
           LET shown == CcLatest(ccSamples[id]) IN
           IF ccSamples'[id] = {} THEN shown.ts + KeepDays < ccDay
           ELSE CcLatest(ccSamples'[id]).ts >= shown.ts]_commanderVars
  BY <1>2
<1> QED
  BY <1>1, <1>3, CommanderStep, PTL DEF CommanderSpec, CommanderPagesStay

-----------------------------------------------------------------------------
(* The notice of a new version. Whatever a request holds a check once found;  *)
(* alone, a request holds the notice that is due.                             *)
NoticeData == [available : BOOLEAN, type : {"none", "release", "commit"}, latest : Int, dismissed : BOOLEAN]
VersionFiles == [text : {"none", "cut", "json"}, data : NoticeData]
CheckType == [pc : {"idle", "release", "commit", "save", "write", "announce"}, data : NoticeData,
              sha : Nat, found : BOOLEAN, before : Int]
DismissType == [pc : {"idle", "save", "write"}, data : NoticeData]

VersionTypes ==
    /\ versionFile \in VersionFiles /\ runningCommit \in Nat
    /\ github \in [head : Nat, release : Nat, target : Nat]
    /\ checking \in [VersionChecks -> CheckType]
    /\ dismissing \in [Dismissals -> DismissType]
    /\ announced \in [last : Int, again : BOOLEAN]
    /\ versionAlone \in BOOLEAN
    /\ versionFile.text # "json" => versionFile.data = NoData

(* Every notice that is anywhere, in the file or in a request's hands, was    *)
(* found by a check.                                                          *)
Known(data) == data.available => [type |-> data.type, version |-> data.latest] \in noticed
AllKnown ==
    /\ Known(versionFile.data)
    /\ \A r \in VersionChecks : Known(checking[r].data)
    /\ \A r \in Dismissals : Known(dismissing[r].data)

(* What the one request at work holds, while requests come alone.             *)
NoticeDue(data) == IF data.available /\ ~data.dismissed THEN [type |-> data.type, version |-> data.latest] ELSE NoNotice
OneAtWork ==
    /\ \A r, q \in VersionChecks : checking[r].pc # "idle" /\ checking[q].pc # "idle" => r = q
    /\ \A r, q \in Dismissals : dismissing[r].pc # "idle" /\ dismissing[q].pc # "idle" => r = q
    /\ \A r \in VersionChecks, q \in Dismissals : checking[r].pc = "idle" \/ dismissing[q].pc = "idle"
CheckHolds(r) ==
    checking[r].pc # "idle" =>
        /\ NoticeDue(checking[r].data) = expected /\ checking[r].before = announced.last
        /\ ~checking[r].found => checking[r].data.latest = checking[r].before
        /\ checking[r].pc \in {"release", "commit"} => ~checking[r].found
        /\ checking[r].pc = "write" => versionFile = CutShort
        /\ checking[r].pc = "announce" => versionFile = VersionText(checking[r].data)
DismissalHolds(r) ==
    dismissing[r].pc # "idle" =>
        /\ expected = NoNotice /\ dismissing[r].data.dismissed /\ dismissing[r].data.latest = announced.last
        /\ dismissing[r].pc = "write" => versionFile = CutShort
FileHolds == NobodyAtWork => NoticeDue(versionFile.data) = expected /\ versionFile.data.latest = announced.last
RequestsAlone ==
    versionAlone =>
        /\ OneAtWork /\ ~announced.again /\ FileHolds
        /\ \A r \in VersionChecks : CheckHolds(r)
        /\ \A r \in Dismissals : DismissalHolds(r)

VersionInv == VersionTypes /\ AllKnown /\ RequestsAlone

LEMMA VersionRecords ==
    /\ NoData \in NoticeData /\ ~NoData.available /\ NoData.latest = 0 /\ NoticeDue(NoData) = NoNotice
    /\ NoVersionFile \in VersionFiles /\ NoVersionFile.data = NoData
    /\ CutShort \in VersionFiles /\ CutShort.data = NoData
    /\ NotChecking \in CheckType /\ NotChecking.pc = "idle" /\ NotChecking.data = NoData
    /\ NotDismissing \in DismissType /\ NotDismissing.pc = "idle" /\ NotDismissing.data = NoData
<1>1. NoData \in NoticeData /\ ~NoData.available /\ NoData.latest = 0
    BY DEF NoData, NoticeData
<1> QED BY <1>1 DEF NoticeDue, NoVersionFile, VersionFiles, CutShort, NotChecking, CheckType, NotDismissing, DismissType

LEMMA TextsHoldData ==
    \A data \in NoticeData : VersionText(data) \in VersionFiles /\ VersionText(data).data = data /\ VersionText(data).text = "json"
    BY DEF VersionText, VersionFiles

LEMMA LoadsTheData == ASSUME VersionTypes PROVE VersionData(versionFile) = versionFile.data
    BY DEF VersionTypes, VersionFiles, VersionData

LEMMA VersionStarts == VersionInit => VersionInv
<1> SUFFICES ASSUME VersionInit PROVE VersionInv
    OBVIOUS
<1>1. VersionTypes
    BY VersionRecords DEF VersionInit, VersionTypes
<1>2. AllKnown
    BY VersionRecords DEF VersionInit, AllKnown, Known
<1>3. RequestsAlone
    BY VersionRecords DEF VersionInit, RequestsAlone, OneAtWork, CheckHolds, DismissalHolds, FileHolds
<1> QED BY <1>1, <1>2, <1>3 DEF VersionInv

LEMMA VersionSteps == VersionInv /\ [VersionNext]_versionVars => VersionInv'
<1> SUFFICES ASSUME VersionInv, [VersionNext]_versionVars PROVE VersionInv'
    OBVIOUS
<1> USE DEF VersionInv
<1>0. VersionData(versionFile) = versionFile.data /\ Notice(versionFile) = NoticeDue(versionFile.data)
    BY LoadsTheData DEF Notice, NoticeDue
\* A step of one check, and of one dismissal, that leaves or makes the others idle.
<1>1. ASSUME NEW r \in VersionChecks, NEW new \in CheckType, checking' = [checking EXCEPT ![r] = new],
             dismissing' = dismissing, versionAlone => checking[r].pc # "idle" \/ NobodyAtWork,
             versionAlone => /\ ~announced'.again
                             /\ new.pc = "idle" => NoticeDue(versionFile'.data) = expected' /\ versionFile'.data.latest = announced'.last
                             /\ CheckHolds(r)',
             versionAlone' => versionAlone
      PROVE  RequestsAlone'
    <2> SUFFICES ASSUME versionAlone' PROVE /\ OneAtWork' /\ ~announced'.again /\ FileHolds'
                                            /\ \A q \in VersionChecks : CheckHolds(q)'
                                            /\ \A q \in Dismissals : DismissalHolds(q)'
        BY DEF RequestsAlone
    <2>1. versionAlone /\ (\A q \in VersionChecks \ {r} : checking[q].pc = "idle") /\ \A q \in Dismissals : dismissing[q].pc = "idle"
        BY <1>1 DEF RequestsAlone, OneAtWork, NobodyAtWork
    <2>2. \A q \in VersionChecks : checking'[q] = IF q = r THEN new ELSE checking[q]
        BY <1>1 DEF VersionTypes
    <2>3. OneAtWork'
        BY <1>1, <2>1, <2>2 DEF OneAtWork
    <2>4. FileHolds'
        BY <1>1, <2>1, <2>2 DEF FileHolds, NobodyAtWork
    <2>5. \A q \in VersionChecks : CheckHolds(q)'
        BY <1>1, <2>1, <2>2 DEF CheckHolds
    <2>6. \A q \in Dismissals : DismissalHolds(q)'
        BY <1>1, <2>1 DEF DismissalHolds
    <2> QED BY <1>1, <2>1, <2>3, <2>4, <2>5, <2>6
<1>2. ASSUME NEW r \in Dismissals, NEW new \in DismissType, dismissing' = [dismissing EXCEPT ![r] = new],
             checking' = checking, announced' = announced,
             versionAlone => dismissing[r].pc # "idle" \/ NobodyAtWork,
             versionAlone => /\ new.pc = "idle" => NoticeDue(versionFile'.data) = expected' /\ versionFile'.data.latest = announced'.last
                             /\ DismissalHolds(r)',
             versionAlone' => versionAlone
      PROVE  RequestsAlone'
    <2> SUFFICES ASSUME versionAlone' PROVE /\ OneAtWork' /\ ~announced'.again /\ FileHolds'
                                            /\ \A q \in VersionChecks : CheckHolds(q)'
                                            /\ \A q \in Dismissals : DismissalHolds(q)'
        BY DEF RequestsAlone
    <2>1. versionAlone /\ (\A q \in Dismissals \ {r} : dismissing[q].pc = "idle") /\ \A q \in VersionChecks : checking[q].pc = "idle"
        BY <1>2 DEF RequestsAlone, OneAtWork, NobodyAtWork
    <2>2. \A q \in Dismissals : dismissing'[q] = IF q = r THEN new ELSE dismissing[q]
        BY <1>2 DEF VersionTypes
    <2>3. OneAtWork'
        BY <1>2, <2>1, <2>2 DEF OneAtWork
    <2>4. FileHolds'
        BY <1>2, <2>1, <2>2 DEF FileHolds, NobodyAtWork
    <2>5. \A q \in Dismissals : DismissalHolds(q)'
        BY <1>2, <2>1, <2>2 DEF DismissalHolds
    <2>6. \A q \in VersionChecks : CheckHolds(q)'
        BY <1>2, <2>1 DEF CheckHolds
    <2>7. ~announced'.again
        BY <1>2, <2>1 DEF RequestsAlone
    <2> QED BY <2>3, <2>4, <2>5, <2>6, <2>7
\* The same for what is known: one check or dismissal has new data.
<1>3. ASSUME NEW r \in VersionChecks, NEW new \in CheckType, checking' = [checking EXCEPT ![r] = new],
             dismissing' = dismissing, noticed \subseteq noticed', Known(new.data)', Known(versionFile.data)'
      PROVE  AllKnown'
    <2>1. \A q \in VersionChecks : checking'[q] = IF q = r THEN new ELSE checking[q]
        BY <1>3 DEF VersionTypes
    <2> QED BY <1>3, <2>1 DEF AllKnown, Known
<1>4. ASSUME NEW r \in Dismissals, NEW new \in DismissType, dismissing' = [dismissing EXCEPT ![r] = new],
             checking' = checking, noticed' = noticed, Known(new.data)', Known(versionFile.data)'
      PROVE  AllKnown'
    <2>1. \A q \in Dismissals : dismissing'[q] = IF q = r THEN new ELSE dismissing[q]
        BY <1>4 DEF VersionTypes
    <2> QED BY <1>4, <2>1 DEF AllKnown, Known
<1>5. ASSUME NEW r \in VersionChecks, CheckStarts(r) PROVE VersionInv'
    <2> DEFINE data == versionFile.data
               new == [pc |-> "release", data |-> data, sha |-> runningCommit, found |-> FALSE, before |-> data.latest]
    <2>1. /\ new \in CheckType /\ new.pc = "release" /\ new.data = data /\ ~new.found /\ new.before = data.latest
        BY DEF VersionTypes, VersionFiles, CheckType, NoticeData
    <2>2. checking[r].pc = "idle" /\ checking' = [checking EXCEPT ![r] = new]
        BY <1>0, <1>5 DEF CheckStarts
    <2> HIDE DEF new
    <2>3. VersionTypes'
        <3>1. checking' \in [VersionChecks -> CheckType]
            BY <2>1, <2>2 DEF VersionTypes
        <3>2. versionAlone' \in BOOLEAN
            BY <1>5, Zenon DEF CheckStarts
        <3>3. UNCHANGED <<versionFile, runningCommit, github, dismissing, announced>>
            BY <1>5 DEF CheckStarts
        <3> QED BY <3>1, <3>2, <3>3 DEF VersionTypes
    <2>4. AllKnown'
        BY <1>3, <1>5, <2>1, <2>2 DEF CheckStarts, AllKnown, Known
    <2>5. RequestsAlone'
        <3>1. CASE ~(versionAlone /\ NobodyAtWork)
            BY <1>5, <3>1 DEF CheckStarts, RequestsAlone, VersionTypes
        <3>2. CASE versionAlone /\ NobodyAtWork
            <4>1. NoticeDue(data) = expected /\ data.latest = announced.last /\ ~announced.again
                BY <3>2 DEF RequestsAlone, FileHolds
            <4>2. checking'[r] = new
                BY <2>2 DEF VersionTypes
            <4>3. CheckHolds(r)'
                BY <1>5, <2>1, <4>1, <4>2 DEF CheckHolds, CheckStarts
            <4> QED BY <1>1, <1>5, <2>1, <2>2, <3>2, <4>1, <4>3 DEF CheckStarts
        <3> QED BY <3>1, <3>2
    <2> QED BY <2>3, <2>4, <2>5
<1>6. ASSUME NEW r \in VersionChecks, NEW type \in {"release", "commit"}, NEW version \in Int,
             checking[r].pc \in {"release", "commit"}, Finds(r, type, version),
             UNCHANGED <<versionFile, runningCommit, github, dismissing, announced, versionAlone>>
      PROVE  VersionInv'
    <2> DEFINE data == Found(checking[r].data, type, version)  notice == [type |-> type, version |-> version]
               new == [checking[r] EXCEPT !.pc = "save", !.data = data, !.found = TRUE]
    <2>1. data \in NoticeData /\ data.available /\ ~data.dismissed /\ data.type = type /\ data.latest = version
        BY DEF Found, NoticeData
    <2>2. new \in CheckType /\ new.pc = "save" /\ new.data = data /\ new.found /\ new.before = checking[r].before
        BY <2>1 DEF VersionTypes, CheckType
    <2>3. checking' = [checking EXCEPT ![r] = new] /\ expected' = notice /\ noticed' = noticed \cup {notice}
        BY <1>6 DEF Finds, VersionTypes
    <2>4. NoticeDue(data) = notice
        BY <2>1 DEF NoticeDue
    <2> HIDE DEF new, data
    <2>5. VersionTypes'
        BY <1>6, <2>2, <2>3 DEF VersionTypes
    <2>6. AllKnown'
        BY <1>3, <1>6, <2>1, <2>2, <2>3 DEF AllKnown, Known
    <2>7. checking'[r] = new
        BY <2>3 DEF VersionTypes
    <2>8. versionAlone => CheckHolds(r) /\ ~announced.again
        BY DEF RequestsAlone
    <2>9. versionAlone => CheckHolds(r)'
        <3>1. NoticeDue(checking'[r].data) = expected'
            BY <2>2, <2>3, <2>4, <2>7 DEF NoticeDue
        <3> QED BY <1>6, <2>2, <2>7, <2>8, <3>1 DEF CheckHolds, NoticeDue
    <2>10. RequestsAlone'
        BY <1>1, <1>6, <2>2, <2>3, <2>8, <2>9
    <2> QED BY <2>5, <2>6, <2>10
\* A check that goes on with what it holds, or with the notice withdrawn.
<1>7. ASSUME NEW r \in VersionChecks, NEW new \in CheckType, checking' = [checking EXCEPT ![r] = new],
             checking[r].pc \in {"release", "commit"}, new.pc \in {"commit", "save"},
             new.found = checking[r].found, new.before = checking[r].before, new.data.latest = checking[r].data.latest,
             UNCHANGED <<versionFile, runningCommit, github, dismissing, announced, noticed, versionAlone>>,
             \/ new.data = checking[r].data /\ expected' = expected
             \/ ~new.data.available /\ expected' = NoNotice
      PROVE  VersionInv'
    <2>1. checking'[r] = new
        BY <1>7 DEF VersionTypes
    <2>2. VersionTypes'
        BY <1>7 DEF VersionTypes
    <2>3. AllKnown'
        BY <1>3, <1>7 DEF AllKnown, Known
    <2>4. versionAlone => CheckHolds(r) /\ ~announced.again
        BY DEF RequestsAlone
    <2>5. versionAlone => CheckHolds(r)'
        <3>1. versionAlone => NoticeDue(new.data) = expected'
            BY <1>7, <2>4 DEF CheckHolds, NoticeDue
        <3>2. versionAlone => NoticeDue(checking'[r].data)= expected'
            BY <2>1, <3>1 DEF NoticeDue
        <3> QED BY <1>7, <2>1, <2>4, <3>2 DEF CheckHolds, NoticeDue
    <2>6. RequestsAlone'
        BY <1>1, <1>7, <2>4, <2>5
    <2> QED BY <2>2, <2>3, <2>6
<1>8. ASSUME NEW r \in VersionChecks, ReleaseAnswers(r) PROVE VersionInv'
    <2>1. CASE Finds(r, "release", Tag(github.release))
        <3>1. Tag(github.release) \in Int
            BY DEF VersionTypes, Tag
        <3> QED BY <1>6, <1>8, <2>1, <3>1 DEF ReleaseAnswers
    <2>2. CASE checking' = [checking EXCEPT ![r].pc = "commit"] /\ UNCHANGED <<expected, noticed>>
        <3> DEFINE new == [checking[r] EXCEPT !.pc = "commit"]
        <3>1. /\ new \in CheckType /\ new.pc = "commit" /\ new.found = checking[r].found /\ new.before = checking[r].before
              /\ new.data = checking[r].data
            BY DEF VersionTypes, CheckType
        <3>2. checking' = [checking EXCEPT ![r] = new]
            BY <2>2 DEF VersionTypes
        <3> HIDE DEF new
        <3> QED BY <1>7, <1>8, <2>2, <3>1, <3>2 DEF ReleaseAnswers
    <2> QED BY <1>8, <2>1, <2>2 DEF ReleaseAnswers
<1>9. ASSUME NEW r \in VersionChecks, CommitAnswers(r) PROVE VersionInv'
    <2>1. CASE Finds(r, "commit", github.head)
        <3>1. github.head \in Int
            BY DEF VersionTypes
        <3> QED BY <1>6, <1>9, <2>1, <3>1 DEF CommitAnswers
    <2>2. CASE /\ checking' = [checking EXCEPT ![r].pc = "save", ![r].data.available = FALSE, ![r].data.type = "none"]
               /\ expected' = NoNotice /\ UNCHANGED noticed
        <3> DEFINE data == [checking[r].data EXCEPT !.available = FALSE, !.type = "none"]
                   new == [checking[r] EXCEPT !.pc = "save", !.data = data]
        <3>1. checking[r] \in CheckType /\ checking[r].data \in NoticeData
            BY DEF VersionTypes, CheckType
        <3>2. data \in NoticeData /\ ~data.available /\ data.latest = checking[r].data.latest
            BY <3>1 DEF NoticeData
        <3>3. checking' = [checking EXCEPT ![r] = new]
            BY <2>2, <3>1 DEF VersionTypes, CheckType, NoticeData
        <3> HIDE DEF data
        <3>4. /\ new \in CheckType /\ new.pc = "save" /\ new.found = checking[r].found /\ new.before = checking[r].before
              /\ new.data = data
            BY <3>1, <3>2 DEF CheckType
        <3> HIDE DEF new
        <3> QED BY <1>7, <1>9, <2>2, <3>2, <3>3, <3>4 DEF CommitAnswers
    <2> QED BY <1>9, <2>1, <2>2 DEF CommitAnswers
<1>10. ASSUME NEW r \in VersionChecks, VersionCheckFails(r) PROVE VersionInv'
    <2> DEFINE new == [checking[r] EXCEPT !.pc = "save"]
    <2>1. /\ new \in CheckType /\ new.pc = "save" /\ new.found = checking[r].found /\ new.before = checking[r].before
          /\ new.data = checking[r].data
        BY DEF VersionTypes, CheckType
    <2>2. checking' = [checking EXCEPT ![r] = new]
        BY <1>10 DEF VersionCheckFails, VersionTypes
    <2> HIDE DEF new
    <2> QED BY <1>7, <1>10, <2>1, <2>2 DEF VersionCheckFails
<1>11. ASSUME NEW r \in VersionChecks, CheckOpens(r) PROVE VersionInv'
    <2> DEFINE new == [checking[r] EXCEPT !.pc = "write"]
    <2>1. /\ new \in CheckType /\ new.pc = "write" /\ new.found = checking[r].found /\ new.before = checking[r].before
          /\ new.data = checking[r].data
        BY DEF VersionTypes, CheckType
    <2>2. checking' = [checking EXCEPT ![r] = new] /\ versionFile' = CutShort
        BY <1>11 DEF CheckOpens, VersionTypes
    <2> HIDE DEF new
    <2>3. VersionTypes'
        BY <1>11, <2>1, <2>2, VersionRecords DEF CheckOpens, VersionTypes
    <2>4. AllKnown'
        BY <1>3, <1>11, <2>1, <2>2, VersionRecords DEF CheckOpens, AllKnown, Known
    <2>5. checking'[r] = new
        BY <2>2 DEF VersionTypes
    <2>6. versionAlone => CheckHolds(r) /\ ~announced.again
        BY DEF RequestsAlone
    <2>7. versionAlone => CheckHolds(r)'
        <3>1. versionAlone => NoticeDue(checking'[r].data) = expected'
            BY <1>11, <2>1, <2>5, <2>6 DEF CheckHolds, NoticeDue, CheckOpens
        <3> QED BY <1>11, <2>1, <2>2, <2>5, <2>6, <3>1 DEF CheckHolds, NoticeDue, CheckOpens
    <2>8. RequestsAlone'
        BY <1>1, <1>11, <2>1, <2>2, <2>6, <2>7 DEF CheckOpens
    <2> QED BY <2>3, <2>4, <2>8
<1>12. ASSUME NEW r \in VersionChecks, CheckWrites(r) PROVE VersionInv'
    <2> DEFINE data == checking[r].data
               new == IF checking[r].found THEN [checking[r] EXCEPT !.pc = "announce"] ELSE NotChecking
    <2>1. checking[r] \in CheckType /\ data \in NoticeData
        BY DEF VersionTypes, CheckType
    <2>2. /\ new \in CheckType /\ Known(new.data) /\ new.pc \in {"idle", "announce"}
          /\ new.pc = "idle" <=> ~checking[r].found
          /\ new.pc = "announce" => new.data = data /\ new.before = checking[r].before /\ new.found
        BY <2>1, VersionRecords DEF AllKnown, Known, CheckType
    <2>3. checking' = [checking EXCEPT ![r] = new] /\ versionFile' \in {VersionText(data), CutShort}
        BY <1>12 DEF CheckWrites, WrittenInto, VersionTypes
    <2> HIDE DEF new
    <2>4. VersionTypes'
        BY <1>12, <2>1, <2>2, <2>3, VersionRecords, TextsHoldData DEF CheckWrites, VersionTypes
    <2>5. AllKnown'
        <3>1. Known(data) /\ (versionFile'.data = data \/ versionFile'.data = NoData)
            BY <2>1, <2>3, VersionRecords, TextsHoldData DEF AllKnown
        <3>2. Known(versionFile'.data)
            BY <3>1, VersionRecords DEF Known
        <3> QED BY <1>3, <1>12, <2>2, <2>3, <3>2 DEF CheckWrites, Known
    <2>6. checking'[r] = new
        BY <2>3 DEF VersionTypes
    <2>7. versionAlone => CheckHolds(r) /\ ~announced.again
        BY DEF RequestsAlone
    <2>8. versionAlone => /\ versionFile' = VersionText(data) /\ versionFile'.data = data /\ NoticeDue(data) = expected
                          /\ checking[r].before = announced.last /\ (~checking[r].found => data.latest = announced.last)
        BY <1>12, <2>1, <2>7, TextsHoldData DEF CheckHolds, CheckWrites, WrittenInto
    <2>9. versionAlone => CheckHolds(r)'
        BY <1>12, <2>2, <2>6, <2>8 DEF CheckHolds, CheckWrites, NoticeDue
    <2>10. versionAlone /\ new.pc = "idle" => NoticeDue(versionFile'.data) = expected' /\ versionFile'.data.latest = announced'.last
        BY <1>12, <2>2, <2>8 DEF CheckWrites, NoticeDue
    <2>11. RequestsAlone'
        BY <1>1, <1>12, <2>2, <2>3, <2>7, <2>9, <2>10 DEF CheckWrites
    <2> QED BY <2>4, <2>5, <2>11
<1>13. ASSUME NEW r \in VersionChecks, Announces(r) PROVE VersionInv'
    <2> DEFINE data == checking[r].data
    <2>1. checking[r] \in CheckType /\ data \in NoticeData /\ data.latest \in Int
        BY DEF VersionTypes, CheckType, NoticeData
    <2>2. checking' = [checking EXCEPT ![r] = NotChecking] /\ checking'[r] = NotChecking
        BY <1>13 DEF Announces, VersionTypes
    <2>3. announced' = IF data.latest = checking[r].before THEN announced
                       ELSE [last |-> data.latest, again |-> announced.again \/ data.latest = announced.last]
        BY <1>13 DEF Announces
    <2>4. announced' \in [last : Int, again : BOOLEAN]
        BY <2>1, <2>3 DEF VersionTypes
    <2>5. VersionTypes'
        BY <1>13, <2>2, <2>4, VersionRecords DEF Announces, VersionTypes
    <2>6. AllKnown'
        BY <1>3, <1>13, <2>2, VersionRecords DEF Announces, AllKnown, Known
    <2>7. versionAlone => /\ ~announced.again /\ checking[r].before = announced.last
                          /\ NoticeDue(data) = expected /\ versionFile = VersionText(data)
        BY <1>13 DEF Announces, RequestsAlone, CheckHolds
    <2>8. versionAlone => ~announced'.again /\ announced'.last = data.latest
        BY <2>1, <2>3, <2>7 DEF VersionTypes
    <2>9. versionAlone => NoticeDue(versionFile'.data) = expected' /\ versionFile'.data.latest = announced'.last
        BY <1>13, <2>1, <2>7, <2>8, TextsHoldData DEF Announces, NoticeDue
    <2>10. CheckHolds(r)'
        BY <2>2, VersionRecords DEF CheckHolds
    <2>11. RequestsAlone'
        BY <1>1, <1>13, <2>2, <2>8, <2>9, <2>10, VersionRecords DEF Announces
    <2> QED BY <2>5, <2>6, <2>11
<1>14. ASSUME NEW r \in Dismissals, DismissLoads(r) PROVE VersionInv'
    <2> DEFINE data == [versionFile.data EXCEPT !.dismissed = TRUE]  new == [pc |-> "save", data |-> data]
    <2>1. versionFile.data \in NoticeData
        BY DEF VersionTypes, VersionFiles
    <2>2. /\ data \in NoticeData /\ data.dismissed /\ data.latest = versionFile.data.latest
          /\ data.available = versionFile.data.available /\ data.type = versionFile.data.type
        BY <2>1 DEF NoticeData
    <2>3. dismissing' = [dismissing EXCEPT ![r] = new] /\ dismissing[r].pc = "idle"
        BY <1>0, <1>14 DEF DismissLoads
    <2> HIDE DEF data
    <2>4. new \in DismissType /\ new.pc = "save" /\ new.data = data
        BY <2>2 DEF DismissType
    <2> HIDE DEF new
    <2>5. VersionTypes'
        <3>1. dismissing' \in [Dismissals -> DismissType]
            BY <2>3, <2>4 DEF VersionTypes
        <3>2. versionAlone' \in BOOLEAN
            BY <1>14, Zenon DEF DismissLoads
        <3>3. UNCHANGED <<versionFile, runningCommit, github, checking, announced>>
            BY <1>14 DEF DismissLoads
        <3> QED BY <3>1, <3>2, <3>3 DEF VersionTypes
    <2>6. AllKnown'
        BY <1>4, <1>14, <2>2, <2>3, <2>4 DEF DismissLoads, AllKnown, Known
    <2>7. RequestsAlone'
        <3>1. CASE ~(versionAlone /\ NobodyAtWork)
            BY <1>14, <3>1 DEF DismissLoads, RequestsAlone, VersionTypes
        <3>2. CASE versionAlone /\ NobodyAtWork
            <4>1. versionFile.data.latest = announced.last
                BY <3>2 DEF RequestsAlone, FileHolds
            <4>2. dismissing'[r] = new
                BY <2>3 DEF VersionTypes
            <4>3. DismissalHolds(r)'
                BY <1>14, <2>2, <2>4, <4>1, <4>2 DEF DismissalHolds, DismissLoads
            <4> QED BY <1>2, <1>14, <2>3, <2>4, <3>2, <4>3 DEF DismissLoads
        <3> QED BY <3>1, <3>2
    <2> QED BY <2>5, <2>6, <2>7
<1>15. ASSUME NEW r \in Dismissals, DismissOpens(r) PROVE VersionInv'
    <2> DEFINE new == [dismissing[r] EXCEPT !.pc = "write"]
    <2>1. new \in DismissType /\ new.pc = "write" /\ new.data = dismissing[r].data
        BY DEF VersionTypes, DismissType
    <2>2. dismissing' = [dismissing EXCEPT ![r] = new] /\ versionFile' = CutShort
        BY <1>15 DEF DismissOpens, VersionTypes
    <2> HIDE DEF new
    <2>3. VersionTypes'
        BY <1>15, <2>1, <2>2, VersionRecords DEF DismissOpens, VersionTypes
    <2>4. AllKnown'
        <3>1. noticed' = noticed /\ checking' = checking
            BY <1>15 DEF DismissOpens
        <3>2. new.data.available => [type |-> new.data.type, version |-> new.data.latest] \in noticed'
            BY <2>1, <3>1 DEF AllKnown, Known
        <3>3. ~versionFile'.data.available
            BY <2>2, VersionRecords
        <3> QED BY <1>4, <2>1, <2>2, <3>1, <3>2, <3>3 DEF Known
    <2>5. dismissing'[r] = new
        BY <2>2 DEF VersionTypes
    <2>6. versionAlone => DismissalHolds(r)'
        BY <1>15, <2>1, <2>2, <2>5 DEF RequestsAlone, DismissalHolds, DismissOpens
    <2>7. RequestsAlone'
        BY <1>2, <1>15, <2>1, <2>2, <2>6 DEF DismissOpens
    <2> QED BY <2>3, <2>4, <2>7
<1>16. ASSUME NEW r \in Dismissals, DismissWrites(r) PROVE VersionInv'
    <2> DEFINE data == dismissing[r].data
    <2>1. data \in NoticeData
        BY DEF VersionTypes, DismissType
    <2>2. /\ dismissing' = [dismissing EXCEPT ![r] = NotDismissing] /\ dismissing'[r] = NotDismissing
          /\ versionFile' \in {VersionText(data), CutShort}
        BY <1>16 DEF DismissWrites, WrittenInto, VersionTypes
    <2>3. VersionTypes'
        BY <1>16, <2>1, <2>2, VersionRecords, TextsHoldData DEF DismissWrites, VersionTypes
    <2>4. AllKnown'
        <3>1. Known(data) /\ (versionFile'.data = data \/ versionFile'.data = NoData)
            BY <2>1, <2>2, VersionRecords, TextsHoldData DEF AllKnown
        <3>2. Known(versionFile'.data)
            BY <3>1, VersionRecords DEF Known
        <3> QED BY <1>4, <1>16, <2>2, <3>2, VersionRecords DEF DismissWrites, Known
    <2>5. versionAlone => /\ versionFile' = VersionText(data) /\ versionFile'.data = data
                          /\ data.dismissed /\ data.latest = announced.last /\ expected = NoNotice
        BY <1>16, <2>1, TextsHoldData DEF RequestsAlone, DismissalHolds, DismissWrites, WrittenInto
    <2>6. versionAlone => NoticeDue(versionFile'.data) = expected' /\ versionFile'.data.latest = announced'.last
        BY <1>16, <2>5 DEF DismissWrites, NoticeDue
    <2>7. DismissalHolds(r)'
        BY <2>2, VersionRecords DEF DismissalHolds
    <2>8. RequestsAlone'
        BY <1>2, <1>16, <2>2, <2>6, <2>7, VersionRecords DEF DismissWrites
    <2> QED BY <2>3, <2>4, <2>8
<1>17. CASE Pushed \/ Released
    <2>1. github' \in [head : Nat, release : Nat, target : Nat]
        <3>1. github \in [head : Nat, release : Nat, target : Nat] /\ github.head \in Nat /\ github.release \in Nat
            BY DEF VersionTypes
        <3>2. CASE Pushed
            BY <3>1, <3>2 DEF Pushed
        <3>3. CASE Released
            <4>1. PICK target \in {github.head, 0} : github' = [github EXCEPT !.release = @ + 1, !.target = target]
                BY <3>3 DEF Released
            <4>2. target \in Nat /\ github.release + 1 \in Nat
                BY <3>1
            <4> QED BY <3>1, <4>1, <4>2
        <3> QED BY <1>17, <3>2, <3>3
    <2>2. UNCHANGED <<versionFile, runningCommit, checking, dismissing, announced, noticed, expected, versionAlone>>
        BY <1>17 DEF Pushed, Released
    <2> QED BY <2>1, <2>2 DEF VersionTypes, AllKnown, Known, RequestsAlone, OneAtWork, CheckHolds, DismissalHolds, FileHolds,
                            NobodyAtWork, NoticeDue
<1>18. CASE VersionRestart
    <2>1. /\ \A r \in VersionChecks : checking'[r] = NotChecking
          /\ \A r \in Dismissals : dismissing'[r] = NotDismissing
        BY <1>18 DEF VersionRestart
    <2>2. runningCommit' \in Nat
        BY <1>18 DEF VersionRestart, VersionTypes
    <2>3. VersionTypes'
        BY <1>18, <2>2, VersionRecords DEF VersionRestart, VersionTypes
    <2>4. AllKnown'
        BY <1>18, <2>1, VersionRecords DEF VersionRestart, AllKnown, Known
    <2>5. RequestsAlone'
        <3>1. versionAlone' => versionAlone /\ NobodyAtWork
            BY <1>18 DEF VersionRestart
        <3>2. versionAlone' => FileHolds' /\ ~announced'.again
            BY <1>18, <3>1 DEF VersionRestart, RequestsAlone, FileHolds, NoticeDue
        <3> QED BY <2>1, <3>2, VersionRecords DEF RequestsAlone, OneAtWork, CheckHolds, DismissalHolds
    <2> QED BY <2>3, <2>4, <2>5
<1>19. CASE UNCHANGED versionVars
    BY <1>19 DEF versionVars, VersionTypes, AllKnown, Known, RequestsAlone, OneAtWork, CheckHolds, DismissalHolds, FileHolds,
                 NobodyAtWork, NoticeDue
<1> QED BY <1>5, <1>8, <1>9, <1>10, <1>11, <1>12, <1>13, <1>14, <1>15, <1>16, <1>17, <1>18, <1>19 DEF VersionNext

LEMMA HeldNoticesAreTrue == VersionInv => NoticesAreTrue
<1> SUFFICES ASSUME VersionInv PROVE NoticesAreTrue
    OBVIOUS
<1>1. Notice(versionFile) = NoticeDue(versionFile.data)
    BY LoadsTheData DEF VersionInv, Notice, NoticeDue
<1> QED BY <1>1 DEF VersionInv, AllKnown, Known, RequestsAlone, FileHolds, NoticeDue, NoticesAreTrue

(* A notice is of a version that a check of version_manager.py found,         *)
(* although check_for_updates() and dismissals save what they loaded          *)
(* earlier; alone, they show what the last check found and nobody dismissed.  *)
THEOREM NoticesStayTrue == VersionSpec => []NoticesAreTrue
<1>1. VersionSpec => []VersionInv
    BY VersionStarts, VersionSteps, PTL DEF VersionSpec
<1> QED BY <1>1, HeldNoticesAreTrue, PTL

-----------------------------------------------------------------------------
(* The token of monitoring systems.                                           *)
TokenRequest == [pc : {"idle", "token", "missed", "write", "has", "let in"}, kind : {"page", "monitor", "admin"},
                 presented : Int, mine : Nat, old : SUBSET Int]
TokenTypes ==
    /\ made \in Nat /\ tokenFile \in Int /\ shownToken \in Nat /\ tokenAlone \in BOOLEAN
    /\ tokenFile \in {NoTokenFile, Blank} \cup 1..made
    /\ retired \in SUBSET (1..made)
    /\ asking \in [Askers -> TokenRequest]

(* A token is written by whoever made it and by nobody else: what is in the   *)
(* file or about to be written was never replaced.                            *)
TokensAreFresh ==
    /\ tokenFile \notin retired
    /\ \A r \in Askers : asking[r].pc = "write" =>
           asking[r].mine \in 1..made /\ asking[r].mine # tokenFile /\ asking[r].mine \notin retired
    /\ \A r, q \in Askers : asking[r].pc = "write" /\ asking[q].pc = "write" /\ asking[r].mine = asking[q].mine => r = q
MonitorIsCurrent ==
    \A r \in Askers : asking[r].kind = "monitor" =>
        /\ asking[r].old \subseteq retired
        /\ asking[r].pc \in {"write", "has"} => asking[r].mine \notin asking[r].old
        /\ asking[r].pc = "let in" => asking[r].presented \notin asking[r].old

(* While requests come to the token one at a time.                            *)
TokenHeld ==
    tokenAlone =>
        /\ \A r, q \in Askers : AtToken(r) /\ AtToken(q) => r = q
        /\ (\A r \in Askers : asking[r].pc # "write") => shownToken \in {0, tokenFile}
        /\ \A r \in Askers : /\ asking[r].pc = "write" => shownToken = 0
                             /\ asking[r].pc = "missed" => tokenFile \in {NoTokenFile, Blank}
                             /\ asking[r].pc = "has" => asking[r].mine = tokenFile

TokenInv == TokenTypes /\ TokensAreFresh /\ MonitorIsCurrent /\ TokenHeld

LEMMA IdleAsks == NotAsking \in TokenRequest /\ NotAsking.pc = "idle" /\ NotAsking.kind = "page" /\ NotAsking.old = {}
    BY DEF NotAsking, TokenRequest

LEMMA TokenStarts == MonitoringInit => TokenInv
<1> SUFFICES ASSUME MonitoringInit PROVE TokenInv
    OBVIOUS
<1>1. \A r \in Askers : asking[r].pc = "idle" /\ asking[r].kind = "page"
    BY IdleAsks DEF MonitoringInit
<1>2. TokenTypes
    BY IdleAsks DEF MonitoringInit, TokenTypes, NoTokenFile
<1>3. TokensAreFresh /\ MonitorIsCurrent /\ TokenHeld
    BY <1>1 DEF MonitoringInit, TokensAreFresh, MonitorIsCurrent, TokenHeld, AtToken
<1> QED BY <1>2, <1>3 DEF TokenInv

LEMMA TokenSteps == TokenInv /\ [MonitoringNext]_monitoringVars => TokenInv'
<1> SUFFICES ASSUME TokenInv, [MonitoringNext]_monitoringVars PROVE TokenInv'
    OBVIOUS
<1> USE DEF TokenInv
\* A step of one request that leaves the file and the tokens alone.
<1>1. ASSUME NEW r \in Askers, NEW new \in TokenRequest, asking' = [asking EXCEPT ![r] = new],
             UNCHANGED <<tokenFile, made, retired>>, new.pc # "write", shownToken' \in Nat, tokenAlone' \in BOOLEAN,
             new.kind = "monitor" => /\ new.old \subseteq retired
                                     /\ new.pc = "has" => new.mine \notin new.old
                                     /\ new.pc = "let in" => new.presented \notin new.old,
             tokenAlone' => /\ tokenAlone /\ (new.pc \in {"token", "missed", "has"} => AtToken(r) \/ \A q \in Askers : ~AtToken(q))
                            /\ shownToken' \in {shownToken, tokenFile} /\ asking[r].pc # "write"
                            /\ new.pc = "missed" => tokenFile \in {NoTokenFile, Blank}
                            /\ new.pc = "has" => new.mine = tokenFile
                            /\ shownToken' # shownToken => asking[r].pc = "has"
      PROVE  TokenInv'
    <2>1. \A q \in Askers : asking'[q] = IF q = r THEN new ELSE asking[q]
        BY <1>1 DEF TokenTypes
    <2>2. TokenTypes'
        BY <1>1 DEF TokenTypes
    <2>3. TokensAreFresh'
        <3>1. \A q \in Askers : asking'[q].pc = "write" => asking'[q] = asking[q] /\ asking[q].pc = "write"
            BY <1>1, <2>1
        <3>2. UNCHANGED <<tokenFile, made, retired>>
            BY <1>1
        <3> QED BY <3>1, <3>2 DEF TokensAreFresh
    <2>4. MonitorIsCurrent'
        BY <1>1, <2>1 DEF MonitorIsCurrent
    <2>5. TokenHeld'
        <3> SUFFICES ASSUME tokenAlone' PROVE TokenHeld'
            BY DEF TokenHeld
        <3>1. tokenAlone /\ asking[r].pc # "write"
            BY <1>1
        <3>2. \A q \in Askers : AtToken(q)' => AtToken(q) \/ (q = r /\ \A p \in Askers : ~AtToken(p))
            BY <1>1, <2>1 DEF AtToken
        <3>3. \A p, q \in Askers : AtToken(p)' /\ AtToken(q)' => p = q
            BY <3>1, <3>2 DEF TokenHeld
        <3>4. (\A q \in Askers : asking'[q].pc # "write") => shownToken' \in {0, tokenFile'}
            BY <1>1, <2>1, <3>1 DEF TokenHeld
        <3>5. ASSUME NEW q \in Askers
              PROVE  /\ asking'[q].pc = "write" => shownToken' = 0
                     /\ asking'[q].pc = "missed" => tokenFile' \in {NoTokenFile, Blank}
                     /\ asking'[q].pc = "has" => asking'[q].mine = tokenFile'
            <4>1. CASE q = r
                BY <1>1, <2>1, <4>1
            <4>2. CASE q # r
                <5>1. asking'[q] = asking[q]
                    BY <2>1, <4>2
                <5>2. asking[q].pc = "write" => shownToken' = shownToken
                    BY <1>1, <3>1, <4>2 DEF TokenHeld, AtToken
                <5> QED BY <1>1, <3>1, <5>1, <5>2 DEF TokenHeld
            <4> QED BY <4>1, <4>2
        <3> QED BY <3>3, <3>4, <3>5 DEF TokenHeld
    <2> QED BY <2>2, <2>3, <2>4, <2>5
<1>2. ASSUME NEW r \in Askers, Asks(r) PROVE TokenInv'
    <2>1. \A t \in 1..made : t \in Int
        BY DEF TokenTypes
    <2>2. retired \in SUBSET Int
        BY DEF TokenTypes
    <2>3. PICK new \in TokenRequest : /\ asking' = [asking EXCEPT ![r] = new] /\ new.pc = "token"
                                      /\ new.kind = "monitor" => new.old = retired
        <3>1. CASE asking' = [asking EXCEPT ![r] = [NotAsking EXCEPT !.pc = "token"]]
            <4> DEFINE new == [NotAsking EXCEPT !.pc = "token"]
            <4>1. new \in TokenRequest /\ new.pc = "token" /\ new.kind = "page"
                BY IdleAsks DEF TokenRequest
            <4> HIDE DEF new
            <4> QED BY <3>1, <4>1 DEF new
        <3>2. ASSUME NEW t \in 1..made, asking' = [asking EXCEPT ![r] = [NotAsking EXCEPT !.pc = "token", !.kind = "monitor",
                                                                          !.presented = t, !.old = retired]]
              PROVE  \E new \in TokenRequest : /\ asking' = [asking EXCEPT ![r] = new] /\ new.pc = "token"
                                               /\ new.kind = "monitor" => new.old = retired
            <4> DEFINE new == [NotAsking EXCEPT !.pc = "token", !.kind = "monitor", !.presented = t, !.old = retired]
            <4>1. new \in TokenRequest /\ new.pc = "token" /\ new.old = retired
                BY <2>1, <2>2, IdleAsks DEF TokenRequest
            <4> HIDE DEF new
            <4> QED BY <3>2, <4>1 DEF new
        <3> QED BY <1>2, <3>1, <3>2 DEF Asks
    <2> QED BY <1>1, <1>2, <2>3 DEF Asks, TokenTypes
<1>3. ASSUME NEW r \in Askers, ReadsToken(r) PROVE TokenInv'
    <2> DEFINE new == IF tokenFile > 0 THEN [asking[r] EXCEPT !.pc = "has", !.mine = tokenFile] ELSE [asking[r] EXCEPT !.pc = "missed"]
    <2>1. /\ new \in TokenRequest /\ new.pc \in {"has", "missed"} /\ new.kind = asking[r].kind /\ new.old = asking[r].old
          /\ new.pc = "has" => new.mine = tokenFile
          /\ new.pc = "missed" => ~(tokenFile > 0)
        <3>1. asking[r] \in TokenRequest /\ (tokenFile > 0 => tokenFile \in Nat)
            BY DEF TokenTypes
        <3>2. CASE tokenFile > 0
            BY <3>1, <3>2 DEF TokenRequest
        <3>3. CASE ~(tokenFile > 0)
            BY <3>1, <3>3 DEF TokenRequest
        <3> QED BY <3>2, <3>3
    <2>2. asking' = [asking EXCEPT ![r] = new] /\ asking[r].pc = "token"
        BY <1>3 DEF ReadsToken
    <2> HIDE DEF new
    <2>3. ~(tokenFile > 0) => tokenFile \in {NoTokenFile, Blank}
        BY DEF TokenTypes
    <2>4. new.kind = "monitor" => new.old \subseteq retired /\ tokenFile \notin new.old
        BY <2>1 DEF MonitorIsCurrent, TokensAreFresh
    <2> QED BY <1>1, <1>3, <2>1, <2>2, <2>3, <2>4 DEF ReadsToken, TokenTypes, AtToken
\* A new token: the file is truncated.
<1>4. ASSUME NEW r \in Askers, NEW new \in TokenRequest, OpensToken, asking' = [asking EXCEPT ![r] = new],
             new.pc = "write", new.mine = made', asking[r].pc # "write",
             new.kind = "monitor" => new.old \subseteq retired, shownToken' \in {0, shownToken},
             tokenAlone' \in BOOLEAN,
             tokenAlone' => tokenAlone /\ (AtToken(r) \/ \A q \in Askers : ~AtToken(q)) /\ shownToken' = 0
      PROVE  TokenInv'
    <2>1. \A q \in Askers : asking'[q] = IF q = r THEN new ELSE asking[q]
        BY <1>4 DEF TokenTypes
    <2>2. /\ made \in Nat /\ made' = made + 1 /\ made' \notin 1..made /\ 1..made \subseteq 1..made' /\ made' \in 1..made'
          /\ tokenFile' = Blank /\ Blank \notin 1..made'
        BY <1>4 DEF OpensToken, TokenTypes, Blank
    <2>3. retired \subseteq retired' /\ retired' \subseteq 1..made /\ retired' \subseteq retired \cup {tokenFile}
        BY <1>4 DEF OpensToken, Replaced, TokenTypes, NoTokenFile, Blank
    <2>4. TokenTypes'
        <3>1. made' \in Nat /\ tokenFile' = Blank /\ tokenFile' \in Int
            BY <2>2 DEF Blank
        <3>2. retired' \in SUBSET (1..made')
            BY <2>2, <2>3
        <3>3. asking' \in [Askers -> TokenRequest]
            BY <1>4 DEF TokenTypes
        <3>4. shownToken' \in Nat /\ tokenAlone' \in BOOLEAN
            BY <1>4 DEF TokenTypes
        <3> QED BY <3>1, <3>2, <3>3, <3>4 DEF TokenTypes
    <2>5. TokensAreFresh'
        <3>1. Blank \notin retired'
            BY <2>2, <2>3
        <3>2. \A q \in Askers : asking'[q].pc = "write" =>
                  asking'[q].mine \in 1..made' /\ asking'[q].mine # Blank /\ asking'[q].mine \notin retired'
            BY <1>4, <2>1, <2>2, <2>3 DEF TokensAreFresh
        <3>3. \A p, q \in Askers : asking'[p].pc = "write" /\ asking'[q].pc = "write" /\ asking'[p].mine = asking'[q].mine => p = q
            BY <1>4, <2>1, <2>2 DEF TokensAreFresh
        <3> QED BY <2>2, <3>1, <3>2, <3>3 DEF TokensAreFresh
    <2>6. MonitorIsCurrent'
        <3>1. new.kind = "monitor" => new.mine \notin new.old
            BY <1>4, <2>2, <2>3
        <3> QED BY <1>4, <2>1, <2>3, <3>1 DEF MonitorIsCurrent
    <2>7. TokenHeld'
        <3> SUFFICES ASSUME tokenAlone' PROVE TokenHeld'
            BY DEF TokenHeld
        <3>1. \A q \in Askers \ {r} : ~AtToken(q)
            BY <1>4 DEF TokenHeld
        <3> QED BY <1>4, <2>1, <3>1 DEF TokenHeld, AtToken
    <2> QED BY <2>4, <2>5, <2>6, <2>7
<1>5. ASSUME NEW r \in Askers, MakesToken(r) PROVE TokenInv'
    <2> DEFINE new == [asking[r] EXCEPT !.pc = "write", !.mine = made']
    <2>1. made' \in Nat
        BY <1>5 DEF MakesToken, OpensToken, TokenTypes
    <2>2. /\ new \in TokenRequest /\ new.pc = "write" /\ new.mine = made' /\ new.kind = asking[r].kind /\ new.old = asking[r].old
        BY <2>1 DEF TokenTypes, TokenRequest
    <2>3. asking' = [asking EXCEPT ![r] = new] /\ asking[r].pc = "missed" /\ OpensToken /\ UNCHANGED <<shownToken, tokenAlone>>
        BY <1>5 DEF MakesToken, TokenTypes
    <2> HIDE DEF new
    <2>4. tokenAlone => shownToken = 0
        <3>1. tokenAlone => tokenFile \in {0, -1} /\ \A q \in Askers : asking[q].pc # "write"
            BY <2>3 DEF TokenHeld, AtToken, NoTokenFile, Blank
        <3>2. tokenAlone => shownToken \in {0, tokenFile}
            BY <3>1 DEF TokenHeld
        <3> QED BY <3>1, <3>2 DEF TokenTypes
    <2>5. new.kind = "monitor" => new.old \subseteq retired
        BY <2>2 DEF MonitorIsCurrent
    <2>6. shownToken' \in {0, shownToken} /\ tokenAlone' \in BOOLEAN /\ asking[r].pc # "write" /\ AtToken(r)
        BY <2>3 DEF TokenTypes, AtToken
    <2> QED BY <1>4, <2>2, <2>3, <2>4, <2>5, <2>6
<1>6. ASSUME NEW r \in Askers, Regenerates(r) PROVE TokenInv'
    <2> DEFINE new == [NotAsking EXCEPT !.pc = "write", !.kind = "admin", !.mine = made']
    <2>1. made' \in Nat
        BY <1>6 DEF Regenerates, OpensToken, TokenTypes
    <2>2. new \in TokenRequest /\ new.pc = "write" /\ new.mine = made' /\ new.kind = "admin"
        BY <2>1, IdleAsks DEF TokenRequest
    <2>3. asking' = [asking EXCEPT ![r] = new] /\ asking[r].pc = "idle" /\ OpensToken /\ shownToken' = 0
        BY <1>6 DEF Regenerates
    <2>4. tokenAlone' = (tokenAlone /\ \A q \in Askers : ~AtToken(q))
        BY <1>6 DEF Regenerates
    <2>5. /\ tokenAlone' \in BOOLEAN
          /\ tokenAlone' => tokenAlone /\ \A q \in Askers : ~AtToken(q)
        BY <2>4 DEF TokenTypes
    <2> HIDE DEF new
    <2> QED BY <1>4, <2>2, <2>3, <2>5
<1>7. ASSUME NEW r \in Askers, WritesToken(r) PROVE TokenInv'
    <2> DEFINE mine == asking[r].mine
               new == IF asking[r].kind = "admin" THEN NotAsking ELSE [asking[r] EXCEPT !.pc = "has"]
    <2>1. /\ new \in TokenRequest /\ new.pc \in {"idle", "has"}
          /\ new.pc = "has" => new.mine = mine /\ new.kind = asking[r].kind /\ new.old = asking[r].old
          /\ new.pc = "idle" => new.kind = "page"
        BY IdleAsks DEF TokenTypes, TokenRequest
    <2>2. /\ asking' = [asking EXCEPT ![r] = new] /\ asking[r].pc = "write" /\ tokenFile' = mine
          /\ UNCHANGED <<made, shownToken, tokenAlone>>
        BY <1>7 DEF WritesToken, Written
    <2> HIDE DEF new
    <2>3. /\ mine \in 1..made /\ mine # tokenFile /\ mine \notin retired
          /\ \A q \in Askers : asking[q].pc = "write" /\ asking[q].mine = mine => q = r
        BY <2>2 DEF TokensAreFresh
    <2>4. \A q \in Askers : asking'[q] = IF q = r THEN new ELSE asking[q]
        BY <2>2 DEF TokenTypes
    <2>5. retired \subseteq retired' /\ retired' \subseteq retired \cup {tokenFile} /\ retired' \subseteq 1..made
        <3>1. tokenFile > 0 => tokenFile \in 1..made
            BY DEF TokenTypes, NoTokenFile, Blank
        <3> QED BY <1>7, <3>1 DEF WritesToken, Replaced, TokenTypes
    <2>6. TokenTypes'
        <3>1. asking' \in [Askers -> TokenRequest]
            BY <2>1, <2>2 DEF TokenTypes
        <3>2. tokenFile' \in 1..made' /\ tokenFile' \in Int
            BY <2>2, <2>3 DEF TokenTypes
        <3> QED BY <2>2, <2>5, <3>1, <3>2 DEF TokenTypes
    <2>7. TokensAreFresh'
        <3>1. tokenFile' \notin retired'
            BY <2>2, <2>3, <2>5
        <3>2. \A q \in Askers : asking'[q].pc = "write" => q # r /\ asking'[q] = asking[q]
            BY <2>1, <2>4
        <3>3. \A q \in Askers : asking'[q].pc = "write" =>
                  asking'[q].mine \in 1..made' /\ asking'[q].mine # tokenFile' /\ asking'[q].mine \notin retired'
            BY <2>2, <2>3, <2>5, <3>2 DEF TokensAreFresh
        <3>4. \A p, q \in Askers : asking'[p].pc = "write" /\ asking'[q].pc = "write" /\ asking'[p].mine = asking'[q].mine => p = q
            BY <3>2 DEF TokensAreFresh
        <3> QED BY <3>1, <3>3, <3>4 DEF TokensAreFresh
    <2>8. MonitorIsCurrent'
        <3> SUFFICES ASSUME NEW q \in Askers, asking'[q].kind = "monitor"
                     PROVE  /\ asking'[q].old \subseteq retired'
                            /\ asking'[q].pc \in {"write", "has"} => asking'[q].mine \notin asking'[q].old
                            /\ asking'[q].pc = "let in" => asking'[q].presented \notin asking'[q].old
            BY DEF MonitorIsCurrent
        <3>1. CASE q = r
            BY <2>1, <2>2, <2>4, <2>5, <3>1 DEF MonitorIsCurrent
        <3>2. CASE q # r
            BY <2>4, <2>5, <3>2 DEF MonitorIsCurrent
        <3> QED BY <3>1, <3>2
    <2>9. TokenHeld'
        <3> SUFFICES ASSUME tokenAlone PROVE TokenHeld'
            BY <2>2 DEF TokenHeld
        <3>1. shownToken = 0 /\ \A q \in Askers \ {r} : ~AtToken(q)
            BY <2>2 DEF TokenHeld, AtToken
        <3> QED BY <2>1, <2>2, <2>4, <3>1 DEF TokenHeld, AtToken
    <2> QED BY <2>6, <2>7, <2>8, <2>9
<1>8. ASSUME NEW r \in Askers, ShowsToken(r) PROVE TokenInv'
    <2> DEFINE new == [asking[r] EXCEPT !.pc = "let in"]
    <2>1. new \in TokenRequest /\ new.pc = "let in" /\ new.kind = asking[r].kind
        BY DEF TokenTypes, TokenRequest
    <2>2. /\ asking' = [asking EXCEPT ![r] = new] /\ asking[r].pc = "has" /\ asking[r].kind = "page" /\ shownToken' = asking[r].mine
          /\ UNCHANGED <<tokenFile, made, retired, tokenAlone>>
        BY <1>8 DEF ShowsToken, TokenTypes
    <2> HIDE DEF new
    <2>3. tokenAlone => asking[r].mine = tokenFile
        BY <2>2 DEF TokenHeld
    <2>4. shownToken' \in Nat
        BY <2>2 DEF TokenTypes, TokenRequest
    <2> QED BY <1>1, <2>1, <2>2, <2>3, <2>4 DEF TokenTypes
<1>9. ASSUME NEW r \in Askers, ChecksToken(r) PROVE TokenInv'
    <2> DEFINE new == IF asking[r].presented = asking[r].mine THEN [asking[r] EXCEPT !.pc = "let in"] ELSE NotAsking
    <2>1. /\ new \in TokenRequest /\ new.pc \in {"idle", "let in"}
          /\ new.pc = "let in" => new.presented = asking[r].mine /\ new.old = asking[r].old
          /\ new.pc = "idle" => new.kind = "page"
        BY IdleAsks DEF TokenTypes, TokenRequest
    <2>2. /\ asking' = [asking EXCEPT ![r] = new] /\ asking[r].pc = "has" /\ asking[r].kind = "monitor"
          /\ UNCHANGED <<tokenFile, made, retired, tokenAlone, shownToken>>
        BY <1>9 DEF ChecksToken
    <2> HIDE DEF new
    <2>3. asking[r].old \subseteq retired /\ asking[r].mine \notin asking[r].old
        BY <2>2 DEF MonitorIsCurrent
    <2> QED BY <1>1, <2>1, <2>2, <2>3 DEF TokenTypes
<1>10. ASSUME NEW r \in Askers, TellsMonitoring(r) PROVE TokenInv'
    BY <1>1, <1>10, IdleAsks DEF TellsMonitoring, TokenTypes
<1>11. CASE MonitoringRestart
    <2>1. \A r \in Askers : asking'[r] = NotAsking
        BY <1>11 DEF MonitoringRestart
    <2>2. TokenTypes'
        BY <1>11, IdleAsks DEF MonitoringRestart, TokenTypes
    <2>3. TokensAreFresh' /\ MonitorIsCurrent'
        BY <1>11, <2>1, IdleAsks DEF MonitoringRestart, TokensAreFresh, MonitorIsCurrent
    <2>4. TokenHeld'
        BY <1>11, <2>1, IdleAsks DEF MonitoringRestart, TokenHeld, AtToken
    <2> QED BY <2>2, <2>3, <2>4
<1>12. CASE UNCHANGED <<tokenFile, made, asking, shownToken, retired, tokenAlone>>
    BY <1>12 DEF TokenTypes, TokensAreFresh, MonitorIsCurrent, TokenHeld, AtToken
<1> QED BY <1>2, <1>3, <1>5, <1>6, <1>7, <1>8, <1>9, <1>10, <1>11, <1>12 DEF MonitoringNext, DiskSeen, monitoringVars

(* _check_cmk_token() lets nobody in by a token that was replaced before the  *)
(* request came, and the page shows the token in force as long as requests    *)
(* come to the token one at a time.                                           *)
THEOREM TokensStayRight == MonitoringSpec => []TokensAreRight
<1>1. MonitoringSpec => []TokenInv
    BY TokenStarts, TokenSteps, PTL DEF MonitoringSpec
<1>2. TokenInv => TokensAreRight
    BY DEF TokenInv, MonitorIsCurrent, TokenHeld, TokensAreRight, AtToken
<1> QED BY <1>1, <1>2, PTL

-----------------------------------------------------------------------------
(* The disks that fail, as the four answers tell them.                        *)
(* A finite set of numbers has a greatest one: the one with the fewest that   *)
(* are not below it.                                                          *)
LEMMA GreatestOf ==
    ASSUME NEW A, A \subseteq Sources, A # {}
    PROVE  \E s \in A : \A q \in A : q <= s
<1> DEFINE above(s) == {q \in A : q >= s}  all == {above(s) : s \in A}
<1>1. IsFiniteSet(Sources) /\ Sources \subseteq Int
    BY FS_Interval, SourcesAssumption DEF Sources
<1>2. IsFiniteSet(A) /\ A \subseteq Int
    BY <1>1, FS_Subset
<1>3. FiniteSubsetsOf(A) = SUBSET A
    BY <1>2, FS_FiniteSubsetsOfFinite
<1>4. IsWellFoundedOn(StrictSubsetOrdering(A), SUBSET A)
    BY <1>3, FS_StrictSubsetOrderingWellFounded
<1>5. all \subseteq SUBSET A /\ all # {}
    OBVIOUS
<1>6. PICK x \in all : \A y \in all : <<y, x>> \notin StrictSubsetOrdering(A)
    <2> HIDE DEF all
    <2> QED BY <1>4, <1>5, WFMin
<1>7. PICK s \in A : x = above(s)
    OBVIOUS
<1>8. ASSUME NEW q \in A, ~(q <= s) PROVE FALSE
    <2>1. q \in Int /\ s \in Int /\ q >= s /\ q # s /\ ~(s >= q)
        BY <1>2, <1>8
    <2>2. above(q) \subseteq above(s)
        <3>1. \A p \in Int : p >= q => p >= s
            BY <2>1
        <3> QED BY <1>2, <3>1
    <2>3. s \in above(s) /\ s \notin above(q)
        BY <2>1
    <2>4. above(q) \in all /\ above(q) \in SUBSET A /\ above(s) \in SUBSET A
        OBVIOUS
    <2> HIDE DEF above, all
    <2>5. <<above(q), above(s)>> \in StrictSubsetOrdering(A)
        BY <2>2, <2>3, <2>4 DEF StrictSubsetOrdering
    <2> QED BY <1>6, <1>7, <2>4, <2>5
<1> QED BY <1>8

IsRegistry(reg) == DOMAIN reg = Sources \X DiskNames

LEMMA LastIsListed ==
    ASSUME NEW reg, IsRegistry(reg), NEW s0 \in Sources, NEW d \in DiskNames, <<s0, d>> \in Rows(reg)
    PROVE  LastOf(reg, d) \in Sources /\ <<LastOf(reg, d), d>> \in Rows(reg)
<1> DEFINE A == {s \in Sources : <<s, d>> \in Rows(reg)}
<1>1. A \subseteq Sources /\ s0 \in A
    OBVIOUS
<1>2. PICK s \in A : \A q \in A : q <= s
    <2> HIDE DEF A
    <2> QED BY <1>1, GreatestOf
<1>3. \E t \in Sources : <<t, d>> \in Rows(reg) /\ \A q \in Sources : <<q, d>> \in Rows(reg) => q <= t
    BY <1>2
<1> QED BY <1>3 DEF LastOf

LEMMA NamesHaveRows ==
    ASSUME NEW reg, IsRegistry(reg)
    PROVE  /\ \A d \in DOMAIN ByName(reg) : /\ d \in DiskNames /\ LastOf(reg, d) \in Sources /\ <<LastOf(reg, d), d>> \in Rows(reg)
                                            /\ ByName(reg)[d] = reg[<<LastOf(reg, d), d>>]
           /\ \A s \in Sources, d \in DiskNames : <<s, d>> \in Rows(reg) => d \in DOMAIN ByName(reg)
<1>1. \A x \in Rows(reg) : \E s \in Sources, d \in DiskNames : x = <<s, d>>
    BY DEF Rows, IsRegistry
<1>2. DOMAIN ByName(reg) = {x[2] : x \in Rows(reg)}
    BY DEF ByName
<1>3. ASSUME NEW d \in DOMAIN ByName(reg) PROVE d \in DiskNames /\ \E s \in Sources : <<s, d>> \in Rows(reg)
    <2>1. PICK x \in Rows(reg) : x[2] = d
        BY <1>2
    <2>2. PICK s \in Sources, e \in DiskNames : x = <<s, e>>
        BY <1>1
    <2> QED BY <2>1, <2>2
<1>4. ASSUME NEW s \in Sources, NEW d \in DiskNames, <<s, d>> \in Rows(reg) PROVE d \in DOMAIN ByName(reg)
    <2>1. <<s, d>>[2] = d
        OBVIOUS
    <2> QED BY <1>2, <1>4, <2>1
<1>5. \A d \in DOMAIN ByName(reg) : LastOf(reg, d) \in Sources /\ <<LastOf(reg, d), d>> \in Rows(reg)
    BY <1>3, LastIsListed
<1>6. \A d \in DOMAIN ByName(reg) : ByName(reg)[d] = reg[<<LastOf(reg, d), d>>]
    BY DEF ByName
<1> QED BY <1>3, <1>4, <1>5, <1>6

(* What is told to fail, by the agent's lines and by the status.              *)
LEMMA FailedIsSaid ==
    ASSUME NEW reg, IsRegistry(reg), NEW d \in DiskNames
    PROVE  LET Says == {s \in Sources : <<s, d>> \in Rows(reg)}
           IN  /\ d \in Failed(reg) => \E s \in Says : reg[<<s, d>>] \in Failing
               /\ Says # {} /\ (\A s \in Says : reg[<<s, d>>] \in Failing) => d \in Failed(reg)
<1> DEFINE Says == {s \in Sources : <<s, d>> \in Rows(reg)}
<1>1. ASSUME d \in Failed(reg) PROVE \E s \in Says : reg[<<s, d>>] \in Failing
    BY <1>1, NamesHaveRows DEF Failed
<1>2. ASSUME NEW s \in Says, \A q \in Says : reg[<<q, d>>] \in Failing PROVE d \in Failed(reg)
    <2>1. d \in DOMAIN ByName(reg)
        BY NamesHaveRows
    <2>2. LastOf(reg, d) \in Says /\ ByName(reg)[d] = reg[<<LastOf(reg, d), d>>]
        BY <2>1, NamesHaveRows
    <2> QED BY <1>2, <2>1, <2>2 DEF Failed
<1> QED BY <1>1, <1>2

LEMMA AgentLines ==
    ASSUME NEW reg
    PROVE  {l.of : l \in {k \in AgentAnswer(reg).lines : k.service = "disk" /\ k.state = 2}} = Failed(reg)
<1> DEFINE lines == {k \in AgentAnswer(reg).lines : k.service = "disk" /\ k.state = 2}
           names == DOMAIN ByName(reg)
<1>1. AgentAnswer(reg).lines = DiskLines(reg) \cup HostLines \cup EndpointLines
    BY DEF AgentAnswer, NoAnswer
<1>2. \A k \in HostLines \cup EndpointLines : k.service # "disk"
    BY DEF HostLines, EndpointLines, Line
<1>3. \A h : DiskState(h) = 2 <=> h \in Failing
    BY DEF DiskState, Failing
<1>4. \A k : k \in lines <=> \E d \in names : k = Line("disk", d, DiskState(ByName(reg)[d])) /\ ByName(reg)[d] \in Failing
    <2>1. \A d \in names : LET k == Line("disk", d, DiskState(ByName(reg)[d]))
                           IN  k.service = "disk" /\ k.of = d /\ k.state = DiskState(ByName(reg)[d])
        BY DEF Line
    <2>2. \A k : k \in DiskLines(reg) <=> \E d \in names : k = Line("disk", d, DiskState(ByName(reg)[d]))
        BY DEF DiskLines
    <2> QED BY <1>1, <1>2, <1>3, <2>1, <2>2
<1>5. \A d : Line("disk", d, DiskState(ByName(reg)[d])).of = d
    BY DEF Line
<1>6. \A d : d \in {l.of : l \in lines} <=> d \in names /\ ByName(reg)[d] \in Failing
    <2> HIDE DEF lines, names
    <2> QED BY <1>4, <1>5
<1> QED BY <1>6 DEF Failed

AnswerInv ==
    /\ IsRegistry(disksListed)
    /\ answer \in {NoAnswer, StatusAnswer(disksListed), AgentAnswer(disksListed), PiggybackAnswer(disksListed),
                   MetricsAnswer(disksListed)}

LEMMA AnswerSteps == AnswerInv /\ [MonitoringNext]_monitoringVars => AnswerInv'
<1> SUFFICES ASSUME AnswerInv, [MonitoringNext]_monitoringVars PROVE AnswerInv'
    OBVIOUS
<1>1. CASE UNCHANGED <<disksListed, answer>>
    BY <1>1 DEF AnswerInv, IsRegistry, StatusAnswer, AgentAnswer, PiggybackAnswer, MetricsAnswer, DiskLines, ByName, LastOf, Failed, Rows
<1>2. ASSUME NEW x \in Sources \X DiskNames, NEW health \in DiskHealths, DiskSeen(x, health) PROVE AnswerInv'
    BY <1>2 DEF DiskSeen, AnswerInv, IsRegistry
<1>3. ASSUME NEW r \in Askers, TellsMonitoring(r) PROVE AnswerInv'
    <2>1. UNCHANGED disksListed
        BY <1>3 DEF TellsMonitoring
    <2>2. answer' \in {answer, StatusAnswer(disksListed), AgentAnswer(disksListed), PiggybackAnswer(disksListed),
                       MetricsAnswer(disksListed)}
        BY <1>3 DEF TellsMonitoring
    <2>3. IsRegistry(disksListed)'
        BY <2>1 DEF AnswerInv, IsRegistry
    <2>4. /\ StatusAnswer(disksListed)' = StatusAnswer(disksListed)
          /\ AgentAnswer(disksListed)' = AgentAnswer(disksListed)
          /\ PiggybackAnswer(disksListed)' = PiggybackAnswer(disksListed)
          /\ MetricsAnswer(disksListed)' = MetricsAnswer(disksListed)
        BY <2>1
    <2> QED BY <2>2, <2>3, <2>4 DEF AnswerInv
<1>4. ASSUME NEW r \in Askers, Asks(r) \/ ReadsToken(r) \/ MakesToken(r) \/ Regenerates(r) \/ WritesToken(r)
                               \/ ShowsToken(r) \/ ChecksToken(r)
      PROVE  UNCHANGED <<disksListed, answer>>
    BY <1>4 DEF Asks, ReadsToken, MakesToken, Regenerates, OpensToken, WritesToken, ShowsToken, ChecksToken
<1> QED BY <1>1, <1>2, <1>3, <1>4 DEF MonitoringNext, MonitoringRestart, monitoringVars

LEMMA AnswersTell == AnswerInv => FailuresAreTold
<1> SUFFICES ASSUME AnswerInv PROVE FailuresAreTold
    OBVIOUS
<1> DEFINE reg == disksListed
           Says(d) == {s \in Sources : <<s, d>> \in Rows(reg)}
           Told == IF answer.kind = "status" THEN answer.failed
                   ELSE {l.of : l \in {k \in answer.lines : k.service = "disk" /\ k.state = 2}}
<1>1. /\ NoAnswer.kind = "none" /\ PiggybackAnswer(reg).kind = "piggyback" /\ AgentAnswer(reg).kind = "agent"
      /\ StatusAnswer(reg).kind = "status" /\ StatusAnswer(reg).failed = Failed(reg)
      /\ StatusAnswer(reg).overall = "CRITICAL" <=> Failed(reg) # {}
      /\ MetricsAnswer(reg).kind = "metrics"
      /\ MetricsAnswer(reg).lines = {Line("healthy", x, IF reg[x] = "GOOD" THEN 1 ELSE 0) : x \in {y \in Rows(reg) : reg[y] # "unread"}}
    BY DEF NoAnswer, PiggybackAnswer, AgentAnswer, StatusAnswer, MetricsAnswer
<1>2. answer.kind \in {"agent", "status"} => Told = Failed(reg)
    <2>1. CASE answer.kind = "agent"
        <3>1. answer = AgentAnswer(reg)
            BY <1>1, <2>1 DEF AnswerInv
        <3> QED BY <2>1, <3>1, AgentLines
    <2>2. CASE answer.kind = "status"
        BY <1>1, <2>2 DEF AnswerInv
    <2> QED BY <2>1, <2>2
<1>3. answer.kind \in {"agent", "status"} =>
          \A d \in DiskNames : /\ d \in Told => \E s \in Says(d) : reg[<<s, d>>] \in Failing
                               /\ Says(d) # {} /\ (\A s \in Says(d) : reg[<<s, d>>] \in Failing) => d \in Told
    BY <1>2, FailedIsSaid DEF AnswerInv
<1>4. answer.kind = "status" => (answer.overall = "CRITICAL" <=> Told # {})
    BY <1>1, <1>2 DEF AnswerInv
<1>5. ASSUME answer.kind = "metrics", NEW x \in Rows(reg), reg[x] \in Failing PROVE Line("healthy", x, 0) \in answer.lines
    BY <1>1, <1>5 DEF AnswerInv, Failing
<1> QED BY <1>3, <1>4, <1>5 DEF FailuresAreTold

(* What checkmk_integration.py and metrics.py answer agrees on the disks      *)
(* that fail: none is told that no source calls failing, and none is missing  *)
(* that all its sources call so.                                              *)
THEOREM FailuresStayTold == MonitoringSpec => []FailuresAreTold
<1>1. MonitoringInit => AnswerInv
    BY DEF MonitoringInit, AnswerInv, IsRegistry
<1>2. MonitoringSpec => []AnswerInv
    BY <1>1, AnswerSteps, PTL DEF MonitoringSpec
<1> QED BY <1>2, AnswersTell, PTL

-----------------------------------------------------------------------------
(* The disks of NAS systems. What a request holds of a disk its own NAS had,  *)
(* since endpoints keep their NAS and their number.                           *)
Disks == Serials \cup {Nothing}
NasOrNone == Nases \cup {NoEndpoint.nas}
EndpointType == [given : BOOLEAN, listed : BOOLEAN, platform : Platforms, nas : NasOrNone]
DiskReads == [name : Slots, serial : Disks, model : Disks]
NasRequestType ==
    [pc : {"idle", "again", "disks", "temperatures", "probe", "top", "array", "legacy", "legacy ini", "register", "snapshot", "log"},
     kind : {"page", "poll", "collect"}, ep : Nat, platform : Platforms, nas : NasOrNone, known : SUBSET DiskReads, todo : SUBSET DiskReads]
StorageTypes ==
    /\ inSlot \in [Nases -> [Slots -> Disks]]
    /\ hadDisks \in [Nases -> SUBSET (Slots \X Disks)]
    /\ endpoints \in [1..MaxEndpoints -> EndpointType]
    /\ asksNas \in [NasRequests -> NasRequestType]
    /\ diskLog \subseteq [ep : 1..MaxEndpoints, row : DiskReads]
    /\ diskRows \in [Platforms \X Slots -> [serial : Disks, health : Disks]]

(* Numbers of endpoints are given in order and never again.                   *)
NumbersInOrder ==
    /\ \E k \in Nat : GivenOut = 1..k
    /\ \A e \in 1..MaxEndpoints : /\ endpoints[e].listed => endpoints[e].given
                                  /\ endpoints[e].given => endpoints[e].nas \in Nases
SlotsAreKept == \A n \in Nases, s \in Slots : <<s, inSlot[n][s]>> \in hadDisks[n]

OfNas(n, row) == n \in Nases /\ <<row.name, row.serial>> \in hadDisks[n] /\ row.model \in {Nothing, row.serial}
OfEndpoint(q) ==
    q.pc # "idle" =>
        /\ q.ep \in GivenOut /\ endpoints[q.ep].platform = q.platform /\ endpoints[q.ep].nas = q.nas
        /\ \A row \in q.todo \cup q.known : OfNas(q.nas, row)
        /\ q.pc = "snapshot" => \E row \in DiskReads : q.known = {row}
LoggedOf(l) == l.ep \in GivenOut /\ OfNas(endpoints[l.ep].nas, l.row)
ShownOf(x, d) == d # Nothing => \E e \in GivenOut : endpoints[e].platform = x[1] /\ <<x[2], d>> \in hadDisks[endpoints[e].nas]
RowsAreOwn ==
    /\ \A r \in NasRequests : OfEndpoint(asksNas[r])
    /\ \A l \in diskLog : LoggedOf(l)
    /\ \A x \in Platforms \X Slots : ShownOf(x, diskRows[x].serial) /\ ShownOf(x, diskRows[x].health)

StorageInv == StorageTypes /\ NumbersInOrder /\ SlotsAreKept /\ RowsAreOwn

LEMMA IdleOfNas ==
    /\ NotAsked \in NasRequestType /\ NotAsked.pc = "idle" /\ NotAsked.known = {} /\ NotAsked.todo = {}
    /\ NoEndpoint \in EndpointType /\ ~NoEndpoint.given /\ ~NoEndpoint.listed
<1>1. NoEndpoint \in EndpointType /\ ~NoEndpoint.given /\ ~NoEndpoint.listed /\ NoEndpoint.nas \in NasOrNone
    BY DEF NoEndpoint, EndpointType, NasOrNone, Platforms
<1> QED BY <1>1 DEF NotAsked, NasRequestType, Platforms

LEMMA StorageStarts == StorageInit => StorageInv
<1> SUFFICES ASSUME StorageInit PROVE StorageInv
    OBVIOUS
<1>1. hadDisks \in [Nases -> SUBSET (Slots \X Disks)] /\ SlotsAreKept
    BY DEF StorageInit, SlotsAreKept, Disks
<1>2. NoRowYet \in [serial : Disks, health : Disks] /\ NoRowYet.serial = Nothing /\ NoRowYet.health = Nothing
    BY DEF NoRowYet, Disks
<1>3. StorageTypes
    BY <1>1, <1>2, IdleOfNas DEF StorageInit, StorageTypes, Disks
<1>4. GivenOut = 1..0
    BY IdleOfNas DEF StorageInit, GivenOut
<1>5. NumbersInOrder
    BY <1>4, IdleOfNas DEF StorageInit, NumbersInOrder
<1>6. RowsAreOwn
    BY <1>2, IdleOfNas DEF StorageInit, RowsAreOwn, OfEndpoint, ShownOf
<1> QED BY <1>1, <1>3, <1>5, <1>6 DEF StorageInv

LEMMA NextNumberIsNew == ASSUME NumbersInOrder PROVE NextEndpointId \notin GivenOut /\ GivenOut \cup {NextEndpointId} = 1..NextEndpointId
<1>1. PICK k \in Nat : GivenOut = 1..k
    BY DEF NumbersInOrder
<1>2. Cardinality(1..k) = k
    BY FS_Interval
<1> QED BY <1>1, <1>2 DEF NextEndpointId

\* What was given stays with its platform and NAS, and what a NAS had stays so.
NasKept ==
    /\ \A e \in GivenOut : e \in GivenOut' /\ endpoints'[e].platform = endpoints[e].platform /\ endpoints'[e].nas = endpoints[e].nas
    /\ \A e \in GivenOut : endpoints[e].nas \in Nases
    /\ \A n \in Nases : hadDisks[n] \subseteq hadDisks'[n]

LEMMA KeptRowsStay ==
    ASSUME RowsAreOwn, NasKept, UNCHANGED <<asksNas, diskLog, diskRows>>
    PROVE  RowsAreOwn'
<1>1. \A n, row : OfNas(n, row) => OfNas(n, row)'
    BY DEF NasKept, OfNas
<1>2. \A r \in NasRequests : OfEndpoint(asksNas[r])'
    BY <1>1 DEF OfEndpoint, RowsAreOwn, NasKept
<1>3. \A l \in diskLog : LoggedOf(l)'
    BY <1>1 DEF LoggedOf, RowsAreOwn, NasKept
<1>5. \A x \in Platforms \X Slots : ShownOf(x, diskRows[x].serial)' /\ ShownOf(x, diskRows[x].health)'
    BY DEF RowsAreOwn, ShownOf, NasKept
<1> QED BY <1>2, <1>3, <1>5 DEF RowsAreOwn

RowsOf(n) == {Read(s, inSlot[n][s], inSlot[n][s]) : s \in Has(n)}

LEMMA RowsAreRead ==
    ASSUME StorageTypes, SlotsAreKept, NEW n \in Nases
    PROVE  RowsOf(n) \in SUBSET DiskReads /\ \A row \in RowsOf(n) : OfNas(n, row)
<1>1. ASSUME NEW s \in Has(n)
      PROVE  Read(s, inSlot[n][s], inSlot[n][s]) \in DiskReads /\ OfNas(n, Read(s, inSlot[n][s], inSlot[n][s]))
    <2>1. s \in Slots /\ inSlot[n][s] \in Disks /\ <<s, inSlot[n][s]>> \in hadDisks[n]
        BY DEF Has, StorageTypes, SlotsAreKept
    <2> QED BY <2>1 DEF Read, DiskReads, OfNas
<1> QED BY <1>1 DEF RowsOf

LEMMA StorageSteps == StorageInv /\ [StorageNext]_storageVars => StorageInv'
<1> SUFFICES ASSUME StorageInv, [StorageNext]_storageVars PROVE StorageInv'
    OBVIOUS
<1> USE DEF StorageInv
<1>1. ASSUME NEW n \in Nases, NEW s \in Slots, NEW d \in Serials \cup {Nothing}, DiskSwapped(n, s, d) PROVE StorageInv'
    <2>1. /\ inSlot' = [inSlot EXCEPT ![n][s] = d] /\ hadDisks' = [hadDisks EXCEPT ![n] = @ \cup {<<s, d>>}]
          /\ UNCHANGED <<endpoints, asksNas, diskLog, diskRows>>
        BY <1>1 DEF DiskSwapped
    <2>2. /\ \A m \in Nases : hadDisks'[m] = IF m = n THEN hadDisks[n] \cup {<<s, d>>} ELSE hadDisks[m]
          /\ hadDisks' \in [Nases -> SUBSET (Slots \X Disks)]
        <3> DEFINE all == hadDisks[n] \cup {<<s, d>>}
        <3>1. all \in SUBSET (Slots \X Disks) /\ hadDisks \in [Nases -> SUBSET (Slots \X Disks)]
            BY DEF StorageTypes, Disks
        <3>2. hadDisks' = [hadDisks EXCEPT ![n] = all]
            BY <2>1
        <3> HIDE DEF all
        <3>3. hadDisks' \in [Nases -> SUBSET (Slots \X Disks)] /\ \A m \in Nases : hadDisks'[m] = IF m = n THEN all ELSE hadDisks[m]
            BY <3>1, <3>2
        <3> QED BY <3>3 DEF all
    <2>3. /\ \A m \in Nases, t \in Slots : inSlot'[m][t] = IF m = n /\ t = s THEN d ELSE inSlot[m][t]
          /\ inSlot' \in [Nases -> [Slots -> Disks]]
        <3> DEFINE slots == [inSlot[n] EXCEPT ![s] = d]
        <3>1. inSlot \in [Nases -> [Slots -> Disks]] /\ d \in Disks
            BY DEF StorageTypes, Disks
        <3>2. slots \in [Slots -> Disks] /\ \A t \in Slots : slots[t] = IF t = s THEN d ELSE inSlot[n][t]
            BY <3>1
        <3>3. inSlot' = [inSlot EXCEPT ![n] = slots]
            BY <2>1
        <3> HIDE DEF slots
        <3>4. inSlot' \in [Nases -> [Slots -> Disks]] /\ \A m \in Nases : inSlot'[m] = IF m = n THEN slots ELSE inSlot[m]
            BY <3>1, <3>2, <3>3
        <3> QED BY <3>2, <3>4
    <2>4. StorageTypes'
        BY <2>1, <2>2, <2>3 DEF StorageTypes
    <2>5. SlotsAreKept'
        BY <2>2, <2>3 DEF SlotsAreKept
    <2>6. NumbersInOrder'
        BY <2>1 DEF NumbersInOrder, GivenOut
    <2>7. NasKept
        BY <2>1, <2>2 DEF NasKept, GivenOut, NumbersInOrder
    <2> QED BY <2>1, <2>4, <2>5, <2>6, <2>7, KeptRowsStay
<1>2. ASSUME NEW n \in Nases, NEW platform \in Platforms, EndpointAdded(platform, n) PROVE StorageInv'
    <2> DEFINE e == NextEndpointId  new == [given |-> TRUE, listed |-> TRUE, platform |-> platform, nas |-> n]
    <2>1. /\ e \in 1..MaxEndpoints /\ endpoints' = [endpoints EXCEPT ![e] = new]
          /\ UNCHANGED <<inSlot, asksNas, diskLog, diskRows, hadDisks>>
        BY <1>2 DEF EndpointAdded
    <2>2. new \in EndpointType /\ new.given /\ new.nas = n
        BY DEF EndpointType, NasOrNone
    <2>3. e \notin GivenOut /\ GivenOut \cup {e} = 1..e /\ e \in Nat
        BY <2>1, NextNumberIsNew
    <2> HIDE DEF e, new
    <2>4. \A f \in 1..MaxEndpoints : endpoints'[f] = IF f = e THEN new ELSE endpoints[f]
        BY <2>1 DEF StorageTypes
    <2>5. GivenOut' = GivenOut \cup {e}
        BY <2>1, <2>2, <2>4 DEF GivenOut
    <2>6. StorageTypes'
        BY <2>1, <2>2 DEF StorageTypes
    <2>7. NumbersInOrder'
        BY <2>2, <2>3, <2>4, <2>5 DEF NumbersInOrder
    <2>8. NasKept
        BY <2>1, <2>3, <2>4, <2>5 DEF NasKept, GivenOut, NumbersInOrder
    <2>9. SlotsAreKept'
        BY <2>1 DEF SlotsAreKept
    <2> QED BY <2>1, <2>6, <2>7, <2>8, <2>9, KeptRowsStay
<1>3. ASSUME NEW e \in 1..MaxEndpoints, EndpointDeleted(e) PROVE StorageInv'
    <2>1. /\ endpoints' = [endpoints EXCEPT ![e].listed = FALSE]
          /\ UNCHANGED <<inSlot, asksNas, diskLog, diskRows, hadDisks>>
        BY <1>3 DEF EndpointDeleted
    <2>2. \A f \in 1..MaxEndpoints : /\ endpoints'[f].given = endpoints[f].given /\ endpoints'[f].nas = endpoints[f].nas
                                     /\ endpoints'[f].platform = endpoints[f].platform
                                     /\ endpoints'[f].listed => endpoints[f].listed
        BY <2>1 DEF StorageTypes, EndpointType
    <2>3. GivenOut' = GivenOut
        BY <2>2 DEF GivenOut
    <2>4. StorageTypes'
        <3>1. \A f \in 1..MaxEndpoints : [endpoints[f] EXCEPT !.listed = FALSE] \in EndpointType
            BY DEF StorageTypes, EndpointType
        <3>2. endpoints' \in [1..MaxEndpoints -> EndpointType]
            BY <2>1, <3>1 DEF StorageTypes
        <3> QED BY <2>1, <3>2 DEF StorageTypes
    <2>5. NumbersInOrder'
        BY <2>2, <2>3 DEF NumbersInOrder
    <2>6. NasKept
        BY <2>1, <2>2, <2>3 DEF NasKept, GivenOut, NumbersInOrder
    <2>7. SlotsAreKept'
        BY <2>1 DEF SlotsAreKept
    <2> QED BY <2>1, <2>4, <2>5, <2>6, <2>7, KeptRowsStay
\* A step of one request, which may write one row of the log and one of the registry.
<1>4. ASSUME NEW r \in NasRequests, NEW new \in NasRequestType, asksNas' = [asksNas EXCEPT ![r] = new], OfEndpoint(new),
             UNCHANGED <<inSlot, endpoints, hadDisks>>,
             diskLog' \subseteq [ep : 1..MaxEndpoints, row : DiskReads], \A l \in diskLog' : LoggedOf(l),
             diskRows' \in [Platforms \X Slots -> [serial : Disks, health : Disks]],
             \A x \in Platforms \X Slots : ShownOf(x, diskRows'[x].serial) /\ ShownOf(x, diskRows'[x].health)
      PROVE  StorageInv'
    <2>1. \A q \in NasRequests : asksNas'[q] = IF q = r THEN new ELSE asksNas[q]
        BY <1>4 DEF StorageTypes
    <2>2. StorageTypes' /\ NumbersInOrder' /\ SlotsAreKept' /\ GivenOut' = GivenOut
        BY <1>4 DEF StorageTypes, NumbersInOrder, SlotsAreKept, GivenOut
    <2>3. \A q \in NasRequests : OfEndpoint(asksNas[q])'
        BY <1>4, <2>1, <2>2 DEF RowsAreOwn, OfEndpoint, OfNas
    <2>4. \A l \in diskLog' : LoggedOf(l)'
        BY <1>4, <2>2 DEF LoggedOf, OfNas
    <2>5. \A x \in Platforms \X Slots : ShownOf(x, diskRows[x].serial)' /\ ShownOf(x, diskRows[x].health)'
        BY <1>4, <2>2 DEF ShownOf
    <2> QED BY <2>2, <2>3, <2>4, <2>5 DEF RowsAreOwn
\* A step of one request that writes nothing.
<1>5. ASSUME NEW r \in NasRequests, NEW new \in NasRequestType, asksNas' = [asksNas EXCEPT ![r] = new], OfEndpoint(new),
             UNCHANGED <<inSlot, endpoints, diskLog, diskRows, hadDisks>>
      PROVE  StorageInv'
    BY <1>4, <1>5 DEF RowsAreOwn, StorageTypes
\* An answer: the request goes on with other rows.
<1>6. ASSUME NEW r \in NasRequests, asksNas[r].pc # "idle",
             NEW pc \in {"temperatures", "top", "array", "legacy", "legacy ini", "register", "log"},
             NEW known \in SUBSET DiskReads, NEW todo \in SUBSET DiskReads, AsksTo(r, pc, known, todo),
             \A row \in known : OfNas(asksNas[r].nas, row), \A row \in todo : OfNas(asksNas[r].nas, row)
      PROVE  StorageInv'
    <2> DEFINE new == [asksNas[r] EXCEPT !.pc = pc, !.known = known, !.todo = todo]
    <2>1. asksNas[r] \in NasRequestType
        BY DEF StorageTypes
    <2>2. /\ new \in NasRequestType /\ new.pc = pc /\ new.known = known /\ new.todo = todo /\ new.ep = asksNas[r].ep
          /\ new.platform = asksNas[r].platform /\ new.nas = asksNas[r].nas
        BY <1>6, <2>1 DEF NasRequestType
    <2>3. asksNas' = [asksNas EXCEPT ![r] = new] /\ UNCHANGED <<inSlot, endpoints, diskLog, diskRows, hadDisks>>
        BY <1>6 DEF AsksTo, StorageTypes
    <2> HIDE DEF new
    <2>4. OfEndpoint(new)
        BY <1>6, <2>2 DEF RowsAreOwn, OfEndpoint
    <2> QED BY <1>5, <2>2, <2>3, <2>4
\* What a request at work has.
<1>7. ASSUME NEW r \in NasRequests, asksNas[r].pc # "idle"
      PROVE  /\ asksNas[r].nas \in Nases /\ RowsOf(asksNas[r].nas) \in SUBSET DiskReads
             /\ \A row \in RowsOf(asksNas[r].nas) : OfNas(asksNas[r].nas, row)
             /\ asksNas[r].known \in SUBSET DiskReads /\ asksNas[r].todo \in SUBSET DiskReads
             /\ \A row \in asksNas[r].known \cup asksNas[r].todo : OfNas(asksNas[r].nas, row)
    <2>1. asksNas[r].nas \in Nases
        BY <1>7 DEF RowsAreOwn, OfEndpoint, NumbersInOrder, GivenOut
    <2>2. asksNas[r].known \in SUBSET DiskReads /\ asksNas[r].todo \in SUBSET DiskReads
        BY DEF StorageTypes, NasRequestType
    <2> QED BY <1>7, <2>1, <2>2, RowsAreRead DEF RowsAreOwn, OfEndpoint
<1>8. ASSUME NEW r \in NasRequests, asksNas[r].pc # "idle", NEW todo \in SUBSET DiskReads,
             AsksTo(r, FirstWrite(asksNas[r].kind), {}, todo), \A row \in todo : OfNas(asksNas[r].nas, row)
      PROVE  StorageInv'
    <2> DEFINE pc == FirstWrite(asksNas[r].kind)
    <2>1. pc \in {"temperatures", "top", "array", "legacy", "legacy ini", "register", "log"}
        BY DEF FirstWrite
    <2>2. {} \in SUBSET DiskReads /\ \A row \in {} : OfNas(asksNas[r].nas, row)
        OBVIOUS
    <2>3. AsksTo(r, pc, {}, todo)
        BY <1>8
    <2> HIDE DEF pc
    <2> QED BY <1>6, <1>8, <2>1, <2>2, <2>3, Zenon
<1>9. ASSUME NEW r \in NasRequests, NEW kind \in {"page", "poll", "collect"}, NEW e \in 1..MaxEndpoints, ConnectsNas(r, kind, e)
      PROVE  StorageInv'
    <2> DEFINE pc == IF kind = "poll" THEN Client(e) ELSE "again"
               new == [NotAsked EXCEPT !.pc = pc, !.kind = kind, !.ep = e, !.platform = endpoints[e].platform,
                                       !.nas = endpoints[e].nas]
    <2>1. /\ e \in GivenOut /\ e \in Nat /\ endpoints[e].platform \in Platforms /\ endpoints[e].nas \in NasOrNone
        BY <1>9, StorageBounds DEF ConnectsNas, ListedEndpoints, GivenOut, NumbersInOrder, StorageTypes, EndpointType
    <2>2. pc \in {"again", "disks", "probe", "idle"}
        BY <2>1 DEF Client, Platforms
    <2>3. asksNas' = [asksNas EXCEPT ![r] = new] /\ UNCHANGED <<inSlot, endpoints, diskLog, diskRows, hadDisks>>
        BY <1>9 DEF ConnectsNas
    <2> HIDE DEF pc
    <2>4. /\ new \in NasRequestType /\ new.pc = pc /\ new.ep = e /\ new.platform = endpoints[e].platform
          /\ new.nas = endpoints[e].nas /\ new.known = {} /\ new.todo = {}
        BY <2>1, <2>2, IdleOfNas DEF NasRequestType
    <2> HIDE DEF new
    <2>5. OfEndpoint(new)
        BY <2>1, <2>2, <2>4 DEF OfEndpoint
    <2> QED BY <1>5, <2>3, <2>4, <2>5
<1>10. ASSUME NEW r \in NasRequests, asksNas' = [asksNas EXCEPT ![r] = NotAsked],
              UNCHANGED <<inSlot, endpoints, diskLog, diskRows, hadDisks>>
       PROVE  StorageInv'
    BY <1>5, <1>10, IdleOfNas DEF OfEndpoint
<1>11. ASSUME NEW r \in NasRequests, LooksUpAgain(r) PROVE StorageInv'
    <2> DEFINE q == asksNas[r]  new == [q EXCEPT !.pc = Client(q.ep)]
    <2>1. q \in NasRequestType /\ q.pc = "again" /\ q.ep \in GivenOut /\ q.platform \in Platforms
        BY <1>11 DEF LooksUpAgain, StorageTypes, NasRequestType, RowsAreOwn, OfEndpoint
    <2>2. Client(q.ep) \in {"disks", "probe", "idle"}
        BY <1>11, <2>1 DEF Client, Platforms, RowsAreOwn, OfEndpoint
    <2>3. CASE q.ep \in ListedEndpoints
        <3>1. asksNas' = [asksNas EXCEPT ![r] = new] /\ UNCHANGED <<inSlot, endpoints, diskLog, diskRows, hadDisks>>
            BY <1>11, <2>3 DEF LooksUpAgain
        <3>2. /\ new \in NasRequestType /\ new.pc = Client(q.ep) /\ new.ep = q.ep /\ new.platform = q.platform /\ new.nas = q.nas
              /\ new.known = q.known /\ new.todo = q.todo
            BY <2>1, <2>2 DEF NasRequestType
        <3>3. OfEndpoint(q)
            BY DEF RowsAreOwn
        <3> HIDE DEF new
        <3>4. OfEndpoint(new)
            BY <2>1, <2>2, <3>2, <3>3 DEF OfEndpoint
        <3> QED BY <1>5, <3>1, <3>2, <3>4
    <2>4. CASE q.ep \notin ListedEndpoints
        BY <1>10, <1>11, <2>4 DEF LooksUpAgain
    <2> QED BY <2>3, <2>4
<1>12. ASSUME NEW r \in NasRequests, NasGivesUp(r) \/ AllWritten(r) \/ StorageStops(r) PROVE StorageInv'
    BY <1>10, <1>12 DEF NasGivesUp, AllWritten, StorageStops
<1>13. ASSUME NEW r \in NasRequests, TrueNasDisks(r) PROVE StorageInv'
    <2>1. PICK todo \in {RowsOf(asksNas[r].nas), {}} : AsksTo(r, "temperatures", {}, todo)
        BY <1>13 DEF TrueNasDisks, RowsOf
    <2>2. asksNas[r].pc # "idle"
        BY <1>13 DEF TrueNasDisks
    <2> QED BY <1>6, <1>7, <2>1, <2>2
<1>14. ASSUME NEW r \in NasRequests, TrueNasTemperatures(r) PROVE StorageInv'
    <2>1. asksNas[r].pc # "idle" /\ AsksTo(r, FirstWrite(asksNas[r].kind), {}, asksNas[r].todo)
        BY <1>14 DEF TrueNasTemperatures
    <2>2. asksNas[r].todo \in SUBSET DiskReads /\ \A row \in asksNas[r].todo : OfNas(asksNas[r].nas, row)
        BY <1>7, <2>1
    <2> QED BY <1>8, <2>1, <2>2, Zenon
<1>15. ASSUME NEW r \in NasRequests, UnraidProbe(r) PROVE StorageInv'
    <2>1. asksNas[r].pc # "idle" /\ \E pc \in {"top", "legacy"} : AsksTo(r, pc, {}, {})
        BY <1>15 DEF UnraidProbe
    <2>2. PICK pc \in {"top", "legacy"} : AsksTo(r, pc, {}, {})
        BY <2>1
    <2>3. {} \in SUBSET DiskReads /\ \A row \in {} : OfNas(asksNas[r].nas, row)
        OBVIOUS
    <2> QED BY <1>6, <2>1, <2>2, <2>3, Zenon
<1>16. ASSUME NEW r \in NasRequests, UnraidTop(r) PROVE StorageInv'
    <2>1. PICK known \in {RowsOf(asksNas[r].nas), {}} : AsksTo(r, "array", known, {})
        BY <1>16 DEF UnraidTop, RowsOf
    <2>2. asksNas[r].pc # "idle"
        BY <1>16 DEF UnraidTop
    <2> QED BY <1>6, <1>7, <2>1, <2>2
\* The model that is found by serial number is of that disk.
<1>17. ASSUME NEW r \in NasRequests, asksNas[r].pc # "idle", NEW s \in Slots, NEW d \in Disks
       PROVE  Model(asksNas[r].known, s, d) \in {Nothing, d}
    <2> DEFINE known == asksNas[r].known
    <2>1. \A k \in known : k.model \in {Nothing, k.serial}
        BY <1>7, <1>17 DEF OfNas
    <2> HIDE DEF known
    <2>2. CASE \E k \in known : k.serial = d
        <3>1. (CHOOSE k \in known : k.serial = d) \in known /\ (CHOOSE k \in known : k.serial = d).serial = d
            BY <2>2
        <3> QED BY <2>1, <2>2, <3>1 DEF Model, known
    <2>3. CASE ~\E k \in known : k.serial = d
        BY <2>3 DEF Model, known
    <2> QED BY <2>2, <2>3
<1>18. ASSUME NEW r \in NasRequests, UnraidArray(r) PROVE StorageInv'
    <2> DEFINE n == asksNas[r].nas
               row(s) == Read(s, inSlot[n][s], Model(asksNas[r].known, s, inSlot[n][s]))
               rows == {row(s) : s \in Has(n)}
    <2>1. asksNas[r].pc # "idle" /\ n \in Nases
        BY <1>7, <1>18 DEF UnraidArray
    <2>2. ASSUME NEW s \in Has(n) PROVE row(s) \in DiskReads /\ OfNas(n, row(s))
        <3>1. s \in Slots /\ inSlot[n][s] \in Disks /\ <<s, inSlot[n][s]>> \in hadDisks[n]
            BY <2>1 DEF Has, StorageTypes, SlotsAreKept
        <3>2. Model(asksNas[r].known, s, inSlot[n][s]) \in {Nothing, inSlot[n][s]} /\ Nothing \in Disks
            BY <1>17, <2>1, <3>1 DEF Disks
        <3> QED BY <2>1, <3>1, <3>2 DEF Read, DiskReads, OfNas
    <2> HIDE DEF row
    <2>3. rows \in SUBSET DiskReads /\ \A w \in rows : OfNas(n, w)
        BY <2>2
    <2>4. AsksTo(r, FirstWrite(asksNas[r].kind), {}, rows) \/ AsksTo(r, "legacy", {}, {})
        BY <1>18 DEF UnraidArray, row
    <2> HIDE DEF rows
    <2>5. {} \in SUBSET DiskReads /\ \A w \in {} : OfNas(n, w)
        OBVIOUS
    <2>6. CASE AsksTo(r, FirstWrite(asksNas[r].kind), {}, rows)
        BY <1>8, <2>1, <2>3, <2>6, Zenon
    <2>7. CASE AsksTo(r, "legacy", {}, {})
        BY <1>6, <2>1, <2>5, <2>7, Zenon
    <2> QED BY <2>4, <2>6, <2>7
<1>19. ASSUME NEW r \in NasRequests, UnraidLegacy(r) PROVE StorageInv'
    <2>1. /\ asksNas[r].pc # "idle"
          /\ \/ AsksTo(r, FirstWrite(asksNas[r].kind), {}, RowsOf(asksNas[r].nas))
             \/ AsksTo(r, "legacy ini", {}, {})
        BY <1>19 DEF UnraidLegacy, RowsOf
    <2>2. RowsOf(asksNas[r].nas) \in SUBSET DiskReads /\ \A row \in RowsOf(asksNas[r].nas) : OfNas(asksNas[r].nas, row)
        BY <1>7, <2>1
    <2>3. {} \in SUBSET DiskReads /\ \A row \in {} : OfNas(asksNas[r].nas, row)
        OBVIOUS
    <2>4. CASE AsksTo(r, FirstWrite(asksNas[r].kind), {}, RowsOf(asksNas[r].nas))
        BY <1>8, <2>1, <2>2, <2>4, Zenon
    <2>5. CASE AsksTo(r, "legacy ini", {}, {})
        BY <1>6, <2>1, <2>3, <2>5, Zenon
    <2> QED BY <2>1, <2>4, <2>5
<1>20. ASSUME NEW r \in NasRequests, UnraidIni(r) PROVE StorageInv'
    <2>1. /\ asksNas[r].pc # "idle"
          /\ \E todo \in {RowsOf(asksNas[r].nas), {}} : AsksTo(r, FirstWrite(asksNas[r].kind), {}, todo)
        BY <1>20 DEF UnraidIni, RowsOf
    <2>2. PICK todo \in {RowsOf(asksNas[r].nas), {}} : AsksTo(r, FirstWrite(asksNas[r].kind), {}, todo)
        BY <2>1
    <2>3. todo \in SUBSET DiskReads /\ \A row \in todo : OfNas(asksNas[r].nas, row)
        BY <1>7, <2>1
    <2> QED BY <1>8, <2>1, <2>2, <2>3, Zenon
<1>21. ASSUME NEW r \in NasRequests, NEW row \in asksNas[r].todo, Registers(r, row) PROVE StorageInv'
    <2> DEFINE q == asksNas[r]  y == <<q.platform, row.name>>
               new == IF q.kind = "page" THEN [q EXCEPT !.todo = @ \ {row}] ELSE [q EXCEPT !.pc = "snapshot", !.known = {row}]
    <2>1. /\ q \in NasRequestType /\ q.pc = "register" /\ row \in DiskReads /\ OfNas(q.nas, row)
          /\ q.ep \in GivenOut /\ endpoints[q.ep].platform = q.platform /\ endpoints[q.ep].nas = q.nas
        BY <1>7, <1>21 DEF Registers, StorageTypes, RowsAreOwn, OfEndpoint
    <2>2. /\ asksNas' = [asksNas EXCEPT ![r] = new] /\ diskRows' = [diskRows EXCEPT ![y].serial = row.serial]
          /\ UNCHANGED <<inSlot, endpoints, diskLog, hadDisks>>
        BY <1>21 DEF Registers
    <2>3. /\ new \in NasRequestType /\ new.ep = q.ep /\ new.platform = q.platform /\ new.nas = q.nas
          /\ new.known \cup new.todo \subseteq q.known \cup q.todo
          /\ new.pc = "snapshot" => new.known = {row}
        <3>1. CASE q.kind = "page"
            BY <2>1, <3>1 DEF NasRequestType
        <3>2. CASE q.kind # "page"
            BY <2>1, <3>2 DEF NasRequestType
        <3> QED BY <3>1, <3>2
    <2> HIDE DEF new
    <2>4. OfEndpoint(new)
        BY <1>7, <2>1, <2>3 DEF OfEndpoint
    <2>5. y \in Platforms \X Slots /\ y[1] = q.platform /\ y[2] = row.name /\ row.serial \in Disks
        BY <2>1 DEF NasRequestType, DiskReads
    <2> HIDE DEF y
    <2>6. /\ diskRows' \in [Platforms \X Slots -> [serial : Disks, health : Disks]]
          /\ \A x \in Platforms \X Slots : /\ diskRows'[x].serial = IF x = y THEN row.serial ELSE diskRows[x].serial
                                           /\ diskRows'[x].health = diskRows[x].health
        <3>1. \A x \in Platforms \X Slots : diskRows[x] \in [serial : Disks, health : Disks]
            BY DEF StorageTypes
        <3>2. diskRows' = [diskRows EXCEPT ![y] = [diskRows[y] EXCEPT !.serial = row.serial]]
            BY <2>2 DEF StorageTypes
        <3>3. [diskRows[y] EXCEPT !.serial = row.serial] \in [serial : Disks, health : Disks]
            BY <2>5, <3>1
        <3> QED BY <2>5, <3>1, <3>2, <3>3 DEF StorageTypes
    <2>7. ShownOf(y, row.serial)
        BY <2>1, <2>5 DEF ShownOf, OfNas
    <2>8. \A x \in Platforms \X Slots : ShownOf(x, diskRows'[x].serial) /\ ShownOf(x, diskRows'[x].health)
        BY <2>6, <2>7 DEF RowsAreOwn
    <2> QED BY <1>4, <2>2, <2>3, <2>4, <2>6, <2>8 DEF StorageTypes, RowsAreOwn
<1>22. ASSUME NEW r \in NasRequests, SavesHealth(r) PROVE StorageInv'
    <2> DEFINE q == asksNas[r]  new == [q EXCEPT !.pc = "log"]
    <2>1. /\ q \in NasRequestType /\ q.pc = "snapshot" /\ OfEndpoint(q)
        BY <1>22 DEF SavesHealth, StorageTypes, RowsAreOwn
    <2>2. PICK row \in DiskReads : q.known = {row} /\ OfNas(q.nas, row)
        BY <2>1 DEF OfEndpoint
    <2>3. /\ asksNas' = [asksNas EXCEPT ![r] = new] /\ UNCHANGED <<inSlot, endpoints, diskLog, hadDisks>>
          /\ diskRows' = [x \in Platforms \X Slots |-> IF x = <<q.platform, row.name>>
                            THEN [diskRows[x] EXCEPT !.health = row.serial] ELSE diskRows[x]]
        BY <1>22, <2>2 DEF SavesHealth, StorageTypes
    <2>4. /\ new \in NasRequestType /\ new.ep = q.ep /\ new.platform = q.platform /\ new.nas = q.nas
          /\ new.known = q.known /\ new.todo = q.todo /\ new.pc = "log"
        BY <2>1 DEF NasRequestType
    <2> HIDE DEF new
    <2>5. OfEndpoint(new)
        BY <2>1, <2>4 DEF OfEndpoint
    <2>6. \A x \in Platforms \X Slots : /\ [diskRows[x] EXCEPT !.health = row.serial] \in [serial : Disks, health : Disks]
                                        /\ [diskRows[x] EXCEPT !.health = row.serial].serial = diskRows[x].serial
                                        /\ [diskRows[x] EXCEPT !.health = row.serial].health = row.serial
                                        /\ diskRows[x] \in [serial : Disks, health : Disks]
        BY DEF StorageTypes, DiskReads
    <2>7. diskRows' \in [Platforms \X Slots -> [serial : Disks, health : Disks]]
        BY <2>3, <2>6
    <2>8. \A x \in Platforms \X Slots : x = <<q.platform, row.name>> => ShownOf(x, row.serial)
        BY <2>1, <2>2 DEF ShownOf, OfNas, OfEndpoint
    <2>9. ASSUME NEW x \in Platforms \X Slots PROVE ShownOf(x, diskRows'[x].serial) /\ ShownOf(x, diskRows'[x].health)
        <3>1. ShownOf(x, diskRows[x].serial) /\ ShownOf(x, diskRows[x].health)
            BY DEF RowsAreOwn
        <3>2. CASE x = <<q.platform, row.name>>
            <4>1. diskRows'[x].serial = diskRows[x].serial /\ diskRows'[x].health = row.serial
                BY <2>3, <2>6, <3>2
            <4> QED BY <2>8, <3>1, <3>2, <4>1
        <3>3. CASE x # <<q.platform, row.name>>
            <4>1. diskRows'[x] = diskRows[x]
                BY <2>3, <3>3
            <4> QED BY <3>1, <4>1
        <3> QED BY <3>2, <3>3
    <2> QED BY <1>4, <2>3, <2>4, <2>5, <2>7, <2>9 DEF StorageTypes, RowsAreOwn
<1>23. ASSUME NEW r \in NasRequests, NEW row \in asksNas[r].todo, LogsDisk(r, row) PROVE StorageInv'
    <2> DEFINE q == asksNas[r]  pc == FirstWrite(q.kind)  line == [ep |-> q.ep, row |-> row]
               new == [q EXCEPT !.todo = @ \ {row}, !.known = {}, !.pc = pc]
    <2>1. /\ q \in NasRequestType /\ q.pc = "log" /\ row \in DiskReads /\ OfNas(q.nas, row)
          /\ q.ep \in GivenOut /\ endpoints[q.ep].platform = q.platform /\ endpoints[q.ep].nas = q.nas
        BY <1>7, <1>23 DEF LogsDisk, StorageTypes, RowsAreOwn, OfEndpoint
    <2>2. /\ asksNas' = [asksNas EXCEPT ![r] = new] /\ diskLog' = diskLog \cup {line}
          /\ UNCHANGED <<inSlot, endpoints, diskRows, hadDisks>>
        BY <1>23 DEF LogsDisk, StorageTypes
    <2>3. pc \in {"register", "log"}
        BY DEF FirstWrite
    <2> HIDE DEF pc
    <2>4. /\ new \in NasRequestType /\ new.ep = q.ep /\ new.platform = q.platform /\ new.nas = q.nas
          /\ new.known = {} /\ new.todo \subseteq q.todo /\ new.pc = pc
        BY <2>1, <2>3 DEF NasRequestType
    <2> HIDE DEF new
    <2>5. OfEndpoint(new)
        BY <1>7, <2>1, <2>3, <2>4 DEF OfEndpoint
    <2>6. line \in [ep : 1..MaxEndpoints, row : DiskReads] /\ LoggedOf(line)
        BY <2>1 DEF LoggedOf, GivenOut
    <2> HIDE DEF line
    <2>7. /\ diskLog' \subseteq [ep : 1..MaxEndpoints, row : DiskReads]
          /\ \A l \in diskLog' : LoggedOf(l)
        BY <2>2, <2>6 DEF StorageTypes, RowsAreOwn
    <2> QED BY <1>4, <2>2, <2>4, <2>5, <2>7 DEF StorageTypes, RowsAreOwn
<1>24. CASE UNCHANGED storageVars
    BY <1>24, KeptRowsStay DEF storageVars, StorageTypes, NumbersInOrder, SlotsAreKept, NasKept, GivenOut
<1> QED BY <1>1, <1>2, <1>3, <1>9, <1>11, <1>12, <1>13, <1>14, <1>15, <1>16, <1>18, <1>19, <1>20, <1>21, <1>22, <1>23, <1>24
        DEF StorageNext

(* Rows that poll_and_log_disks() and register_disk() write are of disks      *)
(* that their endpoint's NAS had by that name, although polls outlive their   *)
(* endpoint and disks are swapped between its requests.                       *)
THEOREM DisksStayTheirOwn == StorageSpec => []DisksAreTheirOwn
<1>1. StorageSpec => []StorageInv
    BY StorageStarts, StorageSteps, PTL DEF StorageSpec
<1>2. StorageInv => DisksAreTheirOwn
    <2> SUFFICES ASSUME StorageInv PROVE DisksAreTheirOwn
        OBVIOUS
    <2>1. \A l \in diskLog : LoggedOf(l)
        BY DEF StorageInv, RowsAreOwn
    <2>2. DOMAIN diskRows = Platforms \X Slots
        BY DEF StorageInv, StorageTypes
    <2>3. \A x \in DOMAIN diskRows : \A d \in {diskRows[x].serial, diskRows[x].health} : ShownOf(x, d)
        BY <2>2 DEF StorageInv, RowsAreOwn
    <2> QED BY <2>1, <2>3 DEF DisksAreTheirOwn, LoggedOf, OfNas, ShownOf
<1> QED BY <1>1, <1>2, PTL

-----------------------------------------------------------------------------
(* Routers.  A session is well or refused only once it is over, and nothing   *)
(* comes after the first answer without it; alone, it has read what is stored *)
(* and believed, and owes at most the one message of its own.                 *)
SessionType == [pc : {"none", "asks", "more", "saves", "reports", "answers"}, job : Jobs, at : Nat,
                was : {"new", "up", "down"}, had : BOOLEAN, heard : BOOLEAN, refused : BOOLEAN,
                ok : BOOLEAN, found : BOOLEAN]
DriverTypes ==
    /\ record \in [there : BOOLEAN, platform : AllPlatforms \cup {"none"},
                   stored : SUBSET {"password", "api_key", "api_secret"}]
    /\ online \in {"new", "up", "down"} /\ upgrades \in BOOLEAN /\ believed \in {"new", "up", "down"}
    /\ session \in [DriverRequests -> SessionType] /\ undisturbed \in BOOLEAN

Earned(s) ==
    /\ s.pc \in {"none", "asks", "more"} => ~s.refused /\ ~s.ok
    /\ s.pc = "more" => s.heard
    /\ s.ok => ~s.refused /\ (s.heard \/ (s.job = "restart" /\ Transport(record.platform) = "ssh"))

(* What a session alone has read and what the messages have said so far.      *)
Alone(s) == IF s.pc = "reports" THEN online = Now(s) /\ believed = (IF s.was = "new" THEN Now(s) ELSE s.was)
                                ELSE s.was = online /\ believed = online
OneAtATime ==
    /\ \A a, b \in DriverRequests : session[a].pc # "none" /\ session[b].pc # "none" => a = b
    /\ record.there => \A a \in DriverRequests : session[a].pc # "none" => Alone(session[a])
    /\ record.there /\ (\A a \in DriverRequests : session[a].pc = "none") => believed = online

DriverInv == DriverTypes /\ (\A a \in DriverRequests : Earned(session[a])) /\ (undisturbed => OneAtATime) /\ SecretsStay

LEMMA NoSessionType == NoSession \in SessionType /\ NoSession.pc = "none" /\ ~NoSession.ok /\ ~NoSession.refused
BY DEF NoSession, SessionType, Jobs

LEMMA DriversStart == DriversInit => DriverInv
<1> SUFFICES ASSUME DriversInit PROVE DriverInv
    OBVIOUS
<1>1. DriverTypes
    BY NoSessionType DEF DriversInit, DriverTypes, NoRouter
<1>2. \A a \in DriverRequests : Earned(session[a])
    BY NoSessionType DEF DriversInit, Earned
<1>3. OneAtATime
    BY NoSessionType DEF DriversInit, OneAtATime
<1>4. SecretsStay
    BY DEF DriversInit, SecretsStay
<1> QED BY <1>1, <1>2, <1>3, <1>4 DEF DriverInv

(* A step of a session that writes nothing else keeps the invariant when it   *)
(* stays the session of its job, and the session's own promises hold.         *)
LEMMA OnlyMovesInv ==
    ASSUME DriverInv, NEW a \in DriverRequests, NEW s \in SessionType, session[a].pc \notin {"none", "reports"},
           s.pc # "reports", s.pc # "none" => s.was = session[a].was, Earned(s), OnlyMoves(a, s)
    PROVE  DriverInv'
<1>1. /\ UNCHANGED <<record, online, upgrades, believed, undisturbed>>
      /\ session' = [session EXCEPT ![a] = s] /\ session \in [DriverRequests -> SessionType]
    BY DEF OnlyMoves, Moves, DriverInv, DriverTypes
<1>2. /\ session' \in [DriverRequests -> SessionType] /\ session'[a] = s
      /\ \A b \in DriverRequests \ {a} : session'[b] = session[b]
    BY <1>1
<1>3. DriverTypes'
    BY <1>1, <1>2 DEF DriverInv, DriverTypes
<1>4. \A b \in DriverRequests : Earned(session'[b])
    BY <1>2 DEF DriverInv
<1>5. (\A b \in DriverRequests : Earned(session[b]))'
    BY <1>1, <1>4 DEF Earned
<1>6. ASSUME undisturbed PROVE OneAtATime'
    <2>1. OneAtATime
        BY <1>6 DEF DriverInv
    <2>2. \A b, c \in DriverRequests : session'[b].pc # "none" /\ session'[c].pc # "none" => b = c
        BY <1>2, <2>1 DEF OneAtATime
    <2>3. \A b \in DriverRequests \ {a} : session'[b].pc = "none"
        BY <1>2, <2>1 DEF OneAtATime
    <2>4. ASSUME record.there PROVE s.pc # "none" => s.was = online
        BY <2>1, <2>4 DEF OneAtATime, Alone
    <2>5. ASSUME record.there PROVE believed = online
        BY <2>1, <2>5 DEF OneAtATime, Alone
    <2>6. ASSUME record.there, NEW b \in DriverRequests, session'[b].pc # "none"
          PROVE  Alone(session[b])'
        <3>1. b = a
            BY <2>3, <2>6
        <3> QED BY <1>1, <1>2, <2>4, <2>5, <2>6, <3>1 DEF Alone
    <2> QED BY <1>1, <2>2, <2>5, <2>6 DEF OneAtATime
<1>7. SecretsStay'
    BY <1>1 DEF DriverInv, SecretsStay
<1> QED BY <1>1, <1>3, <1>5, <1>6, <1>7 DEF DriverInv

(* How a session goes on.                                                     *)
LEMMA RaisesWell ==
    ASSUME NEW s \in SessionType, s.pc \in {"asks", "more"}, Earned(s), NEW t, t = Transport(record.platform), NEW fate
    PROVE  /\ Raises(s, t, fate) \in SessionType /\ Raises(s, t, fate).was = s.was
           /\ Raises(s, t, fate).pc \in {"saves", "answers"} /\ Earned(Raises(s, t, fate))
<1> DEFINE r == Raises(s, t, fate)
<1>1. /\ r \in SessionType /\ r.was = s.was /\ r.pc \in {"saves", "answers"} /\ r.job = s.job /\ r.heard = s.heard
      /\ r.refused = (fate = "refused") /\ r.ok = (s.job = "restart" /\ t = "ssh" /\ fate = "closed")
    BY DEF Raises, SessionType
<1>2. r.ok => ~r.refused /\ r.job = "restart" /\ t = "ssh"
    BY <1>1
<1> QED BY <1>1, <1>2 DEF Earned

LEMMA EndsWell ==
    ASSUME NEW s \in SessionType, s.heard, ~s.refused, NEW ok \in BOOLEAN
    PROVE  /\ EndsJob(s, ok) \in SessionType /\ EndsJob(s, ok).was = s.was
           /\ EndsJob(s, ok).pc \in {"saves", "answers"} /\ Earned(EndsJob(s, ok))
<1> DEFINE r == EndsJob(s, ok)
<1>1. /\ r \in SessionType /\ r.was = s.was /\ r.pc \in {"saves", "answers"} /\ r.heard /\ ~r.refused
    BY DEF EndsJob, SessionType
<1> QED BY <1>1 DEF Earned

LEMMA FailureStep ==
    ASSUME DriverInv, NEW a \in DriverRequests, NEW fate, RequestFails(a, fate)
    PROVE  DriverInv'
<1> DEFINE s == session[a]  t == Transport(record.platform)
<1>1. s \in SessionType /\ s.pc = "asks" /\ Earned(s)
    BY DEF DriverInv, DriverTypes, RequestFails
<1>2. CASE AsksSystem(s, t) /\ fate # "refused"
    <2> DEFINE n == SystemUnknown(s)
    <2>1. OnlyMoves(a, n)
        BY <1>2 DEF RequestFails
    <2>2. /\ n \in SessionType /\ n.was = s.was /\ n.pc = "asks" /\ ~n.refused /\ ~n.ok
        BY <1>1 DEF SystemUnknown, SessionType, Earned
    <2>3. Earned(n)
        BY <2>2 DEF Earned
    <2> HIDE DEF n
    <2> QED BY <1>1, <2>1, <2>2, <2>3, OnlyMovesInv
<1>3. CASE ~(AsksSystem(s, t) /\ fate # "refused")
    <2>1. OnlyMoves(a, Raises(s, t, fate))
        BY <1>3 DEF RequestFails
    <2> QED BY <1>1, <2>1, RaisesWell, OnlyMovesInv
<1> QED BY <1>2, <1>3

LEMMA AnswerStep ==
    ASSUME DriverInv, NEW a \in DriverRequests, NEW fate, RequestAnswered(a, fate)
    PROVE  DriverInv'
<1> DEFINE s == session[a]  p == record.platform  answered == [s EXCEPT !.heard = TRUE]
<1>1. s \in SessionType /\ s.pc = "asks" /\ Earned(s)
    BY DEF DriverInv, DriverTypes, RequestAnswered
<1>2. answered \in SessionType /\ answered.heard /\ ~answered.refused /\ ~answered.ok /\ answered.was = s.was
      /\ answered.pc = "asks" /\ answered.at \in Nat
    BY <1>1 DEF SessionType, Earned
<1>3. RequestAnswered(a, fate) =
          /\ s.pc = "asks" /\ ~Unanswered(s, Transport(p), fate)
          /\ IF NotTheLast(s, p) THEN OnlyMoves(a, [answered EXCEPT !.at = @ + 1])
             ELSE IF Optional(p, s.job) THEN OnlyMoves(a, [answered EXCEPT !.pc = "more", !.at = 1])
             ELSE \E found \in UpdatesIn(s.job, fate),
                     ok \in IF s.job = "backup" THEN BackupAccepted(p, fate) ELSE Understood(s.job) :
                         OnlyMoves(a, EndsJob([answered EXCEPT !.found = found], ok))
    BY Zenon DEF RequestAnswered
<1> HIDE DEF answered
<1>4. CASE NotTheLast(s, p)
    <2> DEFINE n == [answered EXCEPT !.at = @ + 1]
    <2>1. OnlyMoves(a, n)
        BY <1>3, <1>4
    <2>2. n \in SessionType /\ n.was = s.was /\ n.pc = "asks" /\ ~n.refused /\ ~n.ok
        BY <1>2 DEF SessionType
    <2>3. Earned(n)
        BY <2>2 DEF Earned
    <2> HIDE DEF n
    <2> QED BY <1>1, <2>1, <2>2, <2>3, OnlyMovesInv
<1>5. CASE ~NotTheLast(s, p) /\ Optional(p, s.job)
    <2> DEFINE n == [answered EXCEPT !.pc = "more", !.at = 1]
    <2>1. OnlyMoves(a, n)
        BY <1>3, <1>5
    <2>2. n \in SessionType /\ n.was = s.was /\ n.pc = "more" /\ ~n.refused /\ ~n.ok /\ n.heard
        BY <1>2 DEF SessionType
    <2>3. Earned(n)
        BY <2>2 DEF Earned
    <2> HIDE DEF n
    <2> QED BY <1>1, <2>1, <2>2, <2>3, OnlyMovesInv
<1>6. CASE ~NotTheLast(s, p) /\ ~Optional(p, s.job)
    <2>1. PICK found \in UpdatesIn(s.job, fate),
               ok \in IF s.job = "backup" THEN BackupAccepted(p, fate) ELSE Understood(s.job) :
                   OnlyMoves(a, EndsJob([answered EXCEPT !.found = found], ok))
        BY <1>3, <1>6
    <2>2. found \in BOOLEAN /\ ok \in BOOLEAN
        BY DEF UpdatesIn, BackupAccepted, Understood
    <2> DEFINE n == [answered EXCEPT !.found = found]
    <2>3. n \in SessionType /\ n.heard /\ ~n.refused /\ n.was = s.was
        BY <1>2, <2>2 DEF SessionType
    <2>4. OnlyMoves(a, EndsJob(n, ok))
        BY <2>1
    <2> HIDE DEF n
    <2> QED BY <1>1, <2>2, <2>3, <2>4, EndsWell, OnlyMovesInv
<1> QED BY <1>4, <1>5, <1>6

LEMMA RestStep ==
    ASSUME DriverInv, NEW a \in DriverRequests,
           \/ \E fate \in Fates : CheckTried(a, fate)
           \/ StatusRefused(a) \/ StatusComplete(a) \/ JobAnswered(a)
    PROVE  DriverInv'
<1> DEFINE s == session[a]
<1>1. s \in SessionType /\ Earned(s) /\ (s.pc = "more" => s.heard /\ ~s.refused /\ ~s.ok)
    BY DEF DriverInv, DriverTypes, Earned
<1>2. CASE StatusRefused(a)
    BY <1>1, <1>2, RaisesWell, OnlyMovesInv DEF StatusRefused
<1>3. CASE StatusComplete(a)
    <2>1. PICK ok \in BOOLEAN : OnlyMoves(a, EndsJob(s, ok))
        BY <1>3 DEF StatusComplete, Understood
    <2>2. s.pc = "more"
        BY <1>3 DEF StatusComplete
    <2> QED BY <1>1, <2>1, <2>2, EndsWell, OnlyMovesInv
<1>4. CASE JobAnswered(a)
    <2>1. Earned(NoSession)
        BY NoSessionType DEF Earned
    <2> QED BY <1>1, <1>4, <2>1, NoSessionType, OnlyMovesInv DEF JobAnswered
<1>5. ASSUME NEW fate \in Fates, CheckTried(a, fate) PROVE DriverInv'
    <2>1. s.pc = "more" /\ s.job = "updates" /\ s.at \in Nat
        BY <1>1, <1>5 DEF CheckTried, SessionType
    <2>2. CASE fate = "refused" /\ OnlyMoves(a, Raises(s, "api", fate))
        <3>1. Raises(s, "api", fate) = Raises(s, Transport(record.platform), fate)
            BY <2>1 DEF Raises
        <3> QED BY <1>1, <2>1, <2>2, <3>1, RaisesWell, OnlyMovesInv
    <2>3. CASE OnlyMoves(a, [s EXCEPT !.at = @ + 1])
        <3> DEFINE n == [s EXCEPT !.at = @ + 1]
        <3>1. n \in SessionType /\ n.was = s.was /\ n.pc = "more" /\ ~n.refused /\ ~n.ok /\ n.heard
            BY <1>1, <2>1 DEF SessionType
        <3>2. Earned(n)
            BY <3>1 DEF Earned
        <3>3. OnlyMoves(a, n)
            BY <2>3
        <3> HIDE DEF n
        <3> QED BY <1>1, <2>1, <3>1, <3>2, <3>3, OnlyMovesInv
    <2>4. ASSUME NEW found \in UpdatesIn("updates", fate), OnlyMoves(a, EndsJob([s EXCEPT !.found = found], TRUE))
          PROVE  DriverInv'
        <3> DEFINE n == [s EXCEPT !.found = found]
        <3>1. n \in SessionType /\ n.heard /\ ~n.refused /\ n.was = s.was
            BY <1>1, <2>1 DEF SessionType, UpdatesIn
        <3>2. OnlyMoves(a, EndsJob(n, TRUE))
            BY <2>4
        <3> HIDE DEF n
        <3> QED BY <1>1, <2>1, <3>1, <3>2, EndsWell, OnlyMovesInv
    <2> QED BY <1>5, <2>2, <2>3, <2>4 DEF CheckTried
<1> QED BY <1>2, <1>3, <1>4, <1>5

LEMMA SaveStep ==
    ASSUME DriverInv, NEW a \in DriverRequests, StoresStatus(a) \/ StoresUpdates(a)
    PROVE  DriverInv'
<1> DEFINE s == session[a]
           n == IF StoresStatus(a) THEN [s EXCEPT !.pc = "reports"] ELSE [s EXCEPT !.pc = "answers"]
<1>1. s \in SessionType /\ s.pc = "saves" /\ Earned(s) /\ DriverTypes /\ Now(s) \in {"up", "down"}
    BY DEF DriverInv, DriverTypes, StoresStatus, StoresUpdates, Now
<1>2. /\ UNCHANGED <<record, undisturbed>> /\ session' = [session EXCEPT ![a] = n]
    BY DEF StoresStatus, StoresUpdates, Moves
<1>3. /\ n \in SessionType /\ n.was = s.was /\ n.ok = s.ok /\ n.refused = s.refused /\ n.heard = s.heard
      /\ n.job = s.job /\ n.pc \in {"reports", "answers"} /\ Now(n) = Now(s)
    BY <1>1 DEF SessionType, Now
<1>4. Earned(n)
    BY <1>1, <1>3 DEF Earned
<1>5. /\ session' \in [DriverRequests -> SessionType] /\ session'[a] = n
      /\ \A b \in DriverRequests \ {a} : session'[b] = session[b]
    BY <1>1, <1>2, <1>3 DEF DriverTypes
<1>6. DriverTypes'
    <2>1. CASE StoresStatus(a)
        BY <1>1, <1>2, <1>5, <2>1 DEF StoresStatus, DriverTypes, SessionType
    <2>2. CASE StoresUpdates(a)
        BY <1>1, <1>2, <1>5, <2>2 DEF StoresUpdates, DriverTypes, SessionType
    <2> QED BY <2>1, <2>2
<1>7. (\A b \in DriverRequests : Earned(session[b]))'
    BY <1>2, <1>4, <1>5 DEF DriverInv, Earned
<1>8. ASSUME undisturbed PROVE OneAtATime'
    <2>1. OneAtATime
        BY <1>8 DEF DriverInv
    <2>2. \A b, c \in DriverRequests : session'[b].pc # "none" /\ session'[c].pc # "none" => b = c
        BY <1>1, <1>5, <2>1 DEF OneAtATime
    <2>3. \A b \in DriverRequests \ {a} : session'[b].pc = "none"
        BY <1>1, <1>5, <2>1 DEF OneAtATime
    <2>4. ASSUME record.there PROVE s.was = online /\ believed = online
        BY <1>1, <2>1, <2>4 DEF OneAtATime, Alone
    <2>5. ASSUME record.there PROVE Alone(session[a])'
        <3>1. CASE StoresStatus(a)
            <4>1. n.pc = "reports"
                BY <1>1, <3>1 DEF SessionType
            <4>2. online' = Now(s) /\ believed' = (IF believed = "new" THEN Now(s) ELSE believed)
                BY <2>5, <3>1 DEF StoresStatus
            <4>3. online' = Now(n) /\ believed' = (IF n.was = "new" THEN Now(n) ELSE n.was)
                BY <1>3, <2>4, <2>5, <4>2
            <4> HIDE DEF n
            <4> QED BY <1>5, <4>1, <4>3 DEF Alone, Now
        <3>2. CASE ~StoresStatus(a)
            <4>1. n.pc = "answers"
                BY <1>1, <3>2 DEF SessionType
            <4>2. online' = s.was /\ believed' = believed
                BY <2>5, <3>2 DEF StoresUpdates
            <4> HIDE DEF n
            <4> QED BY <1>3, <1>5, <2>4, <2>5, <4>1, <4>2 DEF Alone
        <3> QED BY <3>1, <3>2
    <2>6. session'[a].pc # "none"
        BY <1>3, <1>5
    <2>7. ASSUME record.there, NEW b \in DriverRequests, session'[b].pc # "none" PROVE Alone(session[b])'
        <3>1. b = a
            BY <2>3, <2>7
        <3> QED BY <2>5, <2>7, <3>1
    <2> QED BY <1>2, <2>2, <2>6, <2>7 DEF OneAtATime
<1>9. SecretsStay'
    BY <1>2 DEF DriverInv, SecretsStay
<1> QED BY <1>2, <1>6, <1>7, <1>8, <1>9 DEF DriverInv

LEMMA ReportStep ==
    ASSUME DriverInv, NEW a \in DriverRequests, ReportsChange(a)
    PROVE  DriverInv'
<1> DEFINE s == session[a]
<1>1. s \in SessionType /\ s.pc = "reports" /\ DriverTypes /\ Now(s) \in {"up", "down"}
    BY DEF DriverInv, DriverTypes, ReportsChange, Now
<1>2. /\ UNCHANGED <<record, online, upgrades, undisturbed>> /\ session' = [session EXCEPT ![a] = NoSession]
      /\ believed' = IF s.was # "new" /\ s.was # Now(s) THEN Now(s) ELSE believed
    BY DEF ReportsChange, Moves, StatusChanged
<1>3. /\ session' \in [DriverRequests -> SessionType] /\ session'[a] = NoSession
      /\ \A b \in DriverRequests \ {a} : session'[b] = session[b]
    BY <1>1, <1>2, NoSessionType DEF DriverTypes
<1>4. DriverTypes'
    BY <1>1, <1>2, <1>3 DEF DriverTypes
<1>5. (\A b \in DriverRequests : Earned(session[b]))'
    BY <1>2, <1>3, NoSessionType DEF DriverInv, Earned
<1>6. ASSUME undisturbed PROVE OneAtATime'
    <2>1. OneAtATime
        BY <1>6 DEF DriverInv
    <2>2. \A b \in DriverRequests : session'[b].pc = "none"
        BY <1>1, <1>3, <2>1, NoSessionType DEF OneAtATime
    <2>3. ASSUME record.there PROVE Alone(s)
        BY <1>1, <2>1, <2>3 DEF OneAtATime
    <2>4. ASSUME record.there PROVE believed' = online'
        BY <1>1, <1>2, <2>3, <2>4 DEF Alone
    <2> QED BY <1>2, <2>2, <2>4 DEF OneAtATime
<1>7. SecretsStay'
    BY <1>2 DEF DriverInv, SecretsStay
<1> QED BY <1>2, <1>4, <1>5, <1>6, <1>7 DEF DriverInv

LEMMA BeginStep ==
    ASSUME DriverInv, NEW a \in DriverRequests, NEW job \in Jobs, BeginsJob(a, job)
    PROVE  DriverInv'
<1> DEFINE n == [NoSession EXCEPT !.pc = "asks", !.job = job, !.was = online, !.had = upgrades]
<1>1. /\ UNCHANGED <<record, online, upgrades, believed>> /\ session' = [session EXCEPT ![a] = n]
      /\ undisturbed' = (undisturbed /\ Active = {}) /\ DriverTypes
    BY DEF BeginsJob, Moves, DriverInv
<1>2. n \in SessionType /\ n.pc = "asks" /\ n.was = online /\ ~n.ok /\ ~n.refused
    BY <1>1 DEF NoSession, SessionType, DriverTypes, Jobs
<1> HIDE DEF n
<1>3. /\ session' \in [DriverRequests -> SessionType] /\ session'[a] = n
      /\ \A b \in DriverRequests \ {a} : session'[b] = session[b]
    BY <1>1, <1>2 DEF DriverTypes
<1>4. DriverTypes'
    BY <1>1, <1>3 DEF DriverTypes
<1>5. (\A b \in DriverRequests : Earned(session[b]))'
    BY <1>1, <1>2, <1>3 DEF DriverInv, Earned
<1>6. ASSUME undisturbed' PROVE OneAtATime'
    <2>1. OneAtATime /\ \A b \in DriverRequests : session[b].pc = "none"
        BY <1>1, <1>6 DEF DriverInv, Active
    <2>2. record.there => believed = online
        BY <2>1 DEF OneAtATime
    <2>3. \A b \in DriverRequests \ {a} : session'[b].pc = "none"
        BY <1>3, <2>1
    <2>4. ASSUME record.there PROVE Alone(session[a])'
        BY <1>1, <1>2, <1>3, <2>2, <2>4 DEF Alone
    <2>5. session'[a].pc # "none"
        BY <1>2, <1>3
    <2> QED BY <1>1, <2>3, <2>4, <2>5 DEF OneAtATime
<1>7. SecretsStay'
    BY <1>1 DEF DriverInv, SecretsStay
<1> QED BY <1>4, <1>5, <1>6, <1>7 DEF DriverInv

LEMMA RecordStep ==
    ASSUME DriverInv,
           \/ \E given \in SUBSET {"password", "api_key", "api_secret"} :
                  EditsRouter(given) \/ \E p \in RouterPlatforms : AddsRouter(p, given)
           \/ RemovesRouter \/ JobsCutOff
    PROVE  DriverInv'
<1>1. DriverTypes /\ RouterPlatforms \subseteq AllPlatforms
    BY DriverAssumption DEF DriverInv
<1>2. ASSUME NEW given \in SUBSET {"password", "api_key", "api_secret"}, EditsRouter(given) PROVE DriverInv'
    <2>1. /\ record.there /\ UNCHANGED <<online, upgrades, believed, session, undisturbed>>
          /\ record' = [record EXCEPT !.stored = record.stored \cup (given \cap Takes(record.platform))]
        BY <1>2 DEF EditsRouter, KeptSecrets
    <2>2. /\ record'.there = record.there /\ record'.platform = record.platform
          /\ record.stored \subseteq record'.stored
        BY <1>1, <2>1 DEF DriverTypes
    <2>3. DriverTypes'
        BY <1>1, <2>1 DEF DriverTypes
    <2>4. (\A b \in DriverRequests : Earned(session[b]))'
        BY <2>1, <2>2 DEF DriverInv, Earned
    <2>5. (undisturbed => OneAtATime)'
        BY <2>1, <2>2 DEF DriverInv, OneAtATime, Alone, Now
    <2>6. SecretsStay'
        <3>1. record # NoRouter
            BY <2>1 DEF NoRouter
        <3> QED BY <2>2, <3>1 DEF DriverInv, SecretsStay
    <2> QED BY <2>3, <2>4, <2>5, <2>6 DEF DriverInv
<1>3. ASSUME NEW given \in SUBSET {"password", "api_key", "api_secret"}, NEW p \in RouterPlatforms, AddsRouter(p, given)
      PROVE  DriverInv'
    <2>1. /\ \A b \in DriverRequests : session[b] = NoSession
          /\ Needs(p) \subseteq given /\ record' = [there |-> TRUE, platform |-> p, stored |-> given \cap Takes(p)]
          /\ online' = "new" /\ upgrades' = FALSE /\ believed' = "new" /\ undisturbed' = TRUE /\ session' = session
        BY <1>3 DEF AddsRouter
    <2>2. DriverTypes'
        BY <1>1, <2>1 DEF DriverTypes
    <2>3. (\A b \in DriverRequests : Earned(session[b]))'
        BY <2>1, NoSessionType DEF Earned
    <2>4. OneAtATime'
        BY <2>1, NoSessionType DEF OneAtATime
    <2>5. Needs(p) \subseteq Takes(p)
        BY DEF Needs, Takes
    <2>6. SecretsStay'
        BY <2>1, <2>5 DEF SecretsStay
    <2> QED BY <2>2, <2>3, <2>4, <2>6 DEF DriverInv
<1>4. CASE RemovesRouter
    <2>1. /\ record.there /\ UNCHANGED <<online, upgrades, believed, session, undisturbed>>
          /\ record' = [record EXCEPT !.there = FALSE]
        BY <1>4 DEF RemovesRouter
    <2>2. /\ ~record'.there /\ record'.platform = record.platform /\ record'.stored = record.stored
        BY <1>1, <2>1 DEF DriverTypes
    <2>3. DriverTypes'
        BY <1>1, <2>1 DEF DriverTypes
    <2>4. (\A b \in DriverRequests : Earned(session[b]))'
        BY <2>1, <2>2 DEF DriverInv, Earned
    <2>5. (undisturbed => OneAtATime)'
        BY <2>1, <2>2 DEF DriverInv, OneAtATime
    <2>6. SecretsStay'
        <3>1. record # NoRouter
            BY <2>1 DEF NoRouter
        <3> QED BY <2>2, <3>1 DEF DriverInv, SecretsStay
    <2> QED BY <2>3, <2>4, <2>5, <2>6 DEF DriverInv
<1>5. CASE JobsCutOff
    <2>1. /\ UNCHANGED <<record, online, upgrades, believed>> /\ undisturbed' = FALSE
          /\ session' = [b \in DriverRequests |-> NoSession]
        BY <1>5 DEF JobsCutOff
    <2>2. DriverTypes'
        BY <1>1, <2>1, NoSessionType DEF DriverTypes
    <2>3. (\A b \in DriverRequests : Earned(session[b]))'
        BY <2>1, NoSessionType DEF Earned
    <2>4. SecretsStay'
        BY <2>1 DEF DriverInv, SecretsStay
    <2> QED BY <2>1, <2>2, <2>3, <2>4 DEF DriverInv
<1> QED BY <1>2, <1>3, <1>4, <1>5

LEMMA DriverSteps == DriverInv /\ [DriversNext]_driverVars => DriverInv'
<1> SUFFICES ASSUME DriverInv, [DriversNext]_driverVars PROVE DriverInv'
    OBVIOUS
<1>1. CASE UNCHANGED driverVars
    <2>1. DriverTypes' /\ (\A a \in DriverRequests : Earned(session[a]))' /\ SecretsStay'
        BY <1>1 DEF driverVars, DriverInv, DriverTypes, Earned, SecretsStay
    <2>2. (undisturbed => OneAtATime)'
        BY <1>1 DEF driverVars, DriverInv, OneAtATime, Alone, Now
    <2> QED BY <2>1, <2>2 DEF DriverInv
<1>2. ASSUME NEW a \in DriverRequests, JobStep(a) PROVE DriverInv'
    BY <1>2, FailureStep, AnswerStep, RestStep, SaveStep, ReportStep DEF JobStep
<1> QED BY <1>1, <1>2, BeginStep, RecordStep DEF DriversNext

(* What pages and messages say of a router is what it answered, whatever it   *)
(* or the network does at each request; a message is missed or doubled only   *)
(* when jobs overlap or are cut off; no edit of the form loses a secret.      *)
THEOREM RoutersStayTold == DriversSpec => []RoutersAreTold
<1>1. DriversSpec => []DriverInv
    BY DriversStart, DriverSteps, PTL DEF DriversSpec
<1>2. DriverInv => RoutersAreTold
    <2> SUFFICES ASSUME DriverInv PROVE RoutersAreTold
        OBVIOUS
    <2>1. AnswersAreEarned
        BY DEF DriverInv, Earned, AnswersAreEarned
    <2>2. OutagesAreTold
        <3> SUFFICES ASSUME undisturbed, record.there, \A a \in DriverRequests : session[a].pc # "reports"
                     PROVE  believed = online
            BY DEF OutagesAreTold
        <3>1. OneAtATime
            BY DEF DriverInv
        <3>2. CASE \A a \in DriverRequests : session[a].pc = "none"
            BY <3>1, <3>2 DEF OneAtATime
        <3>3. ASSUME NEW a \in DriverRequests, session[a].pc # "none" PROVE believed = online
            BY <3>1, <3>3 DEF OneAtATime, Alone
        <3> QED BY <3>2, <3>3
    <2> QED BY <2>1, <2>2 DEF DriverInv, RoutersAreTold
<1> QED BY <1>1, <1>2, PTL

-----------------------------------------------------------------------------
(* Pages of fan controllers and Commanders show their own device and never go *)
(* back (get_latest() of fan_controller.py and of corsair_commander.py).      *)
THEOREM PagesKeepStaying == FanSamplesSpec /\ CommanderSpec => PagesStay
<1> QED
  BY FanPagesStay, CommanderPagesAreKept DEF PagesStay

(* What FleetPilot tells others is so: who is let in, which disks fail,       *)
(* which disks a NAS has, which version is new, what a router answered        *)
(* (checkmk_integration.py, storage_controller.py, version_manager.py,        *)
(* router_manager.py).                                                        *)
THEOREM ToldStaysTrue == MonitoringSpec /\ StorageSpec /\ VersionSpec /\ DriversSpec => []ToldIsTrue
<1> QED
    BY TokensStayRight, FailuresStayTold, DisksStayTheirOwn, NoticesStayTrue, RoutersStayTold, PTL DEF ToldIsTrue
=============================================================================
