------------------------------ MODULE FanSetup ------------------------------
(***************************************************************************)
(* Finding, testing, equipping and reading a fan controller over SSH       *)
(* (fan_controller.py and its routes in app.py).  Four pieces of code look *)
(* at one host in their own ways: the detection, the test, the             *)
(* installation of packages, and the reading of each type.                 *)
(***************************************************************************)
EXTENDS Integers, FiniteSetsExt

CONSTANTS FanHosts,    \* the states a host can be in at first, see FanHost
          Others,      \* the tools others install and remove
          Installers   \* requests that install packages

VARIABLES fanHost,  \* the host as it is
          told,     \* the last answer of a detection, a test or a reading of the host as it is
          install   \* what each installation is doing

setupVars == <<fanHost, told, install>>

FanTools == {"sensors", "ipmitool", "nbfc", "liquidctl", "python3", "hid"}
ControllerTypes ==
    {"lm_sensors", "ipmi", "nbfc", "liquidctl", "arctic_usb", "pwm_sysfs", "rpi_gpio_fan"}

(* A host: whether a login works; the tools it has; whether the Arctic        *)
(* controller is plugged in, perhaps driven by the kernel; whether the board  *)
(* is a Raspberry Pi with the fan's overlay; what cools it; and what else it  *)
(* has: PWM nodes, a BMC with sensors of fans, lines among them with a number *)
(* of RPM in the columns where the reading looks for it, a device liquidctl   *)
(* lists (which may be for the lights only), and speeds in its status.        *)
FanHost == [up : BOOLEAN, root : BOOLEAN, debian : BOOLEAN, tools : SUBSET FanTools,
         arctic : {"no", "usb", "driven"}, pi : {"no", "board", "overlay"},
         cooling : {"none", "other", "pwm-fan"}, has : SUBSET {"pwm", "bmc", "rpm", "cooler", "speeds"}]

ASSUME HostsAssumption == FanHosts \subseteq FanHost /\ Others \subseteq FanTools

NothingTold == [kind |-> "nothing"]
NoInstall == [pc |-> "none", type |-> "ipmi"]

FanSetupInit ==
    /\ fanHost \in FanHosts /\ told = NothingTold
    /\ install = [r \in Installers |-> NoInstall]

-----------------------------------------------------------------------------
(* The readings: [ok, error, fans], fans whether the page has any to show.    *)
Answered(fans) == [ok |-> TRUE, error |-> FALSE, fans |-> fans]
NotRead == [ok |-> FALSE, error |-> TRUE, fans |-> FALSE]
PartlyRead == [NotRead EXCEPT !.fans = TRUE]

(* The answer of a command-line tool is parsed as far as it is understood and *)
(* is an answer even when the shell did not find the tool.  Only a lost       *)
(* connection is an error, and between two commands it leaves what was parsed *)
(* before it.                                                                 *)
ToolReads(hasFans) == {NotRead, Answered(FALSE)} \cup (IF hasFans THEN {Answered(TRUE)} ELSE {})
ToolsRead(hasFans) == ToolReads(hasFans) \cup (IF hasFans THEN {PartlyRead} ELSE {})

(* _fetch_lm_sensors(), _fetch_ipmi(), _fetch_nbfc(), _fetch_liquidctl() and  *)
(* _fetch_pwm_sysfs()                                                         *)
LmSensorsReads(h) == ToolsRead("sensors" \in h.tools) \cup ToolReads("pwm" \in h.has)
IpmiReads(h) == ToolsRead({"ipmitool", "bmc", "rpm"} \subseteq h.tools \cup h.has)
NbfcReads(h) == ToolsRead("nbfc" \in h.tools)
LiquidctlReads(h) == ToolReads({"liquidctl", "cooler", "speeds"} \subseteq h.tools \cup h.has)
SysfsReads(h) == ToolReads("pwm" \in h.has)

(* _rpi_gpio_settings(): the pin is looked at before the host is asked.       *)
PinError(pin) == pin \notin 0..27

(* _fetch_rpi_gpio_fan(): one fan, on a Raspberry Pi only.                    *)
RpiReads(h, pin) == {NotRead} \cup (IF ~PinError(pin) /\ h.pi # "no" THEN {Answered(TRUE)} ELSE {})

\* Mutant: what the script printed is good whether or not there were channels in it.
ChannelsOrNot(h) == {NotRead, Answered(h.arctic = "driven")}

(* _ARCTIC_READ_SCRIPT: the ten channels of the kernel's driver, else a USB   *)
(* report through the module hid, for which the controller must be there and  *)
(* deliver.                                                                   *)
ScriptChannels(h) ==
    IF "python3" \notin h.tools THEN {FALSE}
    ELSE IF h.arctic = "driven" THEN {TRUE}
    ELSE IF "hid" \in h.tools /\ h.arctic = "usb" THEN {TRUE, FALSE}
    ELSE {FALSE}

(* _fetch_arctic_usb(): no channels is an error, whatever else was printed.   *)
ArcticReads(h) == {NotRead} \cup (IF TRUE \in ScriptChannels(h) THEN {Answered(TRUE)} ELSE {})

(* fetch_status()                                                             *)
Fetch(type, h, pin) ==
    IF ~h.up THEN {NotRead}
    ELSE CASE type = "ipmi"         -> IpmiReads(h)
           [] type = "nbfc"         -> NbfcReads(h)
           [] type = "liquidctl"    -> LiquidctlReads(h)
           [] type = "pwm_sysfs"    -> SysfsReads(h)
           [] type = "arctic_usb"   -> ArcticReads(h)
           [] type = "rpi_gpio_fan" -> RpiReads(h, pin)
           [] OTHER                 -> LmSensorsReads(h)

(* fc_refresh()                                                               *)
ReadsStatus(type, pin) ==
    /\ \E s \in Fetch(type, fanHost, pin) :
           told' = [kind |-> "reading", type |-> type, status |-> s]
    /\ UNCHANGED <<fanHost, install>>

-----------------------------------------------------------------------------
(* The value of the PWM register a percentage becomes, and the percentage the *)
(* pages show for a value.                                                    *)
PwmValue(percent) == (percent * 255) \div 100
PwmPercent(value) == (200 * value + 255) \div 510

-----------------------------------------------------------------------------
(* check_cmd of each type.  A pipe into head ends with the code of head, so   *)
(* that the tools that are asked for their version this way are always there; *)
(* xargs has no complaint about an empty input.                               *)
CheckSucceeds(type, h) ==
    CASE type = "arctic_usb"   -> {"python3", "hid"} \subseteq h.tools \/ h.arctic # "no"
      [] type = "rpi_gpio_fan" -> h.cooling # "other"
      [] OTHER                 -> TRUE

(* test_connection() and fc_test()                                            *)
TestsConnection(type) ==
    /\ told' = [kind |-> "test", type |-> type, ok |-> fanHost.up /\ CheckSucceeds(type, fanHost)]
    /\ UNCHANGED <<fanHost, install>>

(* detect_controllers(): each type is looked for by commands of its own.  The *)
(* version commands end in a pipe, as above, so that liquidctl, lm-sensors,   *)
(* ipmitool and nbfc are suggested for every host.  The confidence in ipmitool*)
(* and liquidctl is high for any sensor and any device in their lists, whether*)
(* or not the reading would find a speed there.  lsusb is taken to be there.  *)
ConfidenceIf(seen) == IF seen THEN "high" ELSE "medium"

SuggestedRpi(h) == IF h.pi = "no" THEN {} ELSE {<<"rpi_gpio_fan", ConfidenceIf(h.pi = "overlay")>>}
SuggestedLiquidctl(h) == {<<"liquidctl", ConfidenceIf({"liquidctl", "cooler"} \subseteq h.tools \cup h.has)>>}
SuggestedSensors(h) ==
    {<<"lm_sensors", c>> : c \in {ConfidenceIf("pwm" \in h.has)} \cup (IF "sensors" \in h.tools THEN {"high"} ELSE {})}
SuggestedSysfs(h) == IF "pwm" \in h.has THEN {<<"pwm_sysfs", "high">>} ELSE {}
SuggestedIpmi(h) == {<<"ipmi", ConfidenceIf({"ipmitool", "bmc"} \subseteq h.tools \cup h.has)>>}
SuggestedNbfc(h) == {<<"nbfc", "high">>}
SuggestedArctic(h) ==
    IF h.arctic = "no" THEN {}
    ELSE {<<"arctic_usb", ConfidenceIf(h.arctic = "driven" \/ {"python3", "hid"} \subseteq h.tools)>>}

Suggestions(h) ==
    UNION {SuggestedRpi(h), SuggestedLiquidctl(h), SuggestedSysfs(h), SuggestedIpmi(h), SuggestedNbfc(h), SuggestedArctic(h)}

(* Sorted by confidence; what stands first may be any of the best.            *)
Foremost(suggested) ==
    {s \in suggested : s[2] = "high" \/ \A t \in suggested : t[2] # "high"}

(* fc_detect().  The number of fans lm-sensors prints decides its confidence; *)
(* a command that takes too long ends it without any suggestion.              *)
DetectsControllers ==
    /\ \E sensors \in SuggestedSensors(fanHost), ok \in {FALSE, fanHost.up} :
           LET suggested == IF ok THEN Suggestions(fanHost) \cup {sensors} ELSE {} IN
           told' = [kind |-> "advice", ok |-> ok, suggested |-> suggested, first |-> Foremost(suggested)]
    /\ UNCHANGED <<fanHost, install>>

-----------------------------------------------------------------------------
(* What the packages of a type bring, by apt, pacman or dnf, and by pip.      *)
AptBrings(type) ==
    CASE type \in {"lm_sensors", "pwm_sysfs"} -> {"sensors"}
      [] type = "ipmi"                        -> {"ipmitool"}
      [] type = "liquidctl"                   -> {"liquidctl"}
      [] type = "arctic_usb"                  -> {"hid"}
      [] OTHER                                -> {}
PipBrings(type) == IF type \in {"liquidctl", "arctic_usb"} THEN AptBrings(type) ELSE {}

InstallAt(r, pc) == install' = [install EXCEPT ![r].pc = pc]
HostBecomes(h) == fanHost' = h /\ told' = IF h = fanHost THEN told ELSE NothingTold
Brings(tools) == HostBecomes(fanHost) \/ (fanHost.root /\ HostBecomes([fanHost EXCEPT !.tools = @ \cup tools]))

(* fc_install() and the thread of install_packages(): connects, asks for the  *)
(* distribution.  Whoever is neither root nor may use sudo gets no packages.  *)
InstallBegins(r, type) ==
    /\ install[r].pc = "none"
    /\ install' = [install EXCEPT ![r] = [NoInstall EXCEPT !.pc = "connects", !.type = type]]
    /\ UNCHANGED <<fanHost, told>>

InstallConnects(r) ==
    /\ install[r].pc = "connects" /\ fanHost.up
    /\ InstallAt(r, IF AptBrings(install[r].type) = {} THEN "pips"
                    ELSE IF fanHost.debian THEN "updates" ELSE "installs")
    /\ UNCHANGED <<fanHost, told>>

(* apt-get update; its code is not looked at.                                 *)
InstallUpdates(r) ==
    /\ install[r].pc = "updates" /\ fanHost.up /\ InstallAt(r, "installs")
    /\ UNCHANGED <<fanHost, told>>

(* apt-get, pacman or dnf, and apt-get where the distribution is not known; a *)
(* failure is logged and the next step follows.                               *)
InstallPackages(r) ==
    /\ install[r].pc = "installs" /\ fanHost.up /\ InstallAt(r, "pips") /\ Brings(AptBrings(install[r].type))

InstallPips(r) ==
    /\ install[r].pc = "pips" /\ fanHost.up /\ InstallAt(r, "verifies")
    /\ Brings(IF "python3" \in fanHost.tools THEN PipBrings(install[r].type) ELSE {})

(* The check of the type, whose result is logged; the installation counts as  *)
(* complete either way.                                                       *)
InstallVerifies(r) ==
    /\ install[r].pc = "verifies" /\ fanHost.up /\ InstallAt(r, "done") /\ UNCHANGED <<fanHost, told>>

(* The login fails, a command takes too long, or the connection is lost.      *)
InstallRaises(r) ==
    /\ install[r].pc \notin {"none", "done"}
    /\ install' = [install EXCEPT ![r].pc = "done"] /\ UNCHANGED <<fanHost, told>>

(* Its progress page is left.                                                 *)
InstallForgotten(r) ==
    /\ install[r].pc = "done" /\ install' = [install EXCEPT ![r] = NoInstall]
    /\ UNCHANGED <<fanHost, told>>

(* Others plug, load the driver, install, remove, reboot.                     *)
HostChanges ==
    /\ \/ HostBecomes([fanHost EXCEPT !.up = ~@])
       \/ \E state \in {"no", "usb", "driven"} : state # fanHost.arctic /\ HostBecomes([fanHost EXCEPT !.arctic = state])
       \/ \E tool \in Others : HostBecomes([fanHost EXCEPT !.tools = SymDiff(@, {tool})])
    /\ UNCHANGED install

(* The GPIO pin is part of the row of a Raspberry Pi's fan only.               *)
Pins(type) == IF type = "rpi_gpio_fan" THEN {14, 28} ELSE {14}

FanSetupNext ==
    \/ DetectsControllers \/ HostChanges
    \/ \E type \in ControllerTypes :
           \/ TestsConnection(type)
           \/ \E pin \in Pins(type) : ReadsStatus(type, pin)
           \/ \E r \in Installers : InstallBegins(r, type)
    \/ \E r \in Installers :
           \/ InstallConnects(r) \/ InstallUpdates(r) \/ InstallPackages(r) \/ InstallPips(r)
           \/ InstallVerifies(r) \/ InstallRaises(r) \/ InstallForgotten(r)

FanSetupSpec == FanSetupInit /\ [][FanSetupNext]_setupVars

-----------------------------------------------------------------------------
(* A reading says what it read or why it could not, never both or neither; and*)
(* a reading of an Arctic controller or a Raspberry Pi that is good has fans. *)
ReadingsSayWhy ==
    told.kind = "reading" =>
        /\ told.status.ok # told.status.error
        /\ told.status.ok /\ told.type \in {"arctic_usb", "rpi_gpio_fan"} => told.status.fans

(* What the detection puts forward with high confidence (but for nbfc) is     *)
(* there, although the test of its version succeeds without it: the tool of   *)
(* ipmi and of liquidctl, a source lm_sensors has fans from, and for the other*)
(* types hardware whose fans the reading finds in a way of its own (of the    *)
(* Arctic controller, given Python).                                          *)
AdviceIsSound ==
    told.kind = "advice" =>
        \A s \in told.suggested : s[2] = "high" =>
            /\ s[1] \in {"ipmi", "liquidctl"} => AptBrings(s[1]) \subseteq fanHost.tools
            /\ s[1] = "lm_sensors" => "sensors" \in fanHost.tools \/ "pwm" \in fanHost.has
            /\ s[1] \in {"pwm_sysfs", "rpi_gpio_fan"} \/ (s[1] = "arctic_usb" /\ "python3" \in fanHost.tools) =>
                   \E status \in Fetch(s[1], fanHost, 14) : status.ok /\ status.fans

(* The other way round: a detection that answers puts forward, with high      *)
(* confidence, every type but those of lm-sensors and the Raspberry Pi whose  *)
(* reading would show fans on that host.                                      *)
NothingIsMissed ==
    told.kind = "advice" /\ told.ok =>
        \A type \in ControllerTypes \ {"lm_sensors", "rpi_gpio_fan"} :
            (\E status \in Fetch(type, fanHost, 14) : status.fans) => <<type, "high">> \in told.suggested

(* What detection, test and reading say of one host fits together.            *)
AnswersFit == ReadingsSayWhy /\ AdviceIsSound /\ NothingIsMissed
=============================================================================
