----------------------------- MODULE FanControl -----------------------------
(***************************************************************************)
(* Setting fans (fan_controller.py and its routes in app.py): the table of *)
(* devices, and commands over SSH that take several remote steps and work  *)
(* on the device as they read it.  FanSamples has the readings.            *)
(***************************************************************************)
EXTENDS Integers, FiniteSetsExt

CONSTANTS FanTypes,     \* the controller types in use
          Channels,     \* the fans of a controller
          Pumps,        \* the channels a user marks as pumps
          Speeds,       \* the speeds asked for: -1 is the button for auto mode
          FanRequests,
          MaxDevices, MaxCommands

ASSUME PumpsAreChannels == Pumps \subseteq Channels

VARIABLES devices,   \* fc_devices: the row of each id
          fan,       \* what drives each channel of the host's controller of a type
          driver,    \* whether the host's kernel knows the Arctic controller
          command,   \* what each request that sets a fan is doing
          asked      \* how many commands have been asked for

fanVars == <<devices, fan, driver, command, asked>>

All == 0
Profile == 1000   \* a curve of temperatures and speeds instead of a speed
NoDevice == [type |-> "none", pumps |-> {}, marked |-> {}]
AutoMode == [mode |-> "auto", duty |-> 0]
Curve == [mode |-> "curve", duty |-> 0]
Fixed(percent) == [mode |-> "fixed", duty |-> percent]
NoCommand == [pc |-> "none", dev |-> NoDevice, channel |-> All, speed |-> 0]

Listed == {id \in DOMAIN devices : devices[id] # NoDevice}

FanInit ==
    /\ devices = [id \in 1..MaxDevices |-> NoDevice]/\ asked = 0
    /\ fan = [t \in FanTypes |-> [c \in Channels |-> AutoMode]] /\ driver \in {"kernel", "hid"}
    /\ command = [r \in FanRequests |-> NoCommand]

-----------------------------------------------------------------------------
(* fc_add(): marks of pumps are kept for an Arctic controller only.           *)
AddsDevice(id, type, marks) ==
    /\ id \notin Listed
    /\ LET pumps == IF type = "arctic_usb" THEN marks ELSE {} IN
       devices' = [devices EXCEPT ![id] = [type |-> type, pumps |-> pumps, marked |-> pumps]]
    /\ UNCHANGED <<fan, driver, command, asked>>

(* fc_edit(): the extra settings are written anew, from a form without pumps. *)
(* (marked remembers what the user had marked.)                               *)
EditsDevice(id, type) ==
    /\ id \in Listed
    /\ devices' = [devices EXCEPT ![id] = [@ EXCEPT !.type = type, !.pumps = {}]]
    /\ UNCHANGED <<fan, driver, command, asked>>

(* fc_delete()                                                                *)
DeletesDevice(id) ==
    /\ id \in Listed /\ devices' = [devices EXCEPT ![id] = NoDevice]
    /\ UNCHANGED <<fan, driver, command, asked>>

-----------------------------------------------------------------------------
Clamp(low, high, x) == Max({low, Min({high, x})})
Writes(type, channels, state) ==
    fan' = [fan EXCEPT ![type] = [c \in Channels |-> IF c \in channels THEN state ELSE @[c]]]
Driven(q) == IF q.channel = All \/ q.dev.type = "ipmi" THEN Channels ELSE {q.channel}
LastDuty == 100
CommandDone(r) == command' = [command EXCEPT ![r] = NoCommand]
CommandAt(r, pc) == command' = [command EXCEPT ![r].pc = pc]

(* fc_set_fan(): reads the device; the command works on what it read.         *)
AsksToSet(r, id, channel, speed) ==
    /\ asked < MaxCommands /\ asked' = asked + 1
    /\ command[r].pc = "none" /\ id \in Listed /\ (channel = All => devices[id].type \in {"arctic_usb", "ipmi"})
    /\ command' = [command EXCEPT ![r] =
           [NoCommand EXCEPT !.pc = "connects", !.dev = devices[id], !.channel = channel, !.speed = speed]]
    /\ UNCHANGED <<devices, fan, driver>>

(* _set_fan_arctic_usb(): the speed, up to 100 a percentage, above a value of *)
(* the PWM register; and the protection of pumps.                             *)
ArcticPercent(speed) ==
    IF speed = Profile THEN 50 ELSE IF speed > 100 THEN Clamp(0, 100, (speed * 100) \div 255) ELSE Clamp(0, 100, speed)

\* Mutant: the speed as it was sent is compared, not the percentage it stands for.
SentProtected(q) == q.speed < 60 /\ (q.channel \in q.dev.pumps \/ (q.channel = All /\ q.dev.pumps # {}))

PumpsProtected(q) ==
    /\ ArcticPercent(q.speed) < 60
    /\ q.channel \in q.dev.pumps \/ (q.channel = All /\ q.dev.pumps # {})

(* set_fan_speed(): each type's function connects first, _set_fan_rpi_gpio_fan()*)
(* never does.                                                                *)
Dispatches(r) ==
    LET q == command[r] IN
    /\ q.pc = "connects"
    /\ CASE q.dev.type = "rpi_gpio_fan"                        -> CommandDone(r)
         [] q.dev.type = "arctic_usb" /\ PumpsProtected(q)     -> CommandDone(r)
         [] q.dev.type \in {"lm_sensors", "pwm_sysfs", "ipmi"} -> CommandAt(r, "enables")
         [] OTHER                                              -> CommandAt(r, "sets")
    /\ UNCHANGED <<devices, fan, driver, asked>>

(* The connection fails, or is lost between two remote commands.              *)
ConnectionLost(r) ==
    /\ command[r].pc # "none" /\ CommandDone(r)
    /\ UNCHANGED <<devices, fan, driver, asked>>

(* The first of two remote commands takes the fan, or all of an IPMI board's, *)
(* from the automatic control; whether it worked is not looked at.            *)
Enables(r) ==
    LET q == command[r]
        held == {c \in Driven(q) : fan[q.dev.type][c] = AutoMode} IN
    /\ q.pc = "enables" /\ CommandAt(r, "sets")
    /\ Writes(q.dev.type, held, Fixed(LastDuty)) \/ UNCHANGED fan
    /\ UNCHANGED <<devices, driver, asked>>

(* _set_fan_lm_sensors() and _set_fan_pwm_sysfs(), which takes more than 100 for*)
(* a value of the PWM register.                                               *)
LmSensors(q) == IF q.speed = Profile THEN Fixed(50) ELSE Fixed(Clamp(0, 100, q.speed))
PwmSysfs(q) ==
    IF q.speed = Profile THEN Fixed(50)
    ELSE IF q.speed > 100 THEN Fixed((Clamp(0, 255, q.speed) * 100) \div 255) ELSE Fixed(Clamp(0, 100, q.speed))

(* _set_fan_nbfc(): only what is no number asks for the automatic control.    *)
Nbfc(q) == IF q.speed = Profile THEN AutoMode ELSE Fixed(Clamp(0, 100, q.speed))

(* _set_fan_liquidctl()                                                       *)
Liquidctl(q) == IF q.speed = Profile THEN Curve ELSE Fixed(Clamp(0, 100, q.speed))

Wanted(q) ==
    CASE q.dev.type = "lm_sensors" -> LmSensors(q)
      [] q.dev.type = "pwm_sysfs"  -> PwmSysfs(q)
      [] q.dev.type = "nbfc"       -> Nbfc(q)
      [] OTHER                     -> Liquidctl(q)

(* The tools report by their exit code.                                       *)
ToolSets(r) ==
    LET q == command[r] IN
    /\ q.pc = "sets" /\ q.dev.type \in {"lm_sensors", "pwm_sysfs", "nbfc", "liquidctl"}
    /\ CommandDone(r) /\ (Writes(q.dev.type, Driven(q), Wanted(q)) \/ UNCHANGED fan)
    /\ UNCHANGED <<devices, driver, asked>>

(* _set_fan_ipmi(): all fans, and ok whatever ipmitool said.                  *)
IpmiSets(r) ==
    LET q == command[r] IN
    /\ q.pc = "sets" /\ q.dev.type = "ipmi" /\ CommandDone(r)
    /\ Writes("ipmi", Channels, LmSensors(q)) \/ UNCHANGED fan
    /\ UNCHANGED <<devices, driver, asked>>

(* _ARCTIC_SET_SCRIPT with the kernel driver: each channel on its own, and ok *)
(* however many could be written.                                             *)
ArcticSetsByKernel(r) ==
    LET q == command[r] IN
    /\ q.pc = "sets" /\ q.dev.type = "arctic_usb" /\ driver = "kernel" /\ CommandDone(r)
    /\ \E written \in SUBSET Driven(q) : Writes("arctic_usb", written, Fixed(ArcticPercent(q.speed)))
    /\ UNCHANGED <<devices, driver, asked>>

(* Without it, one USB report carries all channels; the present speeds cannot *)
(* be read, and the others are sent 50 percent.                               *)
ArcticSetsByReport(r) ==
    LET q == command[r] IN
    /\ q.pc = "sets" /\ q.dev.type = "arctic_usb" /\ driver = "hid" /\ CommandDone(r)
    /\ \/ fan' = [fan EXCEPT !["arctic_usb"] =
               [c \in Channels |-> Fixed(IF c \in Driven(q) THEN ArcticPercent(q.speed) ELSE 50)]]
       \/ UNCHANGED fan
    /\ UNCHANGED <<devices, driver, asked>>

(* The process stops and starts.                                              *)
FanRestart ==
    /\ \E r \in FanRequests : command[r] # NoCommand
    /\ command' = [r \in FanRequests |-> NoCommand]
    /\ UNCHANGED <<devices, fan, driver, asked>>

FanCommand(r) ==
    \/ Dispatches(r) \/ ConnectionLost(r) \/ Enables(r) \/ ToolSets(r) \/ IpmiSets(r)
    \/ ArcticSetsByKernel(r) \/ ArcticSetsByReport(r)

FanNext ==
    \/ \E id \in DOMAIN devices :
           \/ \E type \in FanTypes, marks \in SUBSET Pumps : AddsDevice(id, type, marks)
           \/ DeletesDevice(id) \/ \E type \in FanTypes : EditsDevice(id, type)
           \/ \E r \in FanRequests, c \in Channels \cup {All}, speed \in Speeds : AsksToSet(r, id, c, speed)
    \/ \E r \in FanRequests : FanCommand(r)
    \/ FanRestart

FanSpec == FanInit /\ [][FanNext]_fanVars

-----------------------------------------------------------------------------
LowersPump(c) ==
    LET old == fan["arctic_usb"][c]  new == fan'["arctic_usb"][c] IN new # old /\ new.mode = "fixed" /\ new.duty < 60

(* With the kernel driver, a command never slows a channel below 60 percent that*)
(* is marked as a pump in the device it read, whether it names the channel or *)
(* all of them, a percentage or a value of the register, or a curve.          *)
PumpsSpared ==
    [][\A r \in FanRequests : command[r].pc = "sets" /\ command'[r] = NoCommand /\ driver = "kernel"
           => \A c \in command[r].dev.pumps : ~LowersPump(c)]_fanVars

(* "minimum speed enforced at 60% to prevent overheating"                     *)
(* (templates/fans/add.html): while a device is listed, no command slows a    *)
(* channel that was marked as its pump below that.                            *)
PumpsKeepMinimum == [][\A id \in Listed : \A c \in devices[id].marked : ~LowersPump(c)]_fanVars
=============================================================================
