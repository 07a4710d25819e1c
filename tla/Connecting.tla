------------------------------ MODULE Connecting ------------------------------
(***************************************************************************)
(* How a command comes to its device and leaves it: the transport options  *)
(* and what is attached and in range decide on one device, or on none      *)
(* (cli/transport.py, provisioning/discovery.py, provisioning/             *)
(* connection.py), it is opened, the command does its work, and the        *)
(* device is closed by a thread that may never come back.  Devices are     *)
(* plugged in and out and come into range all the while.                   *)
(*                                                                         *)
(* A TCP target is a text of words and the marks "[", "]" and ":".         *)
(***************************************************************************)
EXTENDS Integers, Sequences, FiniteSets, SequencesExt

CONSTANTS
  Ports, Probes, Likely,    \* serial ports; those of debug probes, and of known vendors
  Radios, Signal, Advertise,\* BLE devices, their strength, and those of a mesh
  Words,         \* words and marks
  Texts,         \* what may be typed as a TCP target
  HostNames, Addresses,     \* words that are host names, texts that are IP addresses
  PortNumber,    \* the words that are numbers, and their values
  DefaultPort, MaxPort,
  Options,       \* the options a command may be given, see Start
  CloseTimeout,
  MaxChanges,    \* bounds what is plugged in and out
  Nobody

ASSUME ConnectingAssumption ==
  /\ Ports \subseteq Int /\ Probes \subseteq Ports /\ Likely \subseteq Ports
  /\ Radios \subseteq Int /\ Advertise \subseteq Radios
  /\ IsFiniteSet(Ports) /\ IsFiniteSet(Radios)
  /\ MaxPort \in Nat /\ DefaultPort \in 1..MaxPort /\ CloseTimeout \in Nat \ {0}
  /\ Nobody \notin {"serial", "ble", "tcp"} /\ Nobody \notin Texts
  /\ Options \subseteq [interface : {Nobody, "serial", "ble", "tcp"}, port : Ports \cup {Nobody},
                       address : Radios \cup {Nobody}, host : Texts \cup {Nobody},
                       scan : BOOLEAN, interactive : BOOLEAN]

(* A host name and a number are words; an IP address has no brackets, and  *)
(* no colon or more than one.                                              *)
Marks == {"[", "]", ":"}
ASSUME WordsAssumption ==
  /\ Marks \subseteq Words /\ Texts \cup Addresses \subseteq Seq(Words)
  /\ HostNames \cup DOMAIN PortNumber \subseteq Words \ Marks
  /\ \A text \in Addresses :
       /\ text # <<>> /\ \A i \in DOMAIN text : text[i] \notin {"[", "]"}
       /\ \A i \in DOMAIN text : text[i] = ":" => \E j \in DOMAIN text : text[j] = ":" /\ j # i

VARIABLES
  attached, inRange,  \* the ports and BLE devices there are
  command,            \* the options, what was listed and asked, the device, the outcome
  changed

connectVars == <<attached, inRange, command, changed>>

-----------------------------------------------------------------------------
(* parse_tcp_target *)
ValidHost(text) == text \in Addresses \/ (Len(text) = 1 /\ text[1] \in HostNames)

(* validate_tcp_host, of a text that may still have its brackets. *)
HostIn(text) ==
  IF Len(text) >= 2 /\ text[1] = "[" /\ Last(text) = "]" THEN SubSeq(text, 2, Len(text) - 1) ELSE text

Target(host, port) == IF ValidHost(HostIn(host)) /\ port \in 1..MaxPort
                      THEN [host |-> HostIn(host), port |-> port] ELSE Nobody

PortIn(text) == IF Len(text) = 1 /\ text[1] \in DOMAIN PortNumber THEN PortNumber[text[1]] ELSE 0

Positions(text, mark) == {i \in 1..Len(text) : text[i] = mark}
From(text, i) == SubSeq(text, i, Len(text))

AtLastColon(text) ==
  LET at == Max(Positions(text, ":")) IN Target(SubSeq(text, 1, at - 1), PortIn(From(text, at + 1)))

InBrackets(text) ==
  LET closing == Min(Positions(text, "]"))
      host    == SubSeq(text, 2, closing - 1)
  IN IF Positions(text, "]") = {} THEN Nobody
     ELSE IF closing = Len(text) THEN Target(host, DefaultPort)
     ELSE IF text[closing + 1] = ":" THEN Target(host, PortIn(From(text, closing + 2)))
     ELSE Nobody

ParseTcpTarget(text) ==
  IF text = <<>> THEN Nobody
  ELSE IF text[1] = "[" THEN InBrackets(text)
  ELSE IF text \notin Addresses /\ Positions(text, ":") # {} THEN AtLastColon(text)
  ELSE Target(text, DefaultPort)

(* TcpTarget.__str__ *)
Shown(target, digits) ==
  IF Positions(target.host, ":") # {} THEN <<"[">> \o target.host \o <<"]", ":", digits>>
  ELSE target.host \o <<":", digits>>

-----------------------------------------------------------------------------
(* discover_serial_ports, discover_ble_devices *)
PortBefore(p, q)  == IF (p \in Likely) = (q \in Likely) THEN p < q ELSE p \in Likely
RadioBefore(r, s) == IF Signal[r] = Signal[s] THEN r < s ELSE Signal[r] > Signal[s]

Sorted(there, Before(_, _)) ==
  {list \in SetToSeqs(there) : \A i, j \in DOMAIN list : i < j => Before(list[i], list[j])}

(* As if no port were left out. *)
EveryPort(there) == Sorted(there, PortBefore)

SerialPorts(there) == Sorted(there \ Probes, PortBefore)
BleDevices(there)  == Sorted(there \cap Advertise, RadioBefore)

-----------------------------------------------------------------------------
(* select_backend: a device, a choice for the operator, or neither. *)
Refuse       == [how |-> "refuse", list |-> <<>>]
Device(t, d) == [transport |-> t, at |-> d]
Use(d)       == [how |-> "use", list |-> <<d>>]
Choose(l)    == [how |-> "choose", list |-> l]

Among(transport, list, forced) ==
  LET devices == [i \in DOMAIN list |-> Device(transport, list[i])] IN
  IF Len(list) = 1 THEN Use(devices[1])
  ELSE IF list = <<>> \/ forced THEN Refuse ELSE Choose(devices)

ByHost(text) ==
  IF ParseTcpTarget(text) = Nobody THEN Refuse ELSE Use(Device("tcp", ParseTcpTarget(text)))

NamedTargets(opts) == {field \in {"port", "address", "host"} : opts[field] # Nobody}

SelectForced(opts, ports, radios) ==
  CASE opts.interface = "serial" ->
         IF opts.port # Nobody THEN Use(Device("serial", opts.port)) ELSE Among("serial", ports, TRUE)
    [] opts.interface = "ble" ->
         IF opts.address # Nobody THEN Use(Device("ble", opts.address)) ELSE Among("ble", radios, TRUE)
    [] opts.interface = "tcp" -> IF opts.host # Nobody THEN ByHost(opts.host) ELSE Refuse

SelectBackend(opts, ports, radios) ==
  IF Cardinality(NamedTargets(opts)) > 1 THEN Refuse
  ELSE IF opts.interface # Nobody THEN SelectForced(opts, ports, radios)
  ELSE IF opts.port # Nobody THEN Use(Device("serial", opts.port))
  ELSE IF opts.address # Nobody THEN Use(Device("ble", opts.address))
  ELSE IF opts.host # Nobody THEN ByHost(opts.host)
  ELSE IF ports # <<>> THEN Among("serial", ports, FALSE)
  ELSE Among("ble", radios, FALSE)

-----------------------------------------------------------------------------
Quiet == [step |-> "idle", opts |-> Nobody, ports |-> <<>>, radios |-> <<>>, scanned |-> FALSE,
          asked |-> {}, choice |-> <<>>, device |-> Nobody, opened |-> FALSE, outcome |-> Nobody,
          closing |-> "no", waited |-> 0]

Start(opts) ==
  /\ command.step = "idle"
  /\ command' = [command EXCEPT !.opts = opts,
       !.step = IF NamedTargets(opts) # {} \/ opts.interface = "tcp" THEN "select"
                ELSE IF opts.interface = "ble" \/ (opts.interface = Nobody /\ opts.scan) THEN "scan"
                ELSE "list"]
  /\ UNCHANGED <<attached, inRange, changed>>

Fail(error) == command' = [command EXCEPT !.step = "ended", !.outcome = error]

(* resolve_backend, one question to the system or the operator at a time. *)
ListPorts ==
  /\ command.step = "list"
  /\ \E found \in SerialPorts(attached) :
     LET asks == command.opts.interface = Nobody /\ found = <<>> /\ command.opts.interactive
     IN command' = [command EXCEPT !.ports = found, !.step = IF asks THEN "confirm" ELSE "select"]
  /\ UNCHANGED <<attached, inRange, changed>>

Confirm(answer) ==
  /\ command.step = "confirm"
  /\ command' = [command EXCEPT !.asked = @ \cup {"scan"}, !.step = IF answer THEN "scan" ELSE "type"]
  /\ UNCHANGED <<attached, inRange, changed>>

Scan ==
  /\ command.step = "scan"
  /\ \E found \in BleDevices(inRange) :
     command' = [command EXCEPT !.radios = found, !.scanned = TRUE,
       !.step = IF found = <<>> /\ "scan" \in command.asked THEN "type" ELSE "select"]
  /\ UNCHANGED <<attached, inRange, changed>>

TypeHost(text) ==
  /\ command.step = "type"
  /\ command' = [command EXCEPT !.asked = @ \cup {"host"}, !.step = "select",
       !.opts.host = IF text = <<>> THEN @ ELSE text]
  /\ UNCHANGED <<attached, inRange, changed>>

LookupFails ==
  /\ command.step \in {"list", "scan"} /\ Fail("no device")
  /\ UNCHANGED <<attached, inRange, changed>>

Select ==
  /\ command.step = "select"
  /\ LET selected == SelectBackend(command.opts, command.ports, command.radios) IN
     CASE selected.how = "use" ->
            command' = [command EXCEPT !.device = selected.list[1], !.step = "connect"]
       [] selected.how = "choose" /\ command.opts.interactive ->
            command' = [command EXCEPT !.choice = selected.list, !.step = "choose"]
       [] OTHER -> Fail("no device")
  /\ UNCHANGED <<attached, inRange, changed>>

Chooses(index) ==
  /\ command.step = "choose" /\ index \in DOMAIN command.choice
  /\ command' = [command EXCEPT !.asked = @ \cup {"device"}, !.device = command.choice[index],
                                !.step = "connect"]
  /\ UNCHANGED <<attached, inRange, changed>>

-----------------------------------------------------------------------------
(* connected_with_progress, device_session, close_interface *)
IsThere(device) ==
  CASE device.transport = "serial" -> device.at \in attached
    [] device.transport = "ble" -> device.at \in inRange
    [] OTHER -> TRUE

Connect ==
  /\ command.step = "connect" /\ IsThere(command.device)
  /\ command' = [command EXCEPT !.step = "working", !.opened = TRUE]
  /\ UNCHANGED <<attached, inRange, changed>>

ConnectFails == command.step = "connect" /\ Fail("connect") /\ UNCHANGED <<attached, inRange, changed>>

(* The command's own work ends, and the finally block begins to close. *)
Works(outcome) ==
  /\ command.step = "working"
  /\ command' = [command EXCEPT !.step = "closing", !.outcome = outcome, !.closing = "runs"]
  /\ UNCHANGED <<attached, inRange, changed>>

CloseEnds ==
  /\ command.closing = "runs" /\ command' = [command EXCEPT !.closing = "done"]
  /\ UNCHANGED <<attached, inRange, changed>>

Waits ==
  /\ command.step = "closing" /\ command.closing = "runs" /\ command.waited < CloseTimeout
  /\ command' = [command EXCEPT !.waited = @ + 1]
  /\ UNCHANGED <<attached, inRange, changed>>

Leaves ==
  /\ command.step = "closing" /\ (command.closing = "done" \/ command.waited = CloseTimeout)
  /\ command' = [command EXCEPT !.step = "ended"] /\ UNCHANGED <<attached, inRange, changed>>

-----------------------------------------------------------------------------
(* The world, external. *)
Moves ==
  /\ changed < MaxChanges /\ changed' = changed + 1 /\ command.step \notin {"idle", "ended"}
  /\ \/ \E p \in Ports : attached' = (attached \ {p}) \cup ({p} \ attached) /\ UNCHANGED inRange
     \/ \E r \in Radios : inRange' = (inRange \ {r}) \cup ({r} \ inRange) /\ UNCHANGED attached
  /\ UNCHANGED command

ConnectInit ==
  attached \in SUBSET Ports /\ inRange \in SUBSET Radios /\ command = Quiet /\ changed = 0

ConnectNext ==
  \/ \E opts \in Options : Start(opts)
  \/ ListPorts \/ Scan \/ LookupFails \/ Select \/ Connect \/ ConnectFails
  \/ \E answer \in BOOLEAN : Confirm(answer)
  \/ \E text \in Texts \cup {<<>>} : TypeHost(text)
  \/ \E index \in 1..Cardinality(Ports \cup Radios) : Chooses(index)
  \/ \E outcome \in {"ok", "failed"} : Works(outcome)
  \/ CloseEnds \/ Waits \/ Leaves \/ Moves

ConnectSpec == ConnectInit /\ [][ConnectNext]_connectVars

-----------------------------------------------------------------------------
Of(transport, list) == {Device(transport, d) : d \in ToSet(list)}

(* The device a command opens is the one its options name, or the only one *)
(* of its kind that was found, or one the operator pointed at: a command   *)
(* that must not ask asks nothing and never picks among several, a forced  *)
(* transport is kept to, a debug probe is only used by name, and a scan    *)
(* for BLE devices never ends on a serial port.                            *)
NeverAGuess ==
  command.device # Nobody =>
    LET opts == command.opts  device == command.device
        found == Of("serial", command.ports) \cup Of("ble", command.radios)
    IN /\ opts.interface # Nobody => device.transport = opts.interface
       /\ NamedTargets(opts) = {"port"} => device = Device("serial", opts.port)
       /\ NamedTargets(opts) = {"address"} => device = Device("ble", opts.address)
       /\ NamedTargets(opts) = {"host"} => device.transport = "tcp"
       /\ NamedTargets(opts) = {} =>
            /\ device \in found /\ \A p \in Probes : device # Device("serial", p)
            /\ "device" \in command.asked \/ {d \in found : d.transport = device.transport} = {device}
            /\ opts.scan /\ opts.interface = Nobody => device.transport = "ble"
            /\ device.transport = "ble" => command.ports = <<>>
       /\ ~opts.interactive => command.asked = {}

(* Whatever becomes of the close, a command that opened a device ends with *)
(* what its own work came to, has tried to close it, and waits no longer   *)
(* than the timeout for that.                                              *)
CloseNeverHides ==
  /\ command.waited <= CloseTimeout
  /\ command.opened /\ command.step = "ended" =>
       command.outcome \in {"ok", "failed"} /\ command.closing # "no"

(* A target is shown as a text that means it again, and is a host and a    *)
(* port there can be; an IP address means itself whatever its colons.      *)
TargetsAreExact ==
  \A text \in Texts :
    LET target == ParseTcpTarget(text) IN
    /\ target # Nobody =>
         /\ target.port \in 1..MaxPort /\ ValidHost(target.host)
         /\ \A digits \in DOMAIN PortNumber :
              PortNumber[digits] = target.port => ParseTcpTarget(Shown(target, digits)) = target
    /\ text \in Addresses => target = [host |-> text, port |-> DefaultPort]

ConnectsAsTold == NeverAGuess /\ CloseNeverHides /\ (command.step = "idle" => TargetsAreExact)
===============================================================================
