--------------------------- MODULE MCUsbEnumerate ---------------------------
EXTENDS UsbEnumerate, TLC

Configuration(n) == [type |-> "configuration", length |-> 9, interfaces |-> n]
Interface(n, class, e) ==
  [type |-> "interface", length |-> 9, number |-> n, class |-> class, endpoints |-> e]
Endpoint(n, in, kind) ==
  [type |-> "endpoint", length |-> 7, number |-> n, in |-> in, kind |-> kind]
Other(length) == [type |-> "other", length |-> length]

Stick(in, out) == <<Configuration(1), Interface(0, <<8, 6, 80>>, 2),
                    Endpoint(in, TRUE, "bulk"), Endpoint(out, FALSE, "bulk")>>
Floppy == <<Configuration(1), Interface(0, <<8, 4, 0>>, 3), Endpoint(1, TRUE, "bulk"),
            Endpoint(2, FALSE, "bulk"), Endpoint(3, TRUE, "interrupt")>>
Keys(n, e) == <<Interface(n, <<3, 1, 1>>, 1), Other(9), Endpoint(e, TRUE, "interrupt")>>
Keyboard == <<Configuration(1)>> \o Keys(0, 1)
KeysAndMouse == <<Configuration(2)>> \o Keys(0, 1) \o Keys(1, 2)
Modem == <<Configuration(1), Interface(0, <<2, 2, 1>>, 1), Endpoint(1, TRUE, "interrupt")>>
Sound == <<Configuration(1), Interface(0, <<1, 1, 0>>, 0)>>
Camera == <<Configuration(2), Interface(0, <<14, 1, 0>>, 1), Other(100), Endpoint(1, TRUE, "interrupt"),
            Interface(1, <<8, 6, 80>>, 2), Endpoint(1, TRUE, "bulk"), Endpoint(2, FALSE, "bulk")>>
Wide == <<Configuration(1), Interface(0, <<14, 1, 0>>, 1), Other(200), Other(37),
          Endpoint(1, TRUE, "interrupt")>>
Hub == <<Configuration(1), Interface(0, <<9, 0, 0>>, 1), Endpoint(1, TRUE, "interrupt")>>

\* One device alone.
Alone(c) == [root |-> 1, ports |-> <<(<< >>)>>, configs |-> <<c>>]
\* Devices on a hub.
OnHub(ports, cs) ==
  [root |-> 1, ports |-> <<ports>> \o [i \in DOMAIN cs |-> << >>],
   configs |-> <<(<<Hub>>)>> \o cs]
\* A hub on a hub, with a device before and one behind it.
HubOnHub ==
  [root |-> 1, ports |-> <<<<4, 2>>, <<NoDevice, 3>>, << >>, << >>>>,
   configs |-> << <<Hub>>, <<Hub>>, <<KeysAndMouse>>, <<Stick(1, 2)>> >>]

MCWirings == {
  Alone(<<Stick(2, 3)>>),
  Alone(<<Sound>>),
  Alone(<<Wide>>),
  Alone(<<Modem>>),
  Alone(<<Stick(1, 2), Floppy>>),
  OnHub(<<2, 3>>, << <<Floppy>>, <<Camera>> >>),
  OnHub(<<2, NoDevice, 3>>, << <<Stick(2, 1)>>, <<Sound>> >>),
  OnHub(<<2, 3, 4>>, << <<KeysAndMouse>>, <<Stick(1, 2), Stick(3, 4)>>, <<Floppy>> >>),
  OnHub(<<2, 3, 4, 5>>, << <<Stick(1, 2), Floppy>>, <<Stick(1, 2), Floppy>>, <<Keyboard>>, <<Stick(1, 2), Floppy>> >>),
  OnHub(<<2, 3, 4, 5>>, << <<Stick(1, 2)>>, <<Stick(1, 2), Floppy>>, <<Stick(1, 2), Floppy>>, <<Stick(1, 2), Floppy>> >>),
  HubOnHub }

\* All that is found is asked of every one of them.
ASSUME MCWiringsOrdinary == \A w \in MCWirings : Ordinary(w)
=============================================================================
