---------------------------- MODULE MCVpnManager ----------------------------
(* VpnManager with two profiles: a for one WiFi network, behind either of two
   probes; b for a DNS server, which no network has, and for cellular
   networks at home. *)
EXTENDS VpnManager
CONSTANTS a, b, home

MCData ==
    a :> [supported |-> TRUE, enabled |-> TRUE,
          rules |-> [i \in 1..2 |->
                       [net |-> [any |-> FALSE, iface |-> "WiFi",
                                 ssid |-> home, roaming |-> NULL,
                                 dns |-> FALSE], probe |-> TRUE]]]
    @@ b :> [supported |-> TRUE, enabled |-> TRUE,
             rules |-> << [net |-> [any |-> FALSE, iface |-> NULL,
                                    ssid |-> NULL, roaming |-> NULL,
                                    dns |-> TRUE], probe |-> FALSE],
                          [net |-> [any |-> FALSE, iface |-> "Cellular",
                                    ssid |-> NULL, roaming |-> FALSE,
                                    dns |-> FALSE], probe |-> FALSE] >>]

MCLists == {<<a>>, <<a, b>>}

Wifi == [active |-> TRUE, iface |-> "WiFi", ssid |-> home, roaming |-> FALSE]
Cell == [active |-> TRUE, iface |-> "Cellular", ssid |-> NULL,
         roaming |-> FALSE]
MCDevices == {Wifi, Cell, NULL}
=============================================================================
