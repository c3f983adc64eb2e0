---------------------------- MODULE MCDevConfig ----------------------------
\* Two networks with a key and an open one.
EXTENDS DevConfig

MCNetworks == {[ssid |-> "home", psk |-> "k1"], [ssid |-> "lab", psk |-> "k2"],
               [ssid |-> "open", psk |-> "empty"]}
=============================================================================
