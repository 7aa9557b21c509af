------------------------------- MODULE MCStartup -------------------------------
(***************************************************************************)
(* Startup for TLC: three families of behaviours, about settings, about     *)
(* what is listened on, and about what a provider serves.                   *)
(***************************************************************************)
EXTENDS Startup, SequencesExt

-----------------------------------------------------------------------------
(* What a provider serves                                                   *)

Item(type, method, name, sound) ==
    [type |-> type, at |-> "host", method |-> method, name |-> name, sound |-> sound]

\* A shadowsocks proxy with one method or another, a trojan one with and without a
\* name and malformed, one that has no share link, and one sing-box does not know.
Items ==
    {Item("shadowsocks", m, "A", TRUE) : m \in {"aes", "chacha"}} \cup
    {Item("trojan", "", "A", TRUE), Item("trojan", "", "", TRUE), Item("trojan", "", "B", FALSE),
     Item("vmess", "auto", "A", TRUE), Item("unknown", "", "A", TRUE)}

Bodies ==
    {[form |-> form, items |-> items] :
        form \in {"clash", "links", "base64", "base64clash"}, items \in SeqOf(Items, 2)}
Good == {[form |-> "links", items |-> <<Item("trojan", "", "A", TRUE)>>]}

MCProviders == ("good" :> Good) @@ ("any" :> Bodies \cup {NoBody})

-----------------------------------------------------------------------------
(* Configurations: those of the repository's defaults, and a second port     *)

Port(key, http, socks, mode, lanes) ==
    [key |-> key, http |-> http, socks |-> socks, mode |-> mode, lanes |-> lanes]
Given == Binding(Inherit, 0)

Conf(dispatcher, health, ports) ==
    [mode |-> "single_active", admin |-> Binding("0.0.0.0", 8080),
     health |-> Binding("127.0.0.1", health),
     http |-> Binding("0.0.0.0", 7777), socks |-> Binding("0.0.0.0", 7780),
     dispatcher |-> dispatcher, ports |-> ports]

NoDispatcher == [on |-> FALSE, http |-> Binding("0.0.0.0", 7777), socks |-> Binding("0.0.0.0", 7780)]
DispatcherAt(port) == [on |-> TRUE, http |-> Binding("0.0.0.0", port), socks |-> Binding("0.0.0.0", 8788)]

DefaultPort(mode) == Port(Default, Given, Given, mode, <<>>)
Canary(http, socks, mode, lanes) == Port("canary", http, socks, mode, lanes)

\* Modes of the two ports, given or not.
SettingsConfigs ==
    {Conf(NoDispatcher, 19090,
          <<DefaultPort(a), Canary(Binding(Inherit, 8787), Binding(Inherit, 9790), b, <<>>)>>) :
        a \in {Inherit, "pool"}, b \in {Inherit, "pool"}}

\* Lanes of the second port: those that are kept, at its address or another, or one
\* with a key of its own.
LaneLists ==
    {<<>>,
     <<Lane("lane-http-1", "http", Binding(Inherit, 9100)),
       Lane("lane-socks-1", "socks", Binding("127.0.0.1", 9101))>>,
     <<Lane("lane-http-1", "http", Binding(Inherit, 9100))>>,
     <<Lane("special", "http", Binding(Inherit, 9100))>>}

\* The second port elsewhere, at a lane of the first, with a lane at a port of the
\* first, at the dispatcher, and where its lane has no port number.
BindingConfigs ==
    {Conf(dispatcher, health,
          <<DefaultPort(Inherit),
            Canary(Binding(addr, http), Binding(addr, socks), Inherit, lanes)>>) :
        addr \in {Inherit, "127.0.0.1"}, http \in {0, 8787, 8778, 6776, 64534, 64535},
        socks \in {8781, 9790}, lanes \in LaneLists,
        dispatcher \in {NoDispatcher, DispatcherAt(7777), DispatcherAt(8787), DispatcherAt(9788)},
        health \in {9090, 19090}}

OnePort == Conf(NoDispatcher, 19090, <<>>)

-----------------------------------------------------------------------------
At(url, config, provider) == [url |-> url, config |-> config, provider |-> provider]
Plan(environments, jobs, refreshes, crashes) ==
    [envs |-> environments, jobs |-> jobs, refreshes |-> refreshes, crashes |-> crashes]

\* Settings requests and switches among themselves, around a refresh and a restart.
SettingsPlans ==
    {Plan(<<At(TRUE, c, "good")>>, jobs, 3 - jobs, 1) : c \in SettingsConfigs, jobs \in 2..3}

\* Any second port: first alone, then after the first port has run without it, with a
\* provider or with the stored nodes.
BindingPlans ==
    {Plan(<<At(TRUE, c, "good")>>, 0, 1, 0) : c \in BindingConfigs} \cup
    {Plan(<<At(TRUE, OnePort, "good"), At(url, c, "good")>>, 0, 0, 1) :
        c \in BindingConfigs, url \in BOOLEAN}

\* Any list after any list, cut off anywhere, then a provider that serves a sound one.
BodyPlans ==
    {Plan(<<At(TRUE, OnePort, "any"), At(url, OnePort, "good")>>, 0, 1, 1) : url \in BOOLEAN}

AllPlans == SettingsPlans \cup BindingPlans \cup BodyPlans
=============================================================================
