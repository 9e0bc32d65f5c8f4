------------------------------- MODULE Setup -------------------------------
(***************************************************************************)
(* From a call of serve, serveNet, connectTo or connectToNet to an open    *)
(* endpoint: the optional arguments (services/IPC.js), the parser          *)
(* (createParser), the TLS options (entities/TLS.js), the socket root and  *)
(* the checks of the assured profile (Server.start, Client.connect).       *)
(*                                                                         *)
(* ipc.config is one object that every endpoint keeps a reference to, and  *)
(* the application may change it between any two calls.  So each action    *)
(* reads whatever settings it reads afresh; only what an endpoint copied   *)
(* when it was constructed, its parser, stays.                             *)
(***************************************************************************)
EXTENDS Integers, Sequences, SequencesExt, FiniteSets

VARIABLES
    windows,   \* process.platform === 'win32'
    network,   \* config.networkHost
    root,      \* the directory config.socketRoot
    form,      \* history: the arguments of the last call
    endpoint,  \* the server or client object it made, or None
    link       \* what the endpoint has open, or None

vars == <<windows, network, root, form, endpoint, link>>

None == [none |-> TRUE]

\* A value of config.tls that is no options object, or names unreadable files.
Wrong == [wrong |-> TRUE]

-----------------------------------------------------------------------------
(* Defaults *)

\* getIPType: the family of the first interface that has an address.
IPType(interfaces) ==
    LET families == SelectSeq(interfaces, LAMBDA family : family # "none")
    IN  IF families = <<>> THEN "" ELSE Head(families)

NetworkHost(type) == IF type = "IPv6" THEN "::1" ELSE "127.0.0.1"

NetworkHosts ==
    {NetworkHost(IPType(interfaces)) :
        interfaces \in BoundedSeq({"none", "IPv4", "IPv6"}, 2)}

-----------------------------------------------------------------------------
(* Arguments.  "host", "path", "port", "udp4", "udp6" and "callback" are    *)
(* values an application passes, "-" is an argument that is not there.      *)

Udp == {"udp4", "udp6"}

\* The arguments of a call: optional ones left out, the others in order.
Forms(parameters) ==
    {SelectSeq(full, LAMBDA a : a # "-") :
        full \in {f \in [1 .. Len(parameters) -> UNION Range(parameters)] :
                     \A i \in DOMAIN f : f[i] \in parameters[i]}}

ServeNetForms == Forms(<<{"host", "-"}, {"port", "-"}, Udp \cup {"-"}, {"callback", "-"}>>)
ConnectNetForms == Forms(<<{"host", "-"}, {"port", "-"}, {"callback", "-"}>>)
LocalForms == Forms(<<{"path", "-"}, {"callback", "-"}>>)

Arg(args, i) == IF i <= Len(args) THEN args[i] ELSE "-"

OrDefault(value, default) == IF value = "-" THEN default ELSE value

\* serve and connect: (path, callback)
Local(args) ==
    LET path == Arg(args, 1)
    IN  IF path = "callback"
        THEN [host |-> "default", port |-> "-", udp |-> "-", callback |-> "callback"]
        ELSE [host |-> OrDefault(path, "default"), port |-> "-", udp |-> "-",
              callback |-> OrDefault(Arg(args, 2), "empty")]

\* The tests of serveNet, one after the other, on (host, port, UDPType, callback).
HostIsNumber(a) ==
    IF a.host # "port" THEN a
    ELSE [host |-> "-", port |-> a.host, udp |-> a.port, callback |-> a.udp]

HostIsFunction(a) ==
    IF a.host # "callback" THEN a
    ELSE [host |-> "-", port |-> "-", udp |-> "-", callback |-> a.host]

HostIsUdp(a) ==
    IF a.host \notin Udp THEN a
    ELSE [host |-> "default", port |-> "-", udp |-> a.host, callback |-> a.port]

PortIsString(a) ==
    IF a.port \notin Udp \cup {"host"} THEN a
    ELSE [a EXCEPT !.port = "-", !.udp = a.port, !.callback = a.udp]

PortIsFunction(a) ==
    IF a.port # "callback" THEN a
    ELSE [a EXCEPT !.port = "-", !.udp = "-", !.callback = a.port]

\* Faulty variant: the test is missing.
UdpIsFunctionMissing(a) == a

UdpIsFunction(a) ==
    IF a.udp # "callback" THEN a ELSE [a EXCEPT !.udp = "-", !.callback = a.udp]

Defaults(a) ==
    [a EXCEPT !.host = OrDefault(@, "default"), !.port = OrDefault(@, "default"),
              !.callback = OrDefault(@, "empty")]

ServeNet(args) ==
    LET a == [host |-> Arg(args, 1), port |-> Arg(args, 2),
              udp |-> Arg(args, 3), callback |-> Arg(args, 4)]
    IN  Defaults(UdpIsFunction(PortIsFunction(PortIsString(HostIsUdp(
            HostIsFunction(HostIsNumber(a)))))))

\* connectNet, on (host, port, callback).
ConnectNet(args) ==
    LET a == [host |-> Arg(args, 1), port |-> Arg(args, 2), udp |-> "-", callback |-> Arg(args, 3)]
        b == IF a.host # "port" THEN a
             ELSE [host |-> "-", port |-> a.host, udp |-> "-", callback |-> a.port]
    IN  Defaults(PortIsFunction(HostIsFunction(b)))

-----------------------------------------------------------------------------
(* Parsers *)

\* config.parser and config.rawBuffer, and whether the rest is valid: limits
\* that are positive integers or Infinity, a delimiter, and the list of allowed
\* events that the assured profile needs.
ParserSettings ==
    [parser : {"", "raw", "fast", "guarded", "assured", "object", "other"}, rawBuffer : BOOLEAN,
     valid : BOOLEAN]

Selected(c) == IF c.rawBuffer THEN "raw" ELSE IF c.parser = "" THEN "fast" ELSE c.parser

\* The constructors of Parser, GuardedParser and AssuredParser refuse settings;
\* createParser refuses what is not a parser.
Throws(c) ==
    \/ Selected(c) = "other"
    \/ Selected(c) \in {"fast", "guarded", "assured"} /\ ~c.valid

\* The parser.  One of the application's own has no profile.
Parser(c) == [profile |-> Selected(c)]

-----------------------------------------------------------------------------
(* TLS options.  ca holds certificates, is an empty list, or is not set.    *)

\* config.tls, with values or with file paths.
TlsSettings ==
    [key : BOOLEAN, cert : BOOLEAN, ca : {"unset", "some"},
     private : BOOLEAN, public : BOOLEAN, trustedConnections : {"unset", "empty", "some"},
     requestCert : {"unset", "yes", "no"}, rejectUnauthorized : {"unset", "yes", "no"}]

\* loadTLSOptions
LoadTls(c) ==
    [key |-> c.key \/ c.private, cert |-> c.cert \/ c.public,
     ca |-> CASE c.trustedConnections = "unset" -> c.ca
              [] c.trustedConnections = "empty" -> IF c.ca = "unset" THEN "empty" ELSE c.ca
              [] c.trustedConnections = "some" -> "some",
     requestCert |-> c.requestCert, rejectUnauthorized |-> c.rejectUnauthorized]

Yes(value) == IF value = "unset" THEN "yes" ELSE value

\* createServerTLSOptions: the defaults it fills in...
ServerTls(o) ==
    LET asks == IF o.ca # "unset" THEN Yes(o.requestCert) ELSE o.requestCert
    IN  [o EXCEPT !.requestCert = asks,
                  !.rejectUnauthorized = IF asks = "yes" THEN Yes(@) ELSE @]

\* Faulty variant: requestCert is enough.
RefusesServerTlsLax(o, assured) ==
    ~o.key \/ ~o.cert \/ (assured /\ (o.requestCert # "yes" \/ o.ca = "unset"))

\* ...and the options it refuses.
RefusesServerTls(o, assured) ==
    \/ ~o.key \/ ~o.cert
    \/ assured /\ (o.requestCert # "yes" \/ o.rejectUnauthorized # "yes" \/ o.ca = "unset")

\* createClientTLSOptions
ClientTls(o) == [o EXCEPT !.rejectUnauthorized = Yes(@)]

RefusesClientTls(o, assured) ==
    assured /\ (o.rejectUnauthorized # "yes" \/ o.ca = "unset" \/ ~o.key \/ ~o.cert)

-----------------------------------------------------------------------------
(* The socket root *)

\* What is at config.socketRoot.  By default it is below XDG_RUNTIME_DIR or in
\* the temporary directory, and either may hold something of another user.
Roots == {"missing", "private", "loose", "symlink", "foreign"}

\* Where a path lies; pathOutsideRoot and socketPathInRoot.
Places == {"child", "below", "root", "outside"}

SocketPathInRoot(place) == place = "child"

\* prepareSocketRoot
RefusesRoot(place, secure) ==
    place # "outside" /\ secure /\ root \in {"symlink", "foreign"}

PreparedRoot(place, secure) ==
    CASE place = "outside" -> root
      [] root = "missing" -> "private"
      [] root = "loose" /\ secure -> "private"
      [] OTHER -> root

-----------------------------------------------------------------------------
(* Calls *)

Object(role, a, c) ==
    [role |-> role, host |-> a.host, port |-> a.port, udp |-> a.udp, callback |-> a.callback,
     path |-> IF a.host = "default" /\ a.port # "-" THEN network ELSE a.host,
     datagrams |-> FALSE] @@ Parser(c)

\* Faulty variant: only the constructor selects how to write.
SelectTransportOnce(object) == object

\* The udp4 and udp6 setters: selectTransport.
SelectTransport(object) == [object EXCEPT !.datagrams = object.udp \in Udp]

\* serveNet binds a udp4 socket to an IPv4 address.
Udp4Path(object) ==
    IF object.udp = "udp4" /\ object.path = "::1"
    THEN [object EXCEPT !.path = "127.0.0.1"] ELSE object

\* A call with these arguments, unless the parser of its endpoint throws.
\* connectTo and connectToNet connect at once, serve and serveNet wait for
\* start().
Calls(forms, Endpoint(_, _)) ==
    /\ endpoint = None
    /\ \E c \in {s \in ParserSettings : ~Throws(s)}, args \in forms :
        form' = args /\ endpoint' = Endpoint(args, c)
    /\ UNCHANGED <<windows, network, root, link>>

CallServe == Calls(LocalForms, LAMBDA args, c : Object("server", Local(args), c))

CallServeNet ==
    Calls(ServeNetForms,
          LAMBDA args, c : Udp4Path(SelectTransport(Object("server", ServeNet(args), c))))

CallConnect == Calls(LocalForms, LAMBDA args, c : Object("client", Local(args), c))

CallConnectNet == Calls(ConnectNetForms, LAMBDA args, c : Object("client", ConnectNet(args), c))

Assured == endpoint.profile = "assured"

IsLocal == endpoint.port = "-"

\* A stream listener, with TLS if config.tls is set; None if its options are refused.
Listener(transport, tls, where) ==
    LET options == ServerTls(LoadTls(tls))
    IN  CASE tls = None -> [transport |-> transport, tls |-> None] @@ where
          [] tls = Wrong -> None
          [] OTHER -> IF RefusesServerTls(options, Assured) THEN None
                      ELSE [transport |-> transport, tls |-> options] @@ where

Settings == {None, Wrong} \cup TlsSettings

\* Server.start and startServer on a local path.  A start that throws leaves
\* nothing open, but the socket root may have been prepared.
StartLocal ==
    /\ endpoint # None /\ link = None
    /\ endpoint.role = "server" /\ IsLocal
    /\ \E place \in Places, secure \in BOOLEAN, tls \in Settings :
        /\ endpoint.host = "default" => place \in {"child", "below"}
        /\ IF \/ Assured /\ (windows \/ ~secure \/ ~SocketPathInRoot(place))
              \/ ~windows /\ RefusesRoot(place, secure)
           THEN UNCHANGED <<root, link>>
           ELSE /\ root' = IF windows THEN root ELSE PreparedRoot(place, secure)
                /\ link' = Listener("local", tls, [place |-> place, secure |-> secure])
    /\ UNCHANGED <<windows, network, form, endpoint>>

\* startServer on a port: a datagram socket, or a listener.
StartNet ==
    /\ endpoint # None /\ link = None
    /\ endpoint.role = "server" /\ ~IsLocal
    /\ \E tls \in Settings :
        link' = IF Assured /\ (endpoint.udp # "-" \/ tls = None) THEN None
                ELSE IF endpoint.udp # "-" THEN [transport |-> "udp", tls |-> None]
                ELSE Listener("tcp", tls, <<>>)
    /\ UNCHANGED <<windows, network, root, form, endpoint>>

\* Client.connect, first from connectTo and connectToNet, then from a retry.
ClientConnect ==
    /\ endpoint # None /\ link = None
    /\ endpoint.role = "client"
    /\ \E tls \in Settings :
        LET options == ClientTls(LoadTls(tls))
        IN  link' = CASE IsLocal -> [transport |-> "local", tls |-> None]
                      [] ~IsLocal /\ tls = None ->
                            IF Assured THEN None ELSE [transport |-> "tcp", tls |-> None]
                      [] ~IsLocal /\ tls = Wrong -> None
                      [] OTHER -> IF RefusesClientTls(options, Assured) THEN None
                                  ELSE [transport |-> "tcp", tls |-> options]
    /\ UNCHANGED <<windows, network, root, form, endpoint>>

\* stop(), disconnect() or a loss; start() and a retry may follow.
Close ==
    /\ link # None
    /\ link' = None
    /\ UNCHANGED <<windows, network, root, form, endpoint>>

Init ==
    /\ windows \in BOOLEAN /\ network \in NetworkHosts /\ root \in Roots
    /\ form = <<>> /\ endpoint = None /\ link = None

Next ==
    \/ CallServe \/ CallServeNet \/ CallConnect \/ CallConnectNet
    \/ StartLocal \/ StartNet \/ ClientConnect \/ Close

Spec == Init /\ [][Next]_vars

-----------------------------------------------------------------------------
\* "arguments can be omitted so long as they are still in order": whatever was
\* passed is used, and for what was not there is a default.
ArgumentsAreUsed ==
    LET passed(a) == a \in Range(form)
    IN  endpoint # None =>
            /\ endpoint.host = CASE passed("host") -> "host" [] passed("path") -> "path" [] OTHER -> "default"
            /\ endpoint.callback = IF passed("callback") THEN "callback" ELSE "empty"
            /\ ~IsLocal => endpoint.port = IF passed("port") THEN "port" ELSE "default"
            /\ endpoint.udp = IF \E u \in Udp : passed(u) THEN CHOOSE u \in Udp : passed(u) ELSE "-"

\* A TLS server that knows authorities lets nobody in unchecked, unless the
\* application said so.
AuthoritiesAreConsulted ==
    endpoint # None /\ link # None /\ endpoint.role = "server" /\ link.tls # None =>
        (link.tls.ca # "unset" /\ "no" \notin {link.tls.requestCert, link.tls.rejectUnauthorized}
            => link.tls.requestCert = "yes" /\ link.tls.rejectUnauthorized = "yes")

\* A server of any profile that has its socket in a secured root listens in a
\* directory that is real, its user's and closed to others, whatever was there.
RootIsOwn ==
    endpoint # None /\ link # None /\ endpoint.role = "server" /\ IsLocal /\ ~windows =>
        (link.secure /\ link.place # "outside" => root = "private")

\* An open endpoint of the assured profile accepts verified peers only: mutual
\* TLS with trusted authorities, or, for a local server, a socket directly in a
\* root that is real, owned and private; and in every profile TLS servers consult
\* the authorities they were given and a secured root is nobody else's.
AssuredIsSecure ==
    /\ AuthoritiesAreConsulted /\ RootIsOwn
    /\ endpoint # None /\ link # None /\ Assured =>
          IF IsLocal
          THEN endpoint.role = "server" =>
                  ~windows /\ link.place = "child" /\ root = "private"
          ELSE /\ link.transport = "tcp" /\ link.tls # None
               /\ link.tls.key /\ link.tls.cert /\ link.tls.ca # "unset"
               /\ link.tls.rejectUnauthorized = "yes"
               /\ endpoint.role = "server" => link.tls.requestCert = "yes"

\* write() sends datagrams exactly on a datagram socket, and one for IPv4 has
\* no IPv6 address.
WritesFitTransport ==
    endpoint # None /\ link # None /\ endpoint.role = "server" =>
        /\ endpoint.datagrams <=> link.transport = "udp"
        /\ endpoint.udp = "udp4" => endpoint.path # "::1"

=============================================================================
