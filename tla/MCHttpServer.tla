----------------------------- MODULE MCHttpServer -----------------------------
EXTENDS HttpServerClaims

\* The characters of a string.
Characters1(string) == [k \in 1..Len(string) |-> SubSeq(string, k, k)]

ValidBodies ==
    {"", "na=a+", "na=%41&", "na=&de=254&", "de=25&dh=0", "de=&dh=1", "dh=0&dh=1", "dh=1&na=a%20",
     "a=10.0.0.255&na=b", "dh=0&ne=255.255.0.0", "na=ab&ne=1.2.3.&a=0.0.0.0"}

InvalidBodies ==
    {"na=abc&de=1", "na", "n=1", "nu=1", "&", "de=", "de=0", "de=255", "de=2a", "dh=", "dh=2", "dh=01",
     "a=1.2.3", "a=1.2.3&", "a=1.2.3.4.5", "a=0.0.0.256", "ne=1.2.3.x"}

MCRequests ==
    [kind : Kinds \ {"post"}, body : {<<>>}]
        \cup {[kind |-> "post", body |-> Characters1(body)] : body \in ValidBodies \cup InvalidBodies}

Stored == [name |-> <<"b">>, dest |-> 7, dhcp |-> FALSE,
           atem |-> [octet \in 0..3 |-> octet], netmask |-> [octet \in 0..3 |-> 0]]

MCConfigs == {Stored, Erased(<<"a">>)}

===============================================================================
