------------------------------ MODULE MCClientSdk ------------------------------
EXTENDS ClientSdk
\* conf/framework.conf names the same server twice.
MCServers == <<"a", "a">>
================================================================================
