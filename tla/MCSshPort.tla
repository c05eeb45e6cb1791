----------------------------- MODULE MCSshPort -----------------------------
EXTENDS SshPort

Plain == [main: {{}, {22}}, drop: {{}, {2222}, {22, 2222}}, bysock: {FALSE}, sock: {{}}]
FreshSocket == [main: {{}}, drop: {{}}, bysock: {TRUE}, sock: {{}}]
MovedSocket == [main: {{}}, drop: {{2222}}, bysock: {TRUE}, sock: {{2222}}]
MCHosts == Plain \cup FreshSocket
MCMovedHosts == MovedSocket
MCPlainHost == {[main |-> {}, drop |-> {}, bysock |-> FALSE, sock |-> {}]}
=============================================================================
