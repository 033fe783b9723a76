------------------------------ MODULE MCCapture ------------------------------
EXTENDS Capture
SomeLogs == {<<>>, <<"preset", "start">>}
====
