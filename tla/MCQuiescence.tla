---------------------------- MODULE MCQuiescence ----------------------------
(* Model-checking instances of Quiescence: the retry delays by stage.        *)
EXTENDS Quiescence

Delays1 == <<1>>

====
