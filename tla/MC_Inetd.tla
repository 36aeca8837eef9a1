------------------------------- MODULE MC_Inetd -------------------------------
(* serv_arr of inetd.c:168-194 for TLC *)
EXTENDS Inetd

ServArr    == <<"str_echo", "dg_echo", "str_dis", "dg_dis">>
StreamServ == {"str_echo", "str_dis"}

====
