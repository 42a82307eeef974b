------------------------------ MODULE MCOutbound ------------------------------
EXTENDS Outbound

TwoSinks == <<"http", "smtp">>
=============================================================================
