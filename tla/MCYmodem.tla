------------------------------ MODULE MCYmodem ------------------------------
EXTENDS Ymodem
=============================================================================
