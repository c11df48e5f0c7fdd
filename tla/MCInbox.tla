------------------------------ MODULE MCInbox ------------------------------
EXTENDS Inbox
\* Two messages, one of which can be counted twice, and a connection that breaks.
MCMaxMessages == 2
MCMaxUpsets == 1
=============================================================================
