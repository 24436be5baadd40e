------------------------------ MODULE MCFrontend ------------------------------
EXTENDS Frontend

\* What may go wrong together: everything about starting and ending without
\* the card, the card with a host that fails, and the card with an early end.
MCMixes == {{"setup", "term", "crash", "dies"}, {"disk", "eject"}, {"disk", "term", "dies"}}
=============================================================================
