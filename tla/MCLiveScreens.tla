--------------------------- MODULE MCLiveScreens ---------------------------
EXTENDS LiveScreens, TLC

CONSTANTS requests, settings, tab, other

\* One topic with an interval, and one announced at once.
TwoTopics == <<requests, settings>>
OneTopic  == <<requests>>
=============================================================================
