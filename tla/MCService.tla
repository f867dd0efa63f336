----------------------------- MODULE MCService -----------------------------
\* Constants of Service for TLC: the proxy, a second process started now and
\* then, and two cameras of which one is online at first.
EXTENDS Service, TLC

CONSTANTS second, cam1, cam2

MCProcs == {proxy, second}
MCCameras == {cam1, cam2}
=============================================================================
