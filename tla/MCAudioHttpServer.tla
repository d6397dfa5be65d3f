-------------------------- MODULE MCAudioHttpServer -------------------------
EXTENDS AudioHttpServer

LiveState ==
    <<Ring!Contents, cap, writePos, readPos,
      IF serverPc = "send" THEN sendBuf ELSE <<>>,
      flags, running, clients, server, audioPc, input, control, resetPc, output>>
=============================================================================
